----------------------------- MODULE Submission -----------------------------
(***************************************************************************)
(* What lib_sendTransaction promises, without nodes, retries or lost       *)
(* answers: success is reported only for a transaction some node accepted; *)
(* an error promises nothing, the transaction may have been accepted, or   *)
(* still be; and it is accepted at most MaxAttempts times.                 *)
(* RpcService implements it.                                               *)
(***************************************************************************)
EXTENDS Naturals

CONSTANTS Client, MaxAttempts

VARIABLES
    status,    \* of the one transaction a client submits
    applied    \* how often nodes have accepted it

vars == <<status, applied>>

Becomes(c, s) == status' = [status EXCEPT ![c] = s]

Submit(c) ==
    /\ status[c] = "new"
    /\ Becomes(c, "open")
    /\ UNCHANGED applied

\* Before or after the client has its answer.
Apply(c) ==
    /\ status[c] # "new"
    /\ applied[c] < MaxAttempts
    /\ applied' = [applied EXCEPT ![c] = @ + 1]
    /\ UNCHANGED status

Succeed(c) ==
    /\ status[c] = "open"
    /\ applied[c] > 0
    /\ Becomes(c, "success")
    /\ UNCHANGED applied

\* The client is told of an error, or never told anything.
Fail(c) ==
    /\ status[c] = "open"
    /\ \E s \in {"error", "lost"} : Becomes(c, s)
    /\ UNCHANGED applied

Init ==
    /\ status = [c \in Client |-> "new"]
    /\ applied = [c \in Client |-> 0]

Next == \E c \in Client : Submit(c) \/ Apply(c) \/ Succeed(c) \/ Fail(c)

Spec == Init /\ [][Next]_vars
=============================================================================
