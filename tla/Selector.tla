------------------------------ MODULE Selector ------------------------------
(***************************************************************************)
(* What get_next_appropriate_consensor promises its caller, without locks, *)
(* weights or round trips: a node of a list that was served while the      *)
(* caller asked, or nothing.  NodeSelection implements it.                 *)
(***************************************************************************)
EXTENDS Sequences, Naturals

CONSTANTS Task, Node, Lists

VARIABLES
    listed,   \* the ids of the list being served
    request   \* a request's stage, and the ids it has read ("looking") or the
              \* one it is sent to ("calling")

vars == <<listed, request>>

Becomes(t, stage, ids) ==
    /\ request' = [request EXCEPT ![t] = [stage |-> stage, ids |-> ids]]
    /\ UNCHANGED listed

\* A refresh, or an older list that a slow prepare_list puts back.
Replace(l) ==
    /\ listed' = {l[i] : i \in 1..Len(l)}
    /\ UNCHANGED request

Ask(t) ==
    /\ request[t].stage = "idle"
    /\ Becomes(t, "asking", {})

Look(t) ==
    /\ request[t].stage = "asking"
    /\ Becomes(t, "looking", listed)

\* Reads and chooses at once, or chooses from what was read before.
Choose(t, n) ==
    /\ \/ request[t].stage = "asking" /\ n \in listed
       \/ request[t].stage = "looking" /\ n \in request[t].ids
    /\ Becomes(t, "calling", {n})

\* No node: the caller answers with an error, or its task panics.
Refuse(t) ==
    /\ request[t].stage \in {"idle", "asking", "looking"}
    /\ Becomes(t, "refused", {})

\* It has its answer, or has hung up before.
Finish(t) ==
    /\ request[t].stage # "idle"
    /\ Becomes(t, "idle", {})

Init ==
    /\ listed = {}
    /\ request = [t \in Task |-> [stage |-> "idle", ids |-> {}]]

Next ==
    \/ \E l \in Lists : Replace(l)
    \/ \E t \in Task : Ask(t) \/ Look(t) \/ Refuse(t) \/ Finish(t)
    \/ \E t \in Task, n \in Node : Choose(t, n)

Spec == Init /\ [][Next]_vars
=============================================================================
