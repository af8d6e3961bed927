----------------------------- MODULE RpcService -----------------------------
(***************************************************************************)
(* Serving JSON-RPC: the WebSocket and HTTP handlers, the dispatch to a    *)
(* method, the calls the method makes to a consensor or the collector, and *)
(* the retry loop of lib_sendTransaction.                                  *)
(*                                                                         *)
(* A handler (one per client) awaits one thing at a time, so its state is  *)
(* where it awaits.  Which consensor is asked is NodeSelection's matter,   *)
(* what a subscription does is ChatRelay's; the nodes and the collector    *)
(* are outside the code and do here what the code must cope with: accept   *)
(* or refuse, answer wrongly, lose the connection, or say nothing.         *)
(***************************************************************************)
EXTENDS Integers, Sequences

CONSTANTS
    Client,       \* connections
    Frame,        \* [id, method, params] requests a client may send
    Retries,      \* what gen_range(3..5) may return
    MaxFrames,    \* bound: requests over one WebSocket
    None

\* lib_getAccount with one value is "account", with two it is "alias".
Unwrapping == {"receipt", "account", "alias"}   \* as_str().unwrap()
Collected  == {"receipt", "history"}            \* these ask the collector first
Asking     == {"account", "alias", "messages"}  \* these ask a consensor
Local      == {"subscribe", "unsubscribe"}
Methods    == {"send", "nodelist"} \cup Unwrapping \cup Collected \cup Asking \cup Local

\* method: one of these, or any other name ("unknown").
\* params: absent ("none"), not an array of the right length ("bad"), or such
\* an array whose value is a string ("ok") or is not ("odd").
Request == [id     : Nat,
            method : Methods \cup {"unknown"},
            params : {"none", "bad", "odd", "ok"}]

ASSUME FrameAssumption   == Frame \subseteq Request
ASSUME RetriesAssumption == Retries \subseteq Nat /\ \E n \in Retries : \A m \in Retries : m <= n
ASSUME NoneAssumption    == None \notin Request

VARIABLES
    ws,                  \* the clients on /ws; the others post one request to /
    pc,                  \* where a client's handler is
    req,                 \* the request it works on
    counter, max_retry,  \* locals of lib_send_transaction
    call,                \* how far its call to a consensor has come
    taken,               \* the requests a client has sent
    outbox,              \* the responses handed to its connection
    silent,              \* clients whose call will never be answered
    accepted,            \* how often nodes accepted a client's transaction
    stray                \* injections whose call failed, and which may yet arrive

locals == <<req, counter, max_retry, call>>
outside == <<silent, accepted, stray>>
vars == <<ws, pc, locals, taken, outbox, outside>>

-----------------------------------------------------------------------------
Supplied(f) == f.params \in {"odd", "ok"}

\* What is sent as text but is no request gets the id 1.
Garbage == [id |-> 1, method |-> "garbage", params |-> "none"]

Busy == {"dispatch", "collector", "select", "call"}

Sends(c) == req[c] # None /\ req[c].method = "send"
Submits(f) == f.method = "send" /\ Supplied(f)

Goto(c, label) == pc' = [pc EXCEPT ![c] = label]

\* The method is left, for good or for the next request.
Leave(c, label) ==
    /\ Goto(c, label)
    /\ req' = [req EXCEPT ![c] = None]
    /\ counter' = [counter EXCEPT ![c] = 0]
    /\ max_retry' = [max_retry EXCEPT ![c] = 0]
    /\ call' = [call EXCEPT ![c] = "none"]

\* generate_success_response, generate_error_response; a WebSocket handler goes
\* on to read, an HTTP one is done.
Answer(c, kind) ==
    /\ outbox' = [outbox EXCEPT ![c] = Append(@, [id |-> req[c].id, kind |-> kind])]
    /\ Leave(c, IF c \in ws THEN "read" ELSE "closed")

-----------------------------------------------------------------------------
(* The handlers, and the dispatch to a method *)

\* Bound: one transaction per client, so that accepted is about it.
TakeFrame(c, f) ==
    /\ pc[c] = "read"
    /\ Len(taken[c]) < IF c \in ws THEN MaxFrames ELSE 1
    /\ Submits(f) => \A k \in 1..Len(taken[c]) : ~Submits(taken[c][k])
    /\ taken' = [taken EXCEPT ![c] = Append(@, f)]
    /\ req' = [req EXCEPT ![c] = f]
    /\ Goto(c, "dispatch")
    /\ UNCHANGED <<counter, max_retry, call, outbox, outside>>

\* Faulty variant of TakeGarbage: the loop goes on before it answers.
SkipGarbage(c) ==
    /\ c \in ws
    /\ pc[c] = "read"
    /\ Len(taken[c]) < MaxFrames
    /\ taken' = [taken EXCEPT ![c] = Append(@, Garbage)]
    /\ UNCHANGED <<pc, locals, outbox, outside>>

\* Over HTTP the web framework turns it away before any handler runs.
TakeGarbage(c) ==
    /\ c \in ws
    /\ pc[c] = "read"
    /\ Len(taken[c]) < MaxFrames
    /\ taken' = [taken EXCEPT ![c] = Append(@, Garbage)]
    /\ outbox' = [outbox EXCEPT ![c] = Append(@, [id |-> Garbage.id, kind |-> "error"])]
    /\ UNCHANGED <<pc, locals, outside>>

\* The stream ends; a handler sees it only when it reads.
Disconnect(c) ==
    /\ c \in ws
    /\ pc[c] = "read"
    /\ Goto(c, "closed")
    /\ UNCHANGED <<locals, taken, outbox, outside>>

\* No such method, no usable parameters, or a subscription without WebSocket.
Invalid(c) ==
    LET m == req[c].method IN
    \/ m \notin Methods
    \/ m # "nodelist" /\ ~Supplied(req[c])
    \/ m = "subscribe" /\ c \notin ws

Reject(c) ==
    /\ pc[c] = "dispatch"
    /\ Invalid(c)
    /\ Answer(c, "error")
    /\ UNCHANGED <<taken, outside>>

\* as_str().unwrap(), or unsubscribe_chat_room of an id that has no room.
DispatchPanics(c) ==
    /\ pc[c] = "dispatch"
    /\ ~Invalid(c)
    /\ \/ req[c].method \in Unwrapping /\ req[c].params = "odd"
       \/ req[c].method = "unsubscribe"
    /\ Leave(c, "panicked")
    /\ UNCHANGED <<taken, outbox, outside>>

\* Needs nobody's help; where a string is expected, "" stands for what is none.
AnswerLocally(c) ==
    /\ pc[c] = "dispatch"
    /\ ~Invalid(c)
    /\ req[c].method \in Local \cup {"nodelist"}
    /\ Answer(c, "result")
    /\ UNCHANGED <<taken, outside>>

\* Faulty variant of BeginSend: gen_range(3..=5).
BeginSendInclusive(c) ==
    /\ pc[c] = "dispatch"
    /\ Sends(c)
    /\ ~Invalid(c)
    /\ \E n \in Retries : max_retry' = [max_retry EXCEPT ![c] = n + 1]
    /\ Goto(c, "select")
    /\ UNCHANGED <<req, counter, call, taken, outbox, outside>>

BeginSend(c) ==
    /\ pc[c] = "dispatch"
    /\ Sends(c)
    /\ ~Invalid(c)
    /\ \E n \in Retries : max_retry' = [max_retry EXCEPT ![c] = n]
    /\ Goto(c, "select")
    /\ UNCHANGED <<req, counter, call, taken, outbox, outside>>

BeginQuery(c) ==
    /\ pc[c] = "dispatch"
    /\ ~Invalid(c)
    /\ req[c].method \in Unwrapping => req[c].params = "ok"
    /\ \/ req[c].method \in Collected /\ Goto(c, "collector")
       \/ req[c].method \in Asking /\ Goto(c, "select")
    /\ UNCHANGED <<locals, taken, outbox, outside>>

-----------------------------------------------------------------------------
(* The collector *)

CollectorFinds(c) ==
    /\ pc[c] = "collector"
    /\ c \notin silent
    /\ Answer(c, "result")
    /\ UNCHANGED <<taken, outside>>

\* Nothing found, no success, or no usable answer: a receipt is then asked of a
\* consensor, a history is not.
CollectorFails(c) ==
    /\ pc[c] = "collector"
    /\ c \notin silent
    /\ \/ /\ req[c].method = "receipt"
          /\ Goto(c, "select")
          /\ UNCHANGED <<locals, outbox>>
       \/ /\ req[c].method = "history"
          /\ Answer(c, "error")
    /\ UNCHANGED <<taken, outside>>

-----------------------------------------------------------------------------
(* Calls to a consensor, and the retry loop *)

\* Faulty variants of Failure: the last retry is not the last; retries are not
\* counted.
FailureOneMore(c) ==
    IF Sends(c) /\ counter[c] <= max_retry[c]
      THEN /\ counter' = [counter EXCEPT ![c] = @ + 1]
           /\ call' = [call EXCEPT ![c] = "none"]
           /\ Goto(c, "select")
           /\ UNCHANGED <<req, max_retry, outbox>>
      ELSE Answer(c, "error")
FailureUncounted(c) ==
    IF Sends(c) /\ counter[c] < max_retry[c]
      THEN /\ call' = [call EXCEPT ![c] = "none"]
           /\ Goto(c, "select")
           /\ UNCHANGED <<req, counter, max_retry, outbox>>
      ELSE Answer(c, "error")

\* A transaction is tried again, anything else is answered with an error.
Failure(c) ==
    IF Sends(c) /\ counter[c] < max_retry[c]
      THEN /\ counter' = [counter EXCEPT ![c] = @ + 1]
           /\ call' = [call EXCEPT ![c] = "none"]
           /\ Goto(c, "select")
           /\ UNCHANGED <<req, max_retry, outbox>>
      ELSE Answer(c, "error")

SelectConsensor(c) ==
    /\ pc[c] = "select"
    /\ call' = [call EXCEPT ![c] = "sent"]
    /\ Goto(c, "call")
    /\ UNCHANGED <<req, counter, max_retry, taken, outbox, outside>>

NoConsensor(c) ==
    /\ pc[c] = "select"
    /\ Failure(c)
    /\ UNCHANGED <<taken, outside>>

\* get_random_consensor_biased may panic (NodeSelection).
SelectionPanics(c) ==
    /\ pc[c] = "select"
    /\ Leave(c, "panicked")
    /\ UNCHANGED <<taken, outbox, outside>>

\* A node that was sent a transaction has dealt with it before it answers.
Answering(c) ==
    /\ pc[c] = "call"
    /\ c \notin silent
    /\ Sends(c) => call[c] # "sent"

\* Faulty variant of CallSucceeds: parsed_result.success is not looked at.
CallSucceedsAnyhow(c) ==
    /\ Answering(c)
    /\ IF req[c].method = "alias"
         THEN /\ req' = [req EXCEPT ![c].method = "account"]
              /\ call' = [call EXCEPT ![c] = "none"]
              /\ Goto(c, "select")
              /\ UNCHANGED <<counter, max_retry, outbox>>
         ELSE Answer(c, "result")
    /\ UNCHANGED <<taken, outside>>

\* The address behind an alias is then asked for its account.
CallSucceeds(c) ==
    /\ Answering(c)
    /\ Sends(c) => call[c] = "accepted"
    /\ IF req[c].method = "alias"
         THEN /\ req' = [req EXCEPT ![c].method = "account"]
              /\ call' = [call EXCEPT ![c] = "none"]
              /\ Goto(c, "select")
              /\ UNCHANGED <<counter, max_retry, outbox>>
         ELSE Answer(c, "result")
    /\ UNCHANGED <<taken, outside>>

\* success: false or an error; an account, alias or receipt that is not there.
\* Any JSON will do for messages.
CallReports(c) ==
    /\ Answering(c)
    /\ Sends(c) => call[c] = "refused"
    /\ req[c].method # "messages"
    /\ Failure(c)
    /\ UNCHANGED <<taken, outside>>

\* No JSON, or JSON with neither a result nor an error: unwrap.
CallPanics(c) ==
    /\ Answering(c)
    /\ Leave(c, "panicked")
    /\ UNCHANGED <<taken, outbox, outside>>

\* The call fails; what was sent may still reach the node.
Astray(c) == IF Sends(c) /\ call[c] = "sent" THEN stray[c] + 1 ELSE stray[c]
CallLost(c) ==
    /\ pc[c] = "call"
    /\ c \notin silent
    /\ stray' = [stray EXCEPT ![c] = Astray(c)]
    /\ Failure(c)
    /\ UNCHANGED <<taken, silent, accepted>>

-----------------------------------------------------------------------------
(* What happens outside *)

NodeAccepts(c) ==
    /\ Sends(c)
    /\ call[c] = "sent"
    /\ accepted' = [accepted EXCEPT ![c] = @ + 1]
    /\ call' = [call EXCEPT ![c] = "accepted"]
    /\ UNCHANGED <<pc, req, counter, max_retry, taken, outbox, silent, stray>>

NodeRefuses(c) ==
    /\ Sends(c)
    /\ call[c] = "sent"
    /\ call' = [call EXCEPT ![c] = "refused"]
    /\ UNCHANGED <<pc, req, counter, max_retry, taken, outbox, outside>>

StrayArrives(c) ==
    /\ stray[c] > 0
    /\ stray' = [stray EXCEPT ![c] = @ - 1]
    /\ \/ accepted' = [accepted EXCEPT ![c] = @ + 1]
       \/ UNCHANGED accepted
    /\ UNCHANGED <<pc, locals, taken, outbox, silent>>

\* A peer that keeps the connection and says nothing: no timeout is set.
FallsSilent(c) ==
    /\ pc[c] \in {"collector", "call"}
    /\ silent' = silent \cup {c}
    /\ UNCHANGED <<pc, locals, taken, outbox, accepted, stray>>

\* An HTTP client hangs up: its handler is dropped where it awaits.
HangUp(c) ==
    /\ c \notin ws
    /\ pc[c] \in Busy
    /\ stray' = [stray EXCEPT ![c] = Astray(c)]
    /\ silent' = silent \ {c}
    /\ Leave(c, "closed")
    /\ UNCHANGED <<taken, outbox, accepted>>

-----------------------------------------------------------------------------
Init ==
    /\ ws \in SUBSET Client
    /\ pc = [c \in Client |-> "read"]
    /\ req = [c \in Client |-> None]
    /\ counter = [c \in Client |-> 0]
    /\ max_retry = [c \in Client |-> 0]
    /\ call = [c \in Client |-> "none"]
    /\ taken = [c \in Client |-> <<>>]
    /\ outbox = [c \in Client |-> <<>>]
    /\ silent = {}
    /\ accepted = [c \in Client |-> 0]
    /\ stray = [c \in Client |-> 0]

\* What a handler does by itself once it has a request.
Handle(c) ==
    /\ \/ Reject(c) \/ DispatchPanics(c) \/ AnswerLocally(c)
       \/ BeginSend(c) \/ BeginQuery(c)
       \/ CollectorFinds(c) \/ CollectorFails(c)
       \/ SelectConsensor(c) \/ NoConsensor(c) \/ SelectionPanics(c)
       \/ CallSucceeds(c) \/ CallReports(c) \/ CallPanics(c) \/ CallLost(c)
    /\ UNCHANGED ws

Listen(c) ==
    /\ \/ \E f \in Frame : TakeFrame(c, f)
       \/ TakeGarbage(c) \/ Disconnect(c)
    /\ UNCHANGED ws

Outside(c) ==
    /\ \/ NodeAccepts(c) \/ NodeRefuses(c) \/ StrayArrives(c)
       \/ FallsSilent(c) \/ HangUp(c)
    /\ UNCHANGED ws

Next == \E c \in Client : Listen(c) \/ Handle(c) \/ Outside(c)

Spec == Init /\ [][Next]_vars

\* tokio runs every runnable task, and a call ends unless its peer is silent.
Fairness == \A c \in Client : WF_vars(Handle(c))
FairSpec == Spec /\ Fairness

-----------------------------------------------------------------------------
(* Properties *)

Response == [id : Nat, kind : {"result", "error"}]

\* The type invariant of the handlers and of what they exchange.
TypeOK ==
    /\ ws \subseteq Client
    /\ pc \in [Client -> Busy \cup {"read", "closed", "panicked"}]
    /\ req \in [Client -> Request \cup {None}]
    /\ \A c \in Client : pc[c] \in Busy <=> req[c] # None
    /\ counter \in [Client -> Nat]
    /\ max_retry \in [Client -> Retries \cup {0}]
    /\ call \in [Client -> {"none", "sent", "accepted", "refused"}]
    /\ taken \in [Client -> Seq(Frame \cup {Garbage})]
    /\ outbox \in [Client -> Seq(Response)]
    /\ silent \subseteq Client
    /\ accepted \in [Client -> Nat]
    /\ stray \in [Client -> Nat]

\* Over one connection every request has one response, with its id, in the order
\* the requests came: while the handler reads nothing is outstanding, otherwise
\* the last request is (ws_rpc_handler answers one request before the next).
AnswersInOrder ==
    \A c \in Client :
        /\ pc[c] \in Busy => Len(outbox[c]) = Len(taken[c]) - 1
        /\ pc[c] = "read" => Len(outbox[c]) = Len(taken[c])
        /\ Len(outbox[c]) \in {Len(taken[c]), Len(taken[c]) - 1}
        /\ \A k \in 1..Len(outbox[c]) : outbox[c][k].id = taken[c][k].id

InFlight(c) == IF Sends(c) /\ call[c] = "sent" THEN 1 ELSE 0

\* While a transaction is being sent, the injections that took effect, may yet
\* do so or are on their way are no more than the attempts the loop counted, and
\* those no more than max_retry and one (lib_send_transaction).
AttemptsAreCounted ==
    \A c \in Client :
        Sends(c) /\ pc[c] \in {"select", "call"} =>
            /\ accepted[c] + stray[c] + InFlight(c) <= counter[c] + 1
            /\ counter[c] <= max_retry[c]

\* Every request is answered, or its handler ends, unless its peer is silent
\* (no call is given a timeout): the retry loop comes to an end.
AnswersUnlessSilent ==
    \A c \in Client : pc[c] \in Busy ~> (pc[c] \notin Busy \/ c \in silent)

-----------------------------------------------------------------------------
(* What a client may rely on: module Submission *)

\* Where among the requests the transaction is, or 0.
PlaceIn(requests) ==
    LET places == {k \in 1..Len(requests) : Submits(requests[k])}
    IN  IF places = {} THEN 0 ELSE CHOOSE k \in places : TRUE

\* What the client knows of it, from its requests, the responses and the handler.
StatusOf(requests, responses, label) ==
    LET place == PlaceIn(requests) IN
    IF place = 0 THEN "new"
    ELSE IF place <= Len(responses)
           THEN IF responses[place].kind = "result" THEN "success" ELSE "error"
    ELSE IF label \in Busy THEN "open" ELSE "lost"

Status(c) == StatusOf(taken[c], outbox[c], pc[c])

\* One attempt and the retries; five for gen_range(3..5).
MaxAttempts == 1 + CHOOSE n \in Retries : \A m \in Retries : m <= n

Promise == INSTANCE Submission WITH
    MaxAttempts <- MaxAttempts,
    status  <- [c \in Client |-> Status(c)],
    applied <- accepted

\* Whatever is lost, refused, repeated or late, success is reported only for a
\* transaction that a node accepted, and none is accepted more often than it is
\* attempted, five times (lib_send_transaction).
KeepsPromise == Promise!Spec
=============================================================================
