-------------------------- MODULE RpcServiceProofs --------------------------
(***************************************************************************)
(* Proofs about RpcService, for every set of clients and of requests, any  *)
(* number of requests over a connection and any range of retries.          *)
(***************************************************************************)
EXTENDS RpcService, TLAPS

-----------------------------------------------------------------------------
(* The inductive invariant, client by client *)

Typed(c) ==
    /\ pc[c] \in Busy \cup {"read", "closed", "panicked"}
    /\ req[c] \in Request \cup {None}
    /\ pc[c] \in Busy <=> req[c] # None
    /\ counter[c] \in Nat
    /\ max_retry[c] \in Retries \cup {0}
    /\ call[c] \in {"none", "sent", "accepted", "refused"}
    /\ taken[c] \in Seq(Frame \cup {Garbage})
    /\ outbox[c] \in Seq(Response)
    /\ accepted[c] \in Nat
    /\ stray[c] \in Nat

InOrder(c) ==
    /\ pc[c] \in Busy => Len(outbox[c]) = Len(taken[c]) - 1
    /\ pc[c] = "read" => Len(outbox[c]) = Len(taken[c])
    /\ Len(outbox[c]) \in {Len(taken[c]), Len(taken[c]) - 1}
    /\ \A k \in 1..Len(outbox[c]) : outbox[c][k].id = taken[c][k].id

\* The handler works on the last request taken; an alias may have become the
\* account behind it.
OnLast(c) ==
    pc[c] \in Busy =>
        LET last == taken[c][Len(taken[c])] IN
        /\ req[c].id = last.id
        /\ req[c].params = last.params
        /\ req[c].method = "send" <=> last.method = "send"

OneSubmission(c) ==
    \A j, k \in 1..Len(taken[c]) :
        Submits(taken[c][j]) /\ Submits(taken[c][k]) => j = k

\* A call is under way while its answer is awaited; a transaction is sent by the
\* retry loop alone, and only if there is one in the request.
Calling(c) ==
    /\ call[c] # "none" <=> pc[c] = "call"
    /\ Sends(c) => pc[c] \in {"dispatch", "select", "call"}
    /\ Sends(c) /\ pc[c] # "dispatch" => Supplied(req[c])

\* Injections that took effect, may yet do so, or are on their way.
Injections(c) == accepted[c] + stray[c] + InFlight(c)

\* When the loop selects a consensor each of the counter calls before may have
\* taken effect, and during a call that one too.
Counted(c) ==
    /\ pc[c] \notin {"select", "call"} => counter[c] = 0
    /\ PlaceIn(taken[c]) = 0 => Injections(c) = 0
    /\ pc[c] = "dispatch" /\ Submits(req[c]) => Injections(c) = 0
    /\ Sends(c) /\ pc[c] = "select" => Injections(c) <= counter[c]
    /\ Sends(c) /\ pc[c] = "call" => Injections(c) <= counter[c] + 1
    /\ Sends(c) /\ pc[c] \in {"select", "call"} => counter[c] <= max_retry[c]
    /\ Sends(c) /\ call[c] = "accepted" => accepted[c] > 0
    /\ Injections(c) <= MaxAttempts

Sound(c) ==
    Typed(c) /\ InOrder(c) /\ OnLast(c) /\ OneSubmission(c) /\ Calling(c) /\ Counted(c)

Inv == TypeOK /\ \A c \in Client : Sound(c)

-----------------------------------------------------------------------------
(* The parts of the invariant *)

LEMMA MostAttempts ==
  /\ MaxAttempts \in Nat
  /\ MaxAttempts >= 1
  /\ \A n \in Retries \cup {0} : n + 1 <= MaxAttempts
<1> DEFINE Most(n) == \A m \in Retries : m <= n
<1>1. PICK n \in Retries : Most(n)
  BY RetriesAssumption
<1> DEFINE most == CHOOSE k \in Retries : Most(k)
<1>2. MaxAttempts = 1 + most
  BY DEF MaxAttempts
<1>3. most \in Retries /\ Most(most)
  <2> HIDE DEF Most
  <2> QED BY <1>1
<1> HIDE DEF most
<1> QED BY <1>2, <1>3, RetriesAssumption

\* PlaceIn finds the transaction, if there is one.
LEMMA PlaceFound ==
  ASSUME NEW requests
  PROVE  \/ PlaceIn(requests) = 0 /\ \A k \in 1..Len(requests) : ~Submits(requests[k])
         \/ PlaceIn(requests) \in 1..Len(requests) /\ Submits(requests[PlaceIn(requests)])
<1> DEFINE places == {k \in 1..Len(requests) : Submits(requests[k])}
<1>1. PlaceIn(requests) = IF places = {} THEN 0 ELSE CHOOSE k \in places : TRUE
  BY DEF PlaceIn
<1>2. CASE places = {}
  BY <1>1, <1>2
<1>3. CASE places # {}
  <2>1. PlaceIn(requests) \in places
    <3> HIDE DEF places
    <3> QED BY <1>1, <1>3
  <2> QED BY <2>1
<1> QED BY <1>2, <1>3

LEMMA TypeIsTyped ==
  ASSUME TypeOK, NEW c \in Client
  PROVE  Typed(c)
BY DEF TypeOK, Typed

\* What a step does not touch at a client stays sound there.
Elsewhere(c) ==
    /\ pc'[c] = pc[c]
    /\ req'[c] = req[c]
    /\ counter'[c] = counter[c]
    /\ max_retry'[c] = max_retry[c]
    /\ call'[c] = call[c]
    /\ taken'[c] = taken[c]
    /\ outbox'[c] = outbox[c]
    /\ accepted'[c] = accepted[c]
    /\ stray'[c] = stray[c]

LEMMA SoundElsewhere ==
  ASSUME NEW c \in Client, Sound(c), Elsewhere(c)
  PROVE  Sound(c)'
<1> USE DEF Sound, Elsewhere, Sends
<1>1. Typed(c)'
  BY DEF Typed
<1>2. InOrder(c)'
  BY DEF InOrder
<1>3. OnLast(c)' /\ OneSubmission(c)'
  BY DEF OnLast, OneSubmission
<1>4. Calling(c)'
  BY DEF Calling
<1>5. Counted(c)'
  BY DEF Counted, Injections, InFlight
<1> QED BY <1>1, <1>2, <1>3, <1>4, <1>5

-----------------------------------------------------------------------------
(* How a method ends *)

\* What is known of a handler that is at work on a request.
LEMMA AtWork ==
  ASSUME NEW c \in Client, Sound(c), pc[c] \in Busy
  PROVE  /\ req[c] \in Request
         /\ taken[c] # <<>>
         /\ Len(outbox[c]) = Len(taken[c]) - 1
         /\ req[c].id = taken[c][Len(taken[c])].id
         /\ Submits(req[c]) <=> Submits(taken[c][Len(taken[c])])
         /\ Submits(req[c]) => PlaceIn(taken[c]) = Len(taken[c])
<1>1. Typed(c) /\ InOrder(c) /\ OnLast(c) /\ OneSubmission(c)
  BY DEF Sound
<1>2. req[c] \in Request /\ taken[c] \in Seq(Frame \cup {Garbage}) /\ outbox[c] \in Seq(Response)
  BY <1>1 DEF Typed
<1>3. Len(outbox[c]) = Len(taken[c]) - 1
  BY <1>1 DEF InOrder
<1>4. taken[c] # <<>> /\ Len(taken[c]) \in 1..Len(taken[c])
  BY <1>2, <1>3
<1>5. /\ req[c].id = taken[c][Len(taken[c])].id
      /\ Submits(req[c]) <=> Submits(taken[c][Len(taken[c])])
  BY <1>1 DEF OnLast, Submits, Supplied
<1>6. Submits(req[c]) => PlaceIn(taken[c]) = Len(taken[c])
  BY <1>1, <1>4, <1>5, PlaceFound DEF OneSubmission
<1> QED BY <1>2, <1>3, <1>4, <1>5, <1>6

\* The step submits nothing and loses nothing but what was on its way.
Settles(c) ==
    /\ accepted'[c] \in Nat
    /\ stray'[c] \in Nat
    /\ accepted'[c] + stray'[c] <= Injections(c)

LEMMA InjectionsType ==
  ASSUME NEW c \in Client, Typed(c)
  PROVE  Injections(c) \in Nat /\ InFlight(c) \in {0, 1}
BY DEF Typed, Injections, InFlight

\* A handler that ends without an answer, having panicked or been dropped.
LEMMA SoundAfterLeave ==
  ASSUME NEW c \in Client, TypeOK, Sound(c), pc[c] \in Busy, Settles(c),
         NEW label \in {"closed", "panicked"}, Leave(c, label),
         UNCHANGED <<taken, outbox>>
  PROVE  Sound(c)'
<1> USE DEF Sound
<1>1. /\ pc'[c] = label /\ req'[c] = None /\ counter'[c] = 0 /\ max_retry'[c] = 0
      /\ call'[c] = "none" /\ taken' = taken /\ outbox' = outbox
  BY DEF TypeOK, Leave, Goto
<1>2. label \notin Busy /\ label \notin {"read", "dispatch", "collector", "select", "call"}
  BY DEF Busy
<1>3. ~Sends(c)'
  BY <1>1 DEF Sends
<1>4. Typed(c)'
  BY <1>1, <1>2 DEF Typed, Settles
<1>5. InOrder(c)'
  BY <1>1, <1>2 DEF InOrder
<1>6. OnLast(c)' /\ OneSubmission(c)'
  BY <1>1, <1>2 DEF OnLast, OneSubmission
<1>7. Calling(c)'
  BY <1>1, <1>2, <1>3 DEF Calling
<1>8. Injections(c)' \in Nat /\ Injections(c)' <= Injections(c)
  BY <1>3, <1>4 DEF Injections, InFlight, Settles, Typed
<1>9. Counted(c)'
  BY <1>1, <1>2, <1>3, <1>8, InjectionsType, MostAttempts DEF Counted
<1> QED BY <1>4, <1>5, <1>6, <1>7, <1>9

LEMMA SoundAfterAnswer ==
  ASSUME NEW c \in Client, TypeOK, Sound(c), pc[c] \in Busy, Settles(c),
         NEW kind \in {"result", "error"}, Answer(c, kind),
         UNCHANGED taken
  PROVE  Sound(c)'
<1> USE DEF Sound
<1> DEFINE response == [id |-> req[c].id, kind |-> kind]
           label == IF c \in ws THEN "read" ELSE "closed"
<1>1. /\ pc'[c] = label /\ req'[c] = None /\ counter'[c] = 0 /\ max_retry'[c] = 0
      /\ call'[c] = "none" /\ taken' = taken /\ outbox'[c] = Append(outbox[c], response)
  BY DEF TypeOK, Answer, Leave, Goto
<1>2. label \notin Busy /\ label \notin {"dispatch", "collector", "select", "call"}
  BY DEF Busy
<1> HIDE DEF label
<1>3. ~Sends(c)'
  BY <1>1 DEF Sends
<1>4. response \in Response
  BY AtWork DEF Response, Request
<1>5. Typed(c)'
  <2>1. outbox'[c] \in Seq(Response)
    BY <1>1, <1>4 DEF Typed
  <2>2. label \in {"read", "closed"}
    BY DEF label
  <2> QED BY <1>1, <1>2, <2>1, <2>2 DEF Typed, Settles
<1>6. InOrder(c)'
  <2>1. /\ Len(outbox'[c]) = Len(taken[c])
        /\ \A k \in 1..Len(outbox[c]) : outbox'[c][k] = outbox[c][k]
        /\ outbox'[c][Len(taken[c])] = response
    BY <1>1, <1>4, AtWork DEF Typed
  <2>2. \A k \in 1..Len(outbox'[c]) : outbox'[c][k].id = taken[c][k].id
    <3> SUFFICES ASSUME NEW k \in 1..Len(taken[c])
                 PROVE  outbox'[c][k].id = taken[c][k].id
      BY <2>1
    <3>1. taken[c] \in Seq(Frame \cup {Garbage}) /\ outbox[c] \in Seq(Response)
      BY DEF Typed
    <3>2. CASE k = Len(taken[c])
      BY <2>1, <3>2, AtWork
    <3>3. CASE k # Len(taken[c])
      <4>1. k \in 1..Len(outbox[c])
        BY <3>1, <3>3, AtWork
      <4> QED BY <2>1, <4>1 DEF InOrder
    <3> QED BY <3>2, <3>3
  <2> QED BY <1>1, <1>2, <2>1, <2>2 DEF InOrder
<1>7. OnLast(c)' /\ OneSubmission(c)'
  BY <1>1, <1>2 DEF OnLast, OneSubmission
<1>8. Calling(c)'
  BY <1>1, <1>2, <1>3 DEF Calling
<1>9. Injections(c)' \in Nat /\ Injections(c)' <= Injections(c)
  BY <1>3, <1>5 DEF Injections, InFlight, Settles, Typed
<1>10. Counted(c)'
  BY <1>1, <1>2, <1>3, <1>9, InjectionsType, MostAttempts DEF Counted
<1> QED BY <1>5, <1>6, <1>7, <1>8, <1>10

LEMMA SoundAfterFailure ==
  ASSUME NEW c \in Client, TypeOK, Sound(c), pc[c] \in {"select", "call"}, Settles(c),
         Failure(c), UNCHANGED taken
  PROVE  Sound(c)'
<1> USE DEF Sound
<1>1. pc[c] \in Busy
  BY DEF Busy
<1>2. CASE ~(Sends(c) /\ counter[c] < max_retry[c])
  BY <1>1, <1>2, SoundAfterAnswer DEF Failure
<1>3. CASE Sends(c) /\ counter[c] < max_retry[c]
  <2>1. /\ pc'[c] = "select" /\ req' = req /\ counter'[c] = counter[c] + 1
        /\ max_retry' = max_retry /\ call'[c] = "none" /\ taken' = taken /\ outbox' = outbox
    BY <1>3 DEF TypeOK, Failure, Goto
  <2>2. Sends(c)' <=> Sends(c)
    BY <2>1 DEF Sends
  <2>3. Typed(c)'
    BY <1>1, <2>1 DEF Typed, Settles, Busy
  <2>4. InOrder(c)'
    BY <1>1, <2>1 DEF InOrder
  <2>5. OnLast(c)' /\ OneSubmission(c)'
    BY <1>1, <2>1 DEF OnLast, OneSubmission
  <2>6. Calling(c)'
    BY <2>1, <2>2 DEF Calling
  <2>7. Injections(c)' \in Nat /\ Injections(c)' <= Injections(c)
    BY <2>1, <2>3 DEF Injections, InFlight, Settles, Typed
  <2>8. Injections(c) <= counter[c] + 1 /\ Injections(c) <= MaxAttempts
    BY <1>3, InjectionsType DEF Counted, Typed
  <2>9. PlaceIn(taken'[c]) = 0 => Injections(c)' = 0
    BY <2>1, <2>7, InjectionsType DEF Counted
  <2>10. Counted(c)'
    <3>1. Injections(c)' <= counter'[c] /\ Injections(c)' <= MaxAttempts
      BY <2>1, <2>7, <2>8, InjectionsType, MostAttempts, SMTT(20) DEF Typed
    <3>2. counter'[c] <= max_retry'[c]
      <4>1. counter[c] \in Nat /\ max_retry[c] \in Nat
        <5>1. counter[c] \in Nat /\ max_retry[c] \in Retries \cup {0}
          BY DEF Typed
        <5>2. Retries \subseteq Nat
          BY RetriesAssumption
        <5>3. \A n \in Retries \cup {0} : n \in Nat
          BY <5>2
        <5> QED BY <5>1, <5>3, Zenon
      <4> QED BY <1>3, <2>1, <4>1
    <3> QED BY <2>1, <2>9, <3>1, <3>2 DEF Counted
  <2> QED BY <2>3, <2>4, <2>5, <2>6, <2>10
<1> QED BY <1>2, <1>3

-----------------------------------------------------------------------------
(* Every step keeps the type *)

LEMMA TypeInit ==
  ASSUME Init
  PROVE  TypeOK
BY DEF Init, TypeOK, Busy

LEMMA LeaveType ==
  ASSUME TypeOK, NEW c \in Client, NEW label \in {"read", "closed", "panicked"},
         Leave(c, label)
  PROVE  /\ pc' \in [Client -> Busy \cup {"read", "closed", "panicked"}]
         /\ req' \in [Client -> Request \cup {None}]
         /\ \A d \in Client : pc'[d] \in Busy <=> req'[d] # None
         /\ counter' \in [Client -> Nat]
         /\ max_retry' \in [Client -> Retries \cup {0}]
         /\ call' \in [Client -> {"none", "sent", "accepted", "refused"}]
<1>1. label \notin Busy
  BY DEF Busy
<1> QED BY <1>1 DEF TypeOK, Leave, Goto

LEMMA AnswerType ==
  ASSUME TypeOK, NEW c \in Client, pc[c] \in Busy, NEW kind \in {"result", "error"},
         Answer(c, kind), UNCHANGED <<ws, taken, silent>>,
         accepted' \in [Client -> Nat], stray' \in [Client -> Nat]
  PROVE  TypeOK'
<1>1. [id |-> req[c].id, kind |-> kind] \in Response
  BY DEF TypeOK, Response, Request
<1>2. outbox' \in [Client -> Seq(Response)]
  BY <1>1 DEF TypeOK, Answer
<1> QED BY <1>2, LeaveType DEF TypeOK, Answer

LEMMA FailureType ==
  ASSUME TypeOK, NEW c \in Client, pc[c] \in Busy, Failure(c),
         UNCHANGED <<ws, taken, silent>>,
         accepted' \in [Client -> Nat], stray' \in [Client -> Nat]
  PROVE  TypeOK'
<1>1. CASE ~(Sends(c) /\ counter[c] < max_retry[c])
  BY <1>1, AnswerType DEF Failure
<1>2. CASE Sends(c) /\ counter[c] < max_retry[c]
  <2>1. /\ counter' = [counter EXCEPT ![c] = @ + 1]
        /\ call' = [call EXCEPT ![c] = "none"]
        /\ pc' = [pc EXCEPT ![c] = "select"]
        /\ UNCHANGED <<req, max_retry, outbox>>
    BY <1>2 DEF Failure, Goto
  <2>2. "select" \in Busy
    BY DEF Busy
  <2>3. pc' \in [Client -> Busy \cup {"read", "closed", "panicked"}]
    BY <2>1, <2>2 DEF TypeOK
  <2>4. \A d \in Client : pc'[d] \in Busy <=> req'[d] # None
    BY <2>1, <2>2 DEF TypeOK
  <2>5. counter' \in [Client -> Nat] /\ call' \in [Client -> {"none", "sent", "accepted", "refused"}]
    BY <2>1 DEF TypeOK
  <2> QED BY <2>1, <2>3, <2>4, <2>5 DEF TypeOK
<1> QED BY <1>1, <1>2

\* The call of a transaction may still arrive after it failed.
LEMMA AstrayIsNat ==
  ASSUME TypeOK, NEW c \in Client
  PROVE  Astray(c) \in Nat
BY DEF TypeOK, Astray

LEMMA TypeStep ==
  ASSUME TypeOK, Next
  PROVE  TypeOK'
<1> USE DEF TypeOK, locals, outside, Goto
<1>1. PICK c \in Client : Listen(c) \/ Handle(c) \/ Outside(c)
  BY DEF Next
<1>2. ASSUME NEW f \in Frame, TakeFrame(c, f), ws' = ws PROVE TypeOK'
  <2>1. f \in Request /\ f # None
    BY FrameAssumption, NoneAssumption
  <2> QED BY <1>2, <2>1 DEF TakeFrame, Busy
<1>3. ASSUME TakeGarbage(c), ws' = ws PROVE TypeOK'
  BY <1>3 DEF TakeGarbage, Response, Garbage
<1>4. ASSUME Disconnect(c), ws' = ws PROVE TypeOK'
  BY <1>4 DEF Disconnect, Busy
<1>5. ASSUME Reject(c), ws' = ws PROVE TypeOK'
  BY <1>5, AnswerType DEF Reject, Busy
<1>6. ASSUME DispatchPanics(c), ws' = ws PROVE TypeOK'
  BY <1>6, LeaveType DEF DispatchPanics
<1>7. ASSUME AnswerLocally(c), ws' = ws PROVE TypeOK'
  BY <1>7, AnswerType DEF AnswerLocally, Busy
<1>8. ASSUME BeginSend(c), ws' = ws PROVE TypeOK'
  BY <1>8 DEF BeginSend, Busy
<1>9. ASSUME BeginQuery(c), ws' = ws PROVE TypeOK'
  BY <1>9 DEF BeginQuery, Busy
<1>10. ASSUME CollectorFinds(c), ws' = ws PROVE TypeOK'
  BY <1>10, AnswerType DEF CollectorFinds, Busy
<1>11. ASSUME CollectorFails(c), ws' = ws PROVE TypeOK'
  <2>1. CASE pc' = [pc EXCEPT ![c] = "select"] /\ UNCHANGED <<locals, outbox>>
    BY <1>11, <2>1 DEF CollectorFails, Busy
  <2>2. CASE Answer(c, "error")
    BY <1>11, <2>2, AnswerType DEF CollectorFails, Busy
  <2> QED BY <1>11, <2>1, <2>2 DEF CollectorFails
<1>12. ASSUME SelectConsensor(c), ws' = ws PROVE TypeOK'
  BY <1>12 DEF SelectConsensor, Busy
<1>13. ASSUME NoConsensor(c), ws' = ws PROVE TypeOK'
  BY <1>13, FailureType DEF NoConsensor, Busy
<1>14. ASSUME SelectionPanics(c), ws' = ws PROVE TypeOK'
  BY <1>14, LeaveType DEF SelectionPanics
<1>15. ASSUME CallSucceeds(c), ws' = ws PROVE TypeOK'
  <2>1. CASE req[c].method = "alias"
    <3>1. req[c] \in Request
      BY <1>15 DEF CallSucceeds, Answering, Busy
    <3>2. [req[c] EXCEPT !.method = "account"] \in Request
      BY <3>1 DEF Request, Methods, Asking
    <3>3. [req[c] EXCEPT !.method = "account"] # None
      BY <3>2, NoneAssumption
    <3> DEFINE asked == [req[c] EXCEPT !.method = "account"]
    <3>4. req' = [req EXCEPT ![c] = asked]
      BY <1>15, <2>1 DEF CallSucceeds
    <3> HIDE DEF asked
    <3>5. asked \in Request /\ asked # None
      BY <3>2, <3>3 DEF asked
    <3> QED BY <1>15, <2>1, <3>4, <3>5 DEF CallSucceeds, Answering, Busy
  <2>2. CASE req[c].method # "alias"
    BY <1>15, <2>2, AnswerType DEF CallSucceeds, Answering, Busy
  <2> QED BY <2>1, <2>2
<1>16. ASSUME CallReports(c), ws' = ws PROVE TypeOK'
  BY <1>16, FailureType DEF CallReports, Answering, Busy
<1>17. ASSUME CallPanics(c), ws' = ws PROVE TypeOK'
  BY <1>17, LeaveType DEF CallPanics
<1>18. ASSUME CallLost(c), ws' = ws PROVE TypeOK'
  <2>1. stray' \in [Client -> Nat]
    BY <1>18, AstrayIsNat DEF CallLost
  <2> QED BY <1>18, <2>1, FailureType DEF CallLost, Busy
<1>19. ASSUME NodeAccepts(c), ws' = ws PROVE TypeOK'
  BY <1>19 DEF NodeAccepts
<1>20. ASSUME NodeRefuses(c), ws' = ws PROVE TypeOK'
  BY <1>20 DEF NodeRefuses
<1>21. ASSUME StrayArrives(c), ws' = ws PROVE TypeOK'
  <2>1. stray' \in [Client -> Nat] /\ accepted' \in [Client -> Nat]
    <3>1. stray[c] \in Nat /\ accepted[c] \in Nat
      BY DEF TypeOK
    <3>2. stray[c] - 1 \in Nat /\ accepted[c] + 1 \in Nat
      BY <1>21, <3>1 DEF StrayArrives
    <3> QED BY <1>21, <3>2 DEF StrayArrives
  <2> QED BY <1>21, <2>1 DEF StrayArrives
<1>22. ASSUME FallsSilent(c), ws' = ws PROVE TypeOK'
  BY <1>22 DEF FallsSilent
<1>23. ASSUME HangUp(c), ws' = ws PROVE TypeOK'
  <2>1. stray' \in [Client -> Nat]
    BY <1>23, AstrayIsNat DEF HangUp
  <2> QED BY <1>23, <2>1, LeaveType DEF HangUp
<1> HIDE DEF TypeOK, locals, outside, Goto
<1> QED
  BY <1>1, <1>2, <1>3, <1>4, <1>5, <1>6, <1>7, <1>8, <1>9, <1>10, <1>11, <1>12, <1>13,
     <1>14, <1>15, <1>16, <1>17, <1>18, <1>19, <1>20, <1>21, <1>22, <1>23
  DEF Listen, Handle, Outside

\* The handlers' state has its type (TypeOK): a request is worked on exactly while
\* its handler is at work, and the retries are some that gen_range may return.
THEOREM TypeCorrect == Spec => []TypeOK
<1>1. ASSUME TypeOK, UNCHANGED vars PROVE TypeOK'
  BY <1>1 DEF TypeOK, vars, locals, outside
<1> QED BY <1>1, TypeInit, TypeStep, PTL DEF Spec

-----------------------------------------------------------------------------
(* Every step keeps its client sound *)

LEMMA SoundInit ==
  ASSUME Init, NEW c \in Client
  PROVE  Sound(c)
<1>1. Typed(c)
  BY TypeInit, TypeIsTyped
<1>2. InOrder(c) /\ OnLast(c) /\ OneSubmission(c) /\ Calling(c)
  BY DEF Init, InOrder, OnLast, OneSubmission, Calling, Sends, Busy
<1>3. Injections(c) = 0
  BY DEF Init, Injections, InFlight
<1>4. Counted(c)
  BY <1>3, MostAttempts DEF Init, Counted, Submits, Sends
<1> QED BY <1>1, <1>2, <1>4 DEF Sound

\* Nothing changes at the client that could bring a transaction about.
LEMMA SettlesAlone ==
  ASSUME NEW c \in Client, Typed(c), UNCHANGED <<accepted, stray>>
  PROVE  Settles(c)
BY DEF Typed, Settles, Injections, InFlight

\* What went astray had been on its way.
LEMMA SettlesAstray ==
  ASSUME NEW c \in Client, TypeOK, Typed(c), UNCHANGED accepted,
         stray' = [stray EXCEPT ![c] = Astray(c)]
  PROVE  Settles(c)
BY DEF TypeOK, Typed, Settles, Injections, InFlight, Astray

LEMMA SoundTakeFrame ==
  ASSUME NEW c \in Client, TypeOK, Sound(c), TypeOK', NEW f \in Frame, TakeFrame(c, f)
  PROVE  Sound(c)'
<1> USE DEF Sound
<1>1. /\ pc[c] = "read" /\ pc'[c] = "dispatch" /\ req'[c] = f
      /\ taken'[c] = Append(taken[c], f) /\ counter' = counter /\ max_retry' = max_retry
      /\ call' = call /\ outbox' = outbox /\ accepted' = accepted /\ stray' = stray
      /\ Submits(f) => \A k \in 1..Len(taken[c]) : ~Submits(taken[c][k])
  BY DEF TypeOK, TakeFrame, Goto, outside
<1>2. Typed(c)'
  BY TypeIsTyped, PTL
<1>3. taken[c] \in Seq(Frame \cup {Garbage}) /\ f \in Frame \cup {Garbage}
  BY DEF Typed
<1>4. /\ Len(taken'[c]) = Len(taken[c]) + 1
      /\ taken'[c][Len(taken'[c])] = f
      /\ \A k \in 1..Len(taken[c]) : taken'[c][k] = taken[c][k]
  BY <1>1, <1>3
<1>5. ~Sends(c) /\ call[c] = "none" /\ counter[c] = 0
  BY <1>1 DEF Typed, Sends, Busy, Calling, Counted
<1>6. InOrder(c)'
  BY <1>1, <1>3, <1>4 DEF InOrder, Typed, Busy
<1>7. OnLast(c)'
  BY <1>1, <1>4 DEF OnLast
<1>8. OneSubmission(c)'
  BY <1>1, <1>3, <1>4 DEF OneSubmission
<1>9. Calling(c)'
  BY <1>1, <1>5 DEF Calling, Sends
<1>10. Injections(c)' = Injections(c)
  BY <1>1, <1>5 DEF Injections, InFlight
<1>11. Submits(f) => Injections(c) = 0
  BY <1>1, PlaceFound DEF Counted
<1>12. PlaceIn(taken'[c]) = 0 => PlaceIn(taken[c]) = 0
  BY <1>3, <1>4, PlaceFound
<1>13. Counted(c)'
  BY <1>1, <1>5, <1>10, <1>11, <1>12 DEF Counted
<1> QED BY <1>2, <1>6, <1>7, <1>8, <1>9, <1>13

LEMMA SoundTakeGarbage ==
  ASSUME NEW c \in Client, TypeOK, Sound(c), TypeOK', TakeGarbage(c)
  PROVE  Sound(c)'
<1> USE DEF Sound
<1> DEFINE response == [id |-> Garbage.id, kind |-> "error"]
<1>1. /\ pc[c] = "read" /\ taken'[c] = Append(taken[c], Garbage)
      /\ outbox'[c] = Append(outbox[c], response)
      /\ pc' = pc /\ req' = req /\ counter' = counter /\ max_retry' = max_retry
      /\ call' = call /\ accepted' = accepted /\ stray' = stray
  BY DEF TypeOK, TakeGarbage, locals, outside
<1>2. Typed(c)'
  BY TypeIsTyped, PTL
<1>3. taken[c] \in Seq(Frame \cup {Garbage}) /\ Garbage \in Frame \cup {Garbage}
  BY DEF Typed
<1>4. /\ Len(taken'[c]) = Len(taken[c]) + 1
      /\ taken'[c][Len(taken'[c])] = Garbage
      /\ \A k \in 1..Len(taken[c]) : taken'[c][k] = taken[c][k]
  BY <1>1, <1>3
<1>5. response \in Response
  BY DEF Response, Garbage
<1>6. /\ Len(outbox'[c]) = Len(outbox[c]) + 1
      /\ outbox'[c][Len(outbox'[c])].id = Garbage.id
      /\ \A k \in 1..Len(outbox[c]) : outbox'[c][k] = outbox[c][k]
  BY <1>1, <1>5 DEF Typed
<1>7. Len(outbox[c]) = Len(taken[c]) /\ pc[c] \notin Busy
  BY <1>1 DEF InOrder, Busy
<1>8. \A k \in 1..Len(outbox'[c]) : outbox'[c][k].id = taken'[c][k].id
  <2> SUFFICES ASSUME NEW k \in 1..(Len(taken[c]) + 1)
               PROVE  outbox'[c][k].id = taken'[c][k].id
    BY <1>6, <1>7
  <2>1. CASE k = Len(taken[c]) + 1
    BY <2>1, <1>4, <1>6, <1>7
  <2>2. CASE k # Len(taken[c]) + 1
    <3>1. k \in 1..Len(taken[c])
      BY <1>3, <2>2
    <3> QED BY <3>1, <1>4, <1>6, <1>7 DEF InOrder
  <2> QED BY <2>1, <2>2
<1>9. InOrder(c)'
  BY <1>1, <1>4, <1>6, <1>7, <1>8 DEF InOrder
<1>10. OnLast(c)'
  BY <1>1, <1>7 DEF OnLast
<1>11. ~Submits(Garbage)
  BY DEF Submits, Garbage
<1>12. OneSubmission(c)'
  <2>1. \A k \in 1..Len(taken'[c]) :
           Submits(taken'[c][k]) => k \in 1..Len(taken[c]) /\ Submits(taken[c][k])
    BY <1>3, <1>4, <1>11
  <2> QED BY <2>1 DEF OneSubmission
<1>13. Calling(c)'
  BY <1>1 DEF Calling, Sends
<1>14. Injections(c)' = Injections(c)
  BY <1>1 DEF Injections, InFlight, Sends
<1>15. PlaceIn(taken'[c]) = 0 => PlaceIn(taken[c]) = 0
  BY <1>3, <1>4, PlaceFound
<1>16. Counted(c)'
  BY <1>1, <1>14, <1>15 DEF Counted, Sends
<1> QED BY <1>2, <1>9, <1>10, <1>12, <1>13, <1>16

\* While the handler is at work on its request, what was taken and answered stays.
LEMMA SoundWhileBusy ==
  ASSUME NEW c \in Client, Sound(c), TypeOK', UNCHANGED <<taken, outbox>>,
         pc[c] \in Busy, pc'[c] \in Busy,
         req'[c].id = req[c].id, req'[c].params = req[c].params,
         req'[c].method = "send" <=> req[c].method = "send",
         Calling(c)', Counted(c)'
  PROVE  Sound(c)'
<1> USE DEF Sound
<1>1. Typed(c)'
  BY TypeIsTyped, PTL
<1>2. "read" \notin Busy
  BY DEF Busy
<1>3. InOrder(c)'
  BY <1>2 DEF InOrder
<1>4. OnLast(c)' /\ OneSubmission(c)'
  BY DEF OnLast, OneSubmission
<1> QED BY <1>1, <1>3, <1>4

LEMMA SoundBeginSend ==
  ASSUME NEW c \in Client, TypeOK, Sound(c), TypeOK', BeginSend(c)
  PROVE  Sound(c)'
<1>1. /\ pc[c] = "dispatch" /\ pc'[c] = "select" /\ Sends(c) /\ Supplied(req[c])
      /\ req' = req /\ counter' = counter /\ call' = call /\ taken' = taken
      /\ outbox' = outbox /\ accepted' = accepted /\ stray' = stray
  BY DEF TypeOK, BeginSend, Goto, outside, Invalid, Sends
<1>2. Sends(c)' /\ Submits(req[c])
  BY <1>1 DEF Sends, Submits
<1>3. Calling(c)'
  BY <1>1, <1>2 DEF Sound, Calling
<1>4. Injections(c) = 0 /\ counter[c] = 0 /\ call[c] = "none"
  BY <1>1, <1>2 DEF Sound, Counted, Calling
<1>5. Injections(c)' = 0
  BY <1>1, <1>4 DEF Injections, InFlight
<1>6. max_retry'[c] \in Nat
  <2>1. max_retry'[c] \in Retries \cup {0} /\ Retries \cup {0} \subseteq Nat
    BY RetriesAssumption DEF TypeOK
  <2> QED BY <2>1
<1>7. Counted(c)'
  BY <1>1, <1>4, <1>5, <1>6, MostAttempts DEF Counted
<1> QED BY <1>1, <1>3, <1>7, SoundWhileBusy DEF Busy

LEMMA SoundBeginQuery ==
  ASSUME NEW c \in Client, TypeOK, Sound(c), TypeOK', BeginQuery(c)
  PROVE  Sound(c)'
<1>1. /\ pc[c] = "dispatch" /\ pc'[c] \in {"collector", "select"} /\ ~Sends(c)
      /\ req' = req /\ counter' = counter /\ max_retry' = max_retry /\ call' = call
      /\ taken' = taken /\ outbox' = outbox /\ accepted' = accepted /\ stray' = stray
  BY DEF TypeOK, BeginQuery, Goto, locals, outside, Collected, Asking, Sends
<1>2. ~Sends(c)'
  BY <1>1 DEF Sends
<1>3. Calling(c)'
  BY <1>1, <1>2 DEF Sound, Calling
<1>4. Injections(c)' = Injections(c)
  BY <1>1, <1>2 DEF Injections, InFlight
<1>5. Counted(c)'
  BY <1>1, <1>2, <1>4 DEF Sound, Counted
<1> QED BY <1>1, <1>3, <1>5, SoundWhileBusy DEF Busy

LEMMA SoundCollectorFails ==
  ASSUME NEW c \in Client, TypeOK, Sound(c), TypeOK', CollectorFails(c)
  PROVE  Sound(c)'
<1>1. pc[c] = "collector" /\ pc[c] \in Busy /\ UNCHANGED <<taken, accepted, stray>>
  BY DEF CollectorFails, outside, Busy
<1>2. CASE Answer(c, "error")
  BY <1>1, <1>2, SettlesAlone, SoundAfterAnswer DEF Sound
<1>3. CASE Goto(c, "select") /\ UNCHANGED <<locals, outbox>>
  <2>1. pc'[c] = "select" /\ req' = req /\ counter' = counter /\ call' = call
    BY <1>3 DEF TypeOK, Goto, locals
  <2>2. ~Sends(c) /\ ~Sends(c)'
    BY <1>1, <2>1 DEF Sound, Calling, Sends
  <2>3. Calling(c)'
    BY <1>1, <2>1, <2>2 DEF Sound, Calling
  <2>4. Injections(c)' = Injections(c)
    BY <1>1, <2>2 DEF Injections, InFlight
  <2>5. Counted(c)'
    BY <1>1, <2>1, <2>2, <2>4 DEF Sound, Counted
  <2> QED BY <1>1, <1>3, <2>1, <2>3, <2>5, SoundWhileBusy DEF Busy
<1> QED BY <1>2, <1>3 DEF CollectorFails

LEMMA SoundSelectConsensor ==
  ASSUME NEW c \in Client, TypeOK, Sound(c), TypeOK', SelectConsensor(c)
  PROVE  Sound(c)'
<1>1. /\ pc[c] = "select" /\ pc'[c] = "call" /\ call'[c] = "sent"
      /\ req' = req /\ counter' = counter /\ max_retry' = max_retry
      /\ taken' = taken /\ outbox' = outbox /\ accepted' = accepted /\ stray' = stray
  BY DEF TypeOK, SelectConsensor, Goto, outside
<1>2. Sends(c)' <=> Sends(c)
  BY <1>1 DEF Sends
<1>3. Calling(c)'
  BY <1>1, <1>2 DEF Sound, Calling
<1>4. InFlight(c) = 0 /\ accepted[c] \in Nat /\ stray[c] \in Nat /\ counter[c] \in Nat
  BY <1>1 DEF Sound, Calling, InFlight, Typed
<1>5. Counted(c)'
  <2>1. CASE ~Sends(c)
    BY <1>1, <1>2, <2>1 DEF Sound, Counted, Injections, InFlight
  <2>2. CASE Sends(c)
    <3>1. Submits(req[c]) /\ PlaceIn(taken[c]) = Len(taken[c]) /\ Len(taken[c]) # 0
      BY <1>1, <2>2, AtWork DEF Sound, Calling, Submits, Sends, Busy, Typed
    <3>2. Injections(c)' = Injections(c) + 1
      BY <1>1, <1>2, <1>4, <2>2 DEF Injections, InFlight
    <3>3. Injections(c) <= counter[c] /\ counter[c] <= max_retry[c]
      BY <1>1, <2>2 DEF Sound, Counted
    <3>4. max_retry[c] \in Nat /\ max_retry[c] + 1 <= MaxAttempts
      <4>1. max_retry[c] \in Retries \cup {0} /\ Retries \cup {0} \subseteq Nat
        BY RetriesAssumption DEF Sound, Typed
      <4> QED BY <4>1, MostAttempts
    <3>5. Injections(c) \in Nat
      BY <1>4 DEF Injections
    <3>6. Injections(c)' <= counter[c] + 1 /\ Injections(c)' <= MaxAttempts
      BY <1>4, <3>2, <3>3, <3>4, <3>5, MostAttempts
    <3> QED BY <1>1, <3>1, <3>3, <3>6 DEF Counted
  <2> QED BY <2>1, <2>2
<1> QED BY <1>1, <1>3, <1>5, SoundWhileBusy DEF Busy

LEMMA SoundCallSucceeds ==
  ASSUME NEW c \in Client, TypeOK, Sound(c), TypeOK', CallSucceeds(c)
  PROVE  Sound(c)'
<1>1. pc[c] = "call" /\ pc[c] \in Busy /\ UNCHANGED <<taken, accepted, stray>>
  BY DEF CallSucceeds, Answering, outside, Busy
<1>2. CASE req[c].method # "alias"
  BY <1>1, <1>2, SettlesAlone, SoundAfterAnswer DEF CallSucceeds, Sound
<1>3. CASE req[c].method = "alias"
  <2>1. /\ pc'[c] = "select" /\ req'[c] = [req[c] EXCEPT !.method = "account"]
        /\ call'[c] = "none" /\ counter' = counter /\ outbox' = outbox
    BY <1>3 DEF TypeOK, CallSucceeds, Goto
  <2>2. req[c] \in Request
    BY <1>1, AtWork
  <2>3. /\ req'[c].id = req[c].id /\ req'[c].params = req[c].params
        /\ req'[c].method = "account"
    BY <2>1, <2>2 DEF Request
  <2>4. ~Sends(c) /\ ~Sends(c)'
    BY <1>3, <2>3 DEF Sends
  <2>5. Calling(c)'
    BY <2>1, <2>4 DEF Calling
  <2>6. Injections(c)' = Injections(c)
    BY <1>1, <2>4 DEF Injections, InFlight
  <2>7. Counted(c)'
    BY <1>1, <2>1, <2>4, <2>6 DEF Sound, Counted
  <2> QED BY <1>1, <1>3, <2>1, <2>3, <2>5, <2>7, SoundWhileBusy DEF Busy
<1> QED BY <1>2, <1>3

LEMMA SoundNodeAccepts ==
  ASSUME NEW c \in Client, TypeOK, Sound(c), TypeOK', NodeAccepts(c)
  PROVE  Sound(c)'
<1>1. /\ Sends(c) /\ call[c] = "sent" /\ call'[c] = "accepted"
      /\ accepted'[c] = accepted[c] + 1 /\ pc' = pc /\ req' = req
      /\ counter' = counter /\ max_retry' = max_retry /\ taken' = taken
      /\ outbox' = outbox /\ stray' = stray
  BY DEF TypeOK, NodeAccepts
<1>2. Sends(c)' /\ pc[c] = "call"
  BY <1>1 DEF Sound, Calling, Sends
<1>3. Calling(c)'
  BY <1>1, <1>2 DEF Sound, Calling
<1>4. Injections(c)' = Injections(c) /\ accepted'[c] > 0
  <2>1. accepted[c] \in Nat /\ stray[c] \in Nat
    BY DEF Sound, Typed
  <2>2. InFlight(c) = 1 /\ InFlight(c)' = 0
    BY <1>1, <1>2 DEF InFlight
  <2> QED BY <1>1, <2>1, <2>2 DEF Injections
<1>5. Counted(c)'
  BY <1>1, <1>2, <1>4 DEF Sound, Counted
<1> QED BY <1>1, <1>2, <1>3, <1>5, SoundWhileBusy DEF Busy

LEMMA SoundNodeRefuses ==
  ASSUME NEW c \in Client, TypeOK, Sound(c), TypeOK', NodeRefuses(c)
  PROVE  Sound(c)'
<1>1. /\ Sends(c) /\ call[c] = "sent" /\ call'[c] = "refused"
      /\ pc' = pc /\ req' = req /\ counter' = counter /\ max_retry' = max_retry
      /\ taken' = taken /\ outbox' = outbox /\ accepted' = accepted /\ stray' = stray
  BY DEF TypeOK, NodeRefuses, outside
<1>2. Sends(c)' /\ pc[c] = "call"
  BY <1>1 DEF Sound, Calling, Sends
<1>3. Calling(c)'
  BY <1>1, <1>2 DEF Sound, Calling
<1>4. Injections(c) = Injections(c)' + 1 /\ Injections(c)' \in Nat
  BY <1>1, <1>2 DEF Sound, Typed, Injections, InFlight
<1>5. PlaceIn(taken[c]) # 0 /\ counter[c] \in Nat
  BY <1>4 DEF Sound, Counted, Typed
<1>6. Counted(c)'
  BY <1>1, <1>2, <1>4, <1>5, MostAttempts DEF Sound, Counted
<1> QED BY <1>1, <1>2, <1>3, <1>6, SoundWhileBusy DEF Busy

LEMMA SoundStrayArrives ==
  ASSUME NEW c \in Client, TypeOK, Sound(c), TypeOK', StrayArrives(c)
  PROVE  Sound(c)'
<1> USE DEF Sound
<1>1. /\ stray[c] > 0 /\ stray'[c] = stray[c] - 1
      /\ accepted'[c] \in {accepted[c], accepted[c] + 1}
      /\ pc' = pc /\ req' = req /\ counter' = counter /\ max_retry' = max_retry
      /\ call' = call /\ taken' = taken /\ outbox' = outbox
  BY DEF TypeOK, StrayArrives, locals
<1>2. Typed(c)'
  BY TypeIsTyped, PTL
<1>3. InOrder(c)' /\ OnLast(c)' /\ OneSubmission(c)'
  BY <1>1 DEF InOrder, OnLast, OneSubmission
<1>4. Sends(c)' <=> Sends(c)
  BY <1>1 DEF Sends
<1>5. Calling(c)'
  BY <1>1, <1>4 DEF Calling
<1>6. /\ Injections(c) > 0 /\ Injections(c)' <= Injections(c)
      /\ accepted'[c] >= accepted[c]
      /\ Injections(c) \in Nat /\ Injections(c)' \in Nat
  <2>1. /\ accepted[c] \in Nat /\ stray[c] \in Nat
        /\ accepted'[c] \in Nat /\ stray'[c] \in Nat
    BY <1>2 DEF Typed
  <2>2. InFlight(c)' = InFlight(c) /\ InFlight(c) \in {0, 1}
    BY <1>1, <1>4 DEF InFlight
  <2> QED BY <1>1, <2>1, <2>2 DEF Injections
<1>7. Counted(c)'
  <2>1. accepted[c] \in Nat /\ accepted'[c] \in Nat /\ counter[c] \in Nat
    BY <1>2 DEF Typed
  <2> QED BY <1>1, <1>4, <1>6, <2>1, MostAttempts DEF Counted
<1> QED BY <1>2, <1>3, <1>5, <1>7

LEMMA SoundDisconnect ==
  ASSUME NEW c \in Client, TypeOK, Sound(c), TypeOK', Disconnect(c)
  PROVE  Sound(c)'
<1> USE DEF Sound
<1>1. /\ pc[c] = "read" /\ pc'[c] = "closed" /\ req' = req /\ counter' = counter
      /\ call' = call /\ taken' = taken /\ outbox' = outbox
      /\ accepted' = accepted /\ stray' = stray
  BY DEF TypeOK, Disconnect, Goto, locals, outside
<1>2. Typed(c)'
  BY TypeIsTyped, PTL
<1>3. InOrder(c)' /\ OnLast(c)' /\ OneSubmission(c)'
  BY <1>1 DEF InOrder, OnLast, OneSubmission, Busy
<1>4. ~Sends(c) /\ ~Sends(c)'
  BY <1>1 DEF Sends, Typed, Busy
<1>5. Calling(c)'
  BY <1>1, <1>4 DEF Calling
<1>6. Injections(c)' = Injections(c)
  BY <1>1, <1>4 DEF Injections, InFlight
<1>7. Counted(c)'
  BY <1>1, <1>4, <1>6 DEF Counted
<1> QED BY <1>2, <1>3, <1>5, <1>7

LEMMA SoundStep ==
  ASSUME NEW c \in Client, TypeOK, Sound(c), TypeOK', Listen(c) \/ Handle(c) \/ Outside(c)
  PROVE  Sound(c)'
<1>1. ASSUME pc[c] \in Busy, UNCHANGED <<taken, outbox, outside>>,
             Leave(c, "closed") \/ Leave(c, "panicked")
      PROVE  Sound(c)'
  BY <1>1, SettlesAlone, SoundAfterLeave DEF outside, Sound
<1>2. CASE DispatchPanics(c) \/ SelectionPanics(c) \/ CallPanics(c)
  BY <1>1, <1>2 DEF DispatchPanics, SelectionPanics, CallPanics, Answering, Busy
<1>3. ASSUME pc[c] \in Busy, UNCHANGED <<taken, outside>>,
             Answer(c, "result") \/ Answer(c, "error")
      PROVE  Sound(c)'
  BY <1>3, SettlesAlone, SoundAfterAnswer DEF outside, Sound
<1>4. CASE Reject(c) \/ AnswerLocally(c) \/ CollectorFinds(c)
  BY <1>3, <1>4 DEF Reject, AnswerLocally, CollectorFinds, Busy
<1>5. CASE NoConsensor(c) \/ CallReports(c)
  <2>1. pc[c] \in {"select", "call"} /\ Failure(c) /\ UNCHANGED <<taken, accepted, stray>>
    BY <1>5 DEF NoConsensor, CallReports, Answering, outside
  <2> QED BY <2>1, SettlesAlone, SoundAfterFailure DEF Sound
<1>6. CASE CallLost(c)
  BY <1>6, SettlesAstray, SoundAfterFailure DEF CallLost, Sound
<1>7. CASE HangUp(c)
  BY <1>7, SettlesAstray, SoundAfterLeave DEF HangUp, Sound
<1>8. CASE FallsSilent(c)
  BY <1>8, SoundElsewhere DEF FallsSilent, Elsewhere, locals
<1> QED
  BY <1>2, <1>4, <1>5, <1>6, <1>7, <1>8, SoundTakeFrame, SoundTakeGarbage, SoundDisconnect,
     SoundBeginSend, SoundBeginQuery, SoundCollectorFails, SoundSelectConsensor,
     SoundCallSucceeds, SoundNodeAccepts, SoundNodeRefuses, SoundStrayArrives
  DEF Listen, Handle, Outside

LEMMA OneClientMoves ==
  ASSUME TypeOK, NEW c \in Client, Listen(c) \/ Handle(c) \/ Outside(c),
         NEW d \in Client, d # c
  PROVE  Elsewhere(d)
<1> USE DEF TypeOK, Elsewhere, Goto, locals, outside
<1>1. CASE Listen(c)
  BY <1>1 DEF Listen, TakeFrame, TakeGarbage, Disconnect
<1>2. ASSUME NEW label, Leave(c, label),
             UNCHANGED <<taken, outbox>>, UNCHANGED accepted,
             stray' = stray \/ stray' = [stray EXCEPT ![c] = Astray(c)]
      PROVE  Elsewhere(d)
  BY <1>2 DEF Leave
<1>3. CASE DispatchPanics(c) \/ SelectionPanics(c) \/ CallPanics(c) \/ HangUp(c)
  BY <1>2, <1>3 DEF DispatchPanics, SelectionPanics, CallPanics, HangUp
<1>4. ASSUME NEW kind, Answer(c, kind), UNCHANGED <<taken, accepted>>,
             stray' = stray \/ stray' = [stray EXCEPT ![c] = Astray(c)]
      PROVE  Elsewhere(d)
  BY <1>4 DEF Answer, Leave
<1>5. CASE Reject(c) \/ AnswerLocally(c) \/ CollectorFinds(c) \/ CollectorFails(c)
  BY <1>4, <1>5 DEF Reject, AnswerLocally, CollectorFinds, CollectorFails
<1>6. ASSUME Failure(c), UNCHANGED <<taken, accepted>>,
             stray' = stray \/ stray' = [stray EXCEPT ![c] = Astray(c)]
      PROVE  Elsewhere(d)
  BY <1>4, <1>6 DEF Failure
<1>7. CASE NoConsensor(c) \/ CallReports(c) \/ CallLost(c)
  BY <1>6, <1>7 DEF NoConsensor, CallReports, CallLost
<1>8. CASE CallSucceeds(c)
  BY <1>4, <1>8 DEF CallSucceeds
<1>9. CASE BeginSend(c) \/ BeginQuery(c) \/ SelectConsensor(c)
  BY <1>9 DEF BeginSend, BeginQuery, SelectConsensor
<1>10. CASE NodeAccepts(c) \/ NodeRefuses(c) \/ StrayArrives(c) \/ FallsSilent(c)
  BY <1>10 DEF NodeAccepts, NodeRefuses, StrayArrives, FallsSilent
<1> QED
  BY <1>1, <1>3, <1>5, <1>7, <1>8, <1>9, <1>10 DEF Handle, Outside

\* For every client, all the time: responses have come in order, the handler works
\* on the last request taken, and what injections took effect, may yet do so or are
\* on their way is bounded by the attempts that lib_send_transaction has made.
THEOREM Invariant == Spec => []Inv
<1>1. Init => Inv
  BY TypeInit, SoundInit DEF Inv
<1>2. ASSUME Inv, Next PROVE Inv'
  <2>1. TypeOK /\ TypeOK'
    BY <1>2, TypeStep DEF Inv
  <2>2. PICK c \in Client : Listen(c) \/ Handle(c) \/ Outside(c)
    BY <1>2 DEF Next
  <2>3. ASSUME NEW d \in Client PROVE Sound(d)'
    <3>1. Sound(d)
      BY <1>2 DEF Inv
    <3>2. CASE d = c
      BY <2>1, <2>2, <3>1, <3>2, SoundStep
    <3>3. CASE d # c
      BY <2>1, <2>2, <3>1, <3>3, OneClientMoves, SoundElsewhere
    <3> QED BY <3>2, <3>3
  <2> QED BY <2>1, <2>3 DEF Inv
<1>3. ASSUME Inv, UNCHANGED vars PROVE Inv'
  <2>1. TypeOK'
    BY <1>3 DEF Inv, TypeOK, vars, locals, outside
  <2>2. ASSUME NEW d \in Client PROVE Sound(d)'
    BY <1>3, SoundElsewhere DEF Inv, Elsewhere, vars, locals, outside
  <2> QED BY <2>1, <2>2 DEF Inv
<1> QED BY <1>1, <1>2, <1>3, PTL DEF Spec

\* Over one connection every request has one response, with its id, in the order
\* the requests came (AnswersInOrder), whatever calls fail or are repeated.
THEOREM ResponsesInOrder == Spec => []AnswersInOrder
<1>1. Inv => AnswersInOrder
  BY DEF Inv, Sound, InOrder, AnswersInOrder
<1> QED BY <1>1, Invariant, PTL

\* While a transaction is being sent its injections are no more than the attempts
\* the retry loop counted, and those no more than max_retry and one
\* (AttemptsAreCounted).
THEOREM AttemptsCounted == Spec => []AttemptsAreCounted
<1>1. ASSUME Inv PROVE AttemptsAreCounted
  <2> SUFFICES ASSUME NEW c \in Client, Sends(c), pc[c] \in {"select", "call"}
               PROVE  /\ Injections(c) <= counter[c] + 1
                      /\ counter[c] <= max_retry[c]
    BY DEF AttemptsAreCounted, Injections
  <2>1. Counted(c) /\ Typed(c)
    BY <1>1 DEF Inv, Sound
  <2>2. Injections(c) \in Nat /\ counter[c] \in Nat
    BY <2>1, InjectionsType DEF Typed
  <2> QED BY <2>1, <2>2 DEF Counted
<1> QED BY <1>1, Invariant, PTL

-----------------------------------------------------------------------------
(* RpcService implements Submission *)

LEMMA StatusCases ==
  ASSUME NEW c \in Client, Sound(c)
  PROVE  /\ Status(c) = "new" <=> PlaceIn(taken[c]) = 0
         /\ PlaceIn(taken[c]) \in 0..Len(taken[c])
         /\ pc[c] \in Busy /\ Submits(req[c]) => Status(c) = "open"
<1>1. PlaceIn(taken[c]) \in 0..Len(taken[c]) /\ Len(taken[c]) \in Nat /\ Len(outbox[c]) \in Nat
  BY PlaceFound DEF Sound, Typed
<1>2. Status(c) = "new" <=> PlaceIn(taken[c]) = 0
  BY DEF Status, StatusOf
<1>3. ASSUME pc[c] \in Busy, Submits(req[c]) PROVE Status(c) = "open"
  BY <1>1, <1>3, AtWork DEF Status, StatusOf
<1> QED BY <1>1, <1>2, <1>3

\* The transaction stays where it is among the requests.
LEMMA PlaceStays ==
  ASSUME NEW c \in Client, Sound(c), Sound(c)', NEW f \in Frame \cup {Garbage},
         taken'[c] = Append(taken[c], f), ~Submits(f)
  PROVE  PlaceIn(taken'[c]) = PlaceIn(taken[c])
<1>1. taken[c] \in Seq(Frame \cup {Garbage})
  BY DEF Sound, Typed
<1>2. /\ Len(taken'[c]) = Len(taken[c]) + 1
      /\ taken'[c][Len(taken[c]) + 1] = f
      /\ \A k \in 1..Len(taken[c]) : taken'[c][k] = taken[c][k]
  BY <1>1
<1>3. \A k \in 1..Len(taken'[c]) :
         Submits(taken'[c][k]) => k \in 1..Len(taken[c]) /\ Submits(taken[c][k])
  BY <1>1, <1>2
<1>4. \A k \in 1..Len(taken[c]) : Submits(taken[c][k]) =>
         k \in 1..Len(taken'[c]) /\ Submits(taken'[c][k])
  BY <1>1, <1>2
<1> QED BY <1>1, <1>3, <1>4, PlaceFound DEF Sound, OneSubmission

\* What a step of the promise does for one client.
Fulfils(c) ==
    \/ Status(c)' = Status(c) /\ accepted'[c] = accepted[c]
    \/ /\ Status(c) # "new" /\ accepted[c] < MaxAttempts
       /\ Status(c)' = Status(c) /\ accepted'[c] = accepted[c] + 1
    \/ /\ Status(c) = "new"
       /\ Status(c)' = "open" /\ accepted'[c] = accepted[c]
    \/ /\ Status(c) = "open" /\ accepted[c] > 0
       /\ Status(c)' = "success" /\ accepted'[c] = accepted[c]
    \/ /\ Status(c) = "open"
       /\ Status(c)' \in {"error", "lost"} /\ accepted'[c] = accepted[c]

LEMMA ListenFulfils ==
  ASSUME NEW c \in Client, TypeOK, Sound(c), Sound(c)', Listen(c)
  PROVE  Fulfils(c)
<1>1. pc[c] = "read" /\ Len(outbox[c]) = Len(taken[c]) /\ accepted' = accepted
  BY DEF Listen, TakeFrame, TakeGarbage, Disconnect, outside, Sound, InOrder
<1>2. /\ taken[c] \in Seq(Frame \cup {Garbage}) /\ outbox[c] \in Seq(Response)
      /\ outbox'[c] \in Seq(Response)
      /\ PlaceIn(taken[c]) \in 0..Len(outbox[c])
  BY <1>1, StatusCases DEF Sound, Typed
<1>3. ASSUME NEW f \in Frame, TakeFrame(c, f), Submits(f) PROVE Fulfils(c)
  <2>1. pc'[c] \in Busy /\ req'[c] = f
    BY <1>3 DEF TypeOK, TakeFrame, Goto, Busy
  <2>2. PlaceIn(taken[c]) = 0
    BY <1>3, PlaceFound DEF TakeFrame
  <2>3. Status(c)' = "open"
    <3>1. taken'[c] = Append(taken[c], f) /\ outbox' = outbox
      BY <1>3 DEF TypeOK, TakeFrame
    <3>2. /\ Len(taken'[c]) = Len(taken[c]) + 1
          /\ taken'[c][Len(taken[c]) + 1] = f
          /\ \A k \in 1..Len(taken[c]) : taken'[c][k] = taken[c][k]
      BY <1>2, <3>1
    <3>3. PlaceIn(taken'[c]) = Len(outbox[c]) + 1
      <4>1. \A k \in 1..Len(taken[c]) : ~Submits(taken'[c][k])
        BY <1>3, <3>2 DEF TakeFrame
      <4>2. Len(taken[c]) \in Nat /\ Submits(taken'[c][Len(taken[c]) + 1])
        BY <1>2, <1>3, <3>2
      <4>3. Len(taken[c]) + 1 \in 1..Len(taken'[c])
        BY <3>2, <4>2
      <4>4. PlaceIn(taken'[c]) \in 1..Len(taken'[c]) /\ Submits(taken'[c][PlaceIn(taken'[c])])
        BY <4>2, <4>3, PlaceFound
      <4> QED BY <1>1, <3>2, <4>1, <4>2, <4>4
    <3> QED BY <1>2, <2>1, <3>1, <3>3 DEF Status, StatusOf
  <2> QED BY <1>1, <2>2, <2>3, StatusCases DEF Fulfils
<1>4. ASSUME NEW f \in Frame, TakeFrame(c, f), ~Submits(f) PROVE Fulfils(c)
  <2>1. taken'[c] = Append(taken[c], f) /\ outbox' = outbox
    BY <1>4 DEF TypeOK, TakeFrame
  <2>2. PlaceIn(taken'[c]) = PlaceIn(taken[c])
    BY <1>4, <2>1, PlaceStays
  <2> QED BY <1>1, <1>2, <2>1, <2>2 DEF Fulfils, Status, StatusOf
<1>5. CASE TakeGarbage(c)
  <2> DEFINE response == [id |-> Garbage.id, kind |-> "error"]
  <2>1. taken'[c] = Append(taken[c], Garbage) /\ outbox'[c] = Append(outbox[c], response)
    BY <1>5 DEF TypeOK, TakeGarbage
  <2>2. PlaceIn(taken'[c]) = PlaceIn(taken[c])
    <3>1. ~Submits(Garbage)
      BY DEF Submits, Garbage
    <3> QED BY <2>1, <3>1, PlaceStays
  <2>3. response \in Response
    BY DEF Response, Garbage
  <2>4. /\ Len(outbox'[c]) = Len(outbox[c]) + 1
        /\ \A k \in 1..Len(outbox[c]) : outbox'[c][k] = outbox[c][k]
    BY <1>2, <2>1, <2>3
  <2> HIDE DEF response
  <2> QED BY <1>1, <1>2, <2>2, <2>4 DEF Fulfils, Status, StatusOf
<1>6. CASE Disconnect(c)
  BY <1>1, <1>2, <1>6 DEF Fulfils, Status, StatusOf, Disconnect
<1> QED BY <1>3, <1>4, <1>5, <1>6 DEF Listen

LEMMA LeaveFulfils ==
  ASSUME NEW c \in Client, TypeOK, Sound(c), pc[c] \in Busy,
         NEW label \in {"closed", "panicked"}, Leave(c, label),
         UNCHANGED <<taken, outbox, accepted>>
  PROVE  Fulfils(c)
<1>1. pc'[c] \notin Busy
  BY DEF TypeOK, Leave, Goto, Busy
<1> QED BY <1>1 DEF Fulfils, Status, StatusOf

\* A transaction that is answered with a result has been accepted.
LEMMA AnswerFulfils ==
  ASSUME NEW c \in Client, TypeOK, Sound(c), pc[c] \in Busy,
         NEW kind \in {"result", "error"}, Answer(c, kind),
         UNCHANGED <<taken, accepted>>,
         kind = "result" /\ Submits(req[c]) => accepted[c] > 0
  PROVE  Fulfils(c)
<1> DEFINE response == [id |-> req[c].id, kind |-> kind]
<1>1. outbox'[c] = Append(outbox[c], response)
  BY DEF TypeOK, Answer
<1>2. response \in Response /\ response.kind = kind
  BY AtWork DEF Response, Request
<1> HIDE DEF response
<1>3. /\ taken[c] \in Seq(Frame \cup {Garbage}) /\ outbox[c] \in Seq(Response)
      /\ Len(outbox[c]) = Len(taken[c]) - 1
  BY AtWork DEF Sound, Typed
<1>4. /\ Len(outbox'[c]) = Len(taken[c])
      /\ \A k \in 1..Len(outbox[c]) : outbox'[c][k] = outbox[c][k]
      /\ outbox'[c][Len(taken[c])] = response
  BY <1>1, <1>2, <1>3
<1>5. CASE Submits(req[c])
  <2>1. PlaceIn(taken[c]) = Len(taken[c]) /\ Status(c) = "open"
    BY <1>5, AtWork, StatusCases
  <2>2. Status(c)' = IF kind = "result" THEN "success" ELSE "error"
    BY <1>2, <1>3, <1>4, <2>1, StatusCases DEF Status, StatusOf
  <2> QED BY <1>5, <2>1, <2>2 DEF Fulfils
<1>6. CASE ~Submits(req[c])
  <2>1. PlaceIn(taken[c]) # Len(taken[c])
    BY <1>3, <1>6, AtWork, PlaceFound
  <2>2. PlaceIn(taken[c]) \in 0..Len(outbox[c])
    BY <1>3, <2>1, StatusCases
  <2> QED BY <1>3, <1>4, <2>2 DEF Fulfils, Status, StatusOf
<1> QED BY <1>5, <1>6

LEMMA FailureFulfils ==
  ASSUME NEW c \in Client, TypeOK, Sound(c), pc[c] \in Busy, Failure(c),
         UNCHANGED <<taken, accepted>>
  PROVE  Fulfils(c)
<1>1. CASE ~(Sends(c) /\ counter[c] < max_retry[c])
  BY <1>1, AnswerFulfils DEF Failure
<1>2. CASE Sends(c) /\ counter[c] < max_retry[c]
  <2>1. pc'[c] \in Busy /\ outbox' = outbox
    BY <1>2 DEF TypeOK, Failure, Goto, Busy
  <2> QED BY <2>1 DEF Fulfils, Status, StatusOf
<1> QED BY <1>1, <1>2

LEMMA StepFulfils ==
  ASSUME NEW c \in Client, TypeOK, Sound(c), Sound(c)',
         Listen(c) \/ Handle(c) \/ Outside(c)
  PROVE  Fulfils(c)
<1>1. CASE DispatchPanics(c) \/ SelectionPanics(c) \/ CallPanics(c) \/ HangUp(c)
  BY <1>1, LeaveFulfils
  DEF DispatchPanics, SelectionPanics, CallPanics, Answering, HangUp, Busy, outside
<1>2. ASSUME Answer(c, "result") \/ Answer(c, "error"), UNCHANGED <<taken, accepted>>,
             pc[c] \in Busy, ~Submits(req[c])
      PROVE  Fulfils(c)
  BY <1>2, AnswerFulfils
<1>3. CASE Reject(c)
  BY <1>3, AnswerFulfils DEF Reject, outside, Busy
<1>4. CASE AnswerLocally(c)
  <2>1. ~Submits(req[c])
    BY <1>4 DEF AnswerLocally, Submits, Local
  <2> QED BY <1>2, <1>4, <2>1 DEF AnswerLocally, outside, Busy
<1>5. CASE CollectorFinds(c) \/ CollectorFails(c)
  <2>1. pc[c] = "collector" /\ pc[c] \in Busy /\ UNCHANGED <<taken, accepted>>
    BY <1>5 DEF CollectorFinds, CollectorFails, Busy, outside
  <2>2. ~Submits(req[c])
    BY <2>1 DEF Sound, Calling, Sends, Typed, Submits
  <2>3. CASE Goto(c, "select") /\ UNCHANGED outbox
    BY <2>1, <2>3 DEF Fulfils, Status, StatusOf, Goto, TypeOK, Busy
  <2> QED BY <1>2, <1>5, <2>1, <2>2, <2>3 DEF CollectorFinds, CollectorFails
<1>6. CASE BeginSend(c) \/ BeginQuery(c) \/ SelectConsensor(c)
  BY <1>6 DEF BeginSend, BeginQuery, SelectConsensor, Fulfils, Status, StatusOf, Goto,
              outside, TypeOK, Busy
<1>7. CASE NoConsensor(c) \/ CallReports(c) \/ CallLost(c)
  BY <1>7, FailureFulfils DEF NoConsensor, CallReports, Answering, CallLost, outside, Busy
<1>8. CASE CallSucceeds(c)
  <2>1. pc[c] = "call" /\ pc[c] \in Busy /\ UNCHANGED <<taken, accepted>>
    BY <1>8 DEF CallSucceeds, Answering, Busy, outside
  <2>2. CASE req[c].method = "alias"
    BY <1>8, <2>1, <2>2 DEF CallSucceeds, Fulfils, Status, StatusOf, Goto, TypeOK, Busy
  <2>3. CASE req[c].method # "alias"
    <3>1. Submits(req[c]) => accepted[c] > 0
      BY <1>8, <2>1 DEF CallSucceeds, Submits, Sends, Sound, Typed, Counted
    <3> QED BY <1>8, <2>1, <2>3, <3>1, AnswerFulfils DEF CallSucceeds
  <2> QED BY <2>2, <2>3
<1>9. CASE NodeRefuses(c) \/ FallsSilent(c)
  BY <1>9 DEF NodeRefuses, FallsSilent, Fulfils, Status, StatusOf, locals, outside
<1>10. CASE NodeAccepts(c) \/ StrayArrives(c)
  <2>1. /\ pc' = pc /\ taken' = taken /\ outbox' = outbox
        /\ accepted'[c] \in {accepted[c], accepted[c] + 1}
        /\ stray[c] > 0 \/ InFlight(c) > 0
    BY <1>10 DEF NodeAccepts, StrayArrives, InFlight, locals, TypeOK
  <2>2. /\ accepted[c] \in Nat /\ stray[c] \in Nat /\ InFlight(c) \in {0, 1}
    BY InjectionsType DEF Sound, Typed
  <2>3. Injections(c) > accepted[c] /\ Injections(c) \in Nat
    BY <2>1, <2>2 DEF Injections
  <2>4. accepted[c] < MaxAttempts
    BY <2>2, <2>3, MostAttempts DEF Sound, Counted
  <2>5. Status(c) # "new"
    BY <2>2, <2>3, StatusCases DEF Sound, Counted
  <2>6. Status(c)' = Status(c)
    BY <2>1 DEF Status
  <2> QED BY <2>1, <2>4, <2>5, <2>6 DEF Fulfils
<1> QED
  BY <1>1, <1>3, <1>4, <1>5, <1>6, <1>7, <1>8, <1>9, <1>10, ListenFulfils
  DEF Handle, Outside

LEMMA PromiseStep ==
  ASSUME Inv, Inv', Next
  PROVE  Promise!Next \/ UNCHANGED Promise!vars
<1> DEFINE status == [d \in Client |-> Status(d)]
<1>1. PICK c \in Client : Listen(c) \/ Handle(c) \/ Outside(c)
  BY DEF Next
<1>2. Fulfils(c)
  BY <1>1, StepFulfils DEF Inv
<1>3. ASSUME NEW d \in Client, d # c
      PROVE  Status(d)' = Status(d) /\ accepted'[d] = accepted[d]
  BY <1>1, <1>3, OneClientMoves DEF Inv, Elsewhere, Status
<1>4. accepted \in [Client -> Nat] /\ accepted' \in [Client -> Nat]
  BY DEF Inv, TypeOK
<1>5. status' = [status EXCEPT ![c] = Status(c)']
  BY <1>3
<1>6. accepted' = [accepted EXCEPT ![c] = accepted'[c]]
  BY <1>3, <1>4
<1>7. Status(c)' = Status(c) => status' = status
  BY <1>3
<1>8. accepted'[c] = accepted[c] => accepted' = accepted
  BY <1>3, <1>4
<1>9. CASE Status(c)' = Status(c) /\ accepted'[c] = accepted[c]
  BY <1>7, <1>8, <1>9 DEF Promise!vars
<1>10. CASE /\ Status(c) # "new" /\ accepted[c] < MaxAttempts
            /\ Status(c)' = Status(c) /\ accepted'[c] = accepted[c] + 1
  BY <1>6, <1>7, <1>10 DEF Promise!Next, Promise!Apply
<1>11. CASE /\ Status(c) = "new"
            /\ Status(c)' = "open" /\ accepted'[c] = accepted[c]
  BY <1>5, <1>8, <1>11 DEF Promise!Next, Promise!Submit, Promise!Becomes
<1>12. CASE /\ Status(c) = "open" /\ accepted[c] > 0
            /\ Status(c)' = "success" /\ accepted'[c] = accepted[c]
  BY <1>5, <1>8, <1>12 DEF Promise!Next, Promise!Succeed, Promise!Becomes
<1>13. CASE /\ Status(c) = "open"
            /\ Status(c)' \in {"error", "lost"} /\ accepted'[c] = accepted[c]
  BY <1>5, <1>8, <1>13 DEF Promise!Next, Promise!Fail, Promise!Becomes
<1> QED BY <1>2, <1>9, <1>10, <1>11, <1>12, <1>13 DEF Fulfils

\* RpcService implements Submission (KeepsPromise): success is reported only for a
\* transaction some node accepted, and none is accepted more often than the retry
\* loop of lib_send_transaction attempts it.
THEOREM ImplementsSubmission == Spec => KeepsPromise
<1>1. Init => Promise!Init
  BY DEF Init, Promise!Init, Status, StatusOf, PlaceIn
<1>2. Inv /\ Inv' /\ [Next]_vars => [Promise!Next]_Promise!vars
  <2>1. ASSUME UNCHANGED vars PROVE UNCHANGED Promise!vars
    BY <2>1 DEF vars, locals, outside, Promise!vars, Status
  <2> QED BY <2>1, PromiseStep
<1> QED BY <1>1, <1>2, Invariant, PTL DEF Spec, KeepsPromise, Promise!Spec

\* Nobody is told of a success no node stands behind, and no transaction takes
\* effect more often than the loop may attempt it, calls that were lost included.
Earned ==
    \A c \in Client : /\ Status(c) = "success" => accepted[c] > 0
                     /\ accepted[c] <= MaxAttempts

LEMMA EarnedStep ==
  ASSUME Inv, Inv', Earned, Next
  PROVE  Earned'
<1>1. PICK c \in Client : Listen(c) \/ Handle(c) \/ Outside(c)
  BY DEF Next
<1>2. Fulfils(c)
  BY <1>1, StepFulfils DEF Inv
<1>3. ASSUME NEW d \in Client, d # c
      PROVE  Status(d)' = Status(d) /\ accepted'[d] = accepted[d]
  BY <1>1, <1>3, OneClientMoves DEF Inv, Elsewhere, Status
<1>4. accepted[c] \in Nat /\ MaxAttempts \in Nat
  BY MostAttempts DEF Inv, TypeOK
<1>5. Status(c)' = "success" => accepted'[c] > 0
  BY <1>2, <1>4 DEF Fulfils, Earned
<1>6. accepted'[c] <= MaxAttempts
  BY <1>2, <1>4 DEF Fulfils, Earned
<1>7. ASSUME NEW d \in Client
      PROVE  (Status(d)' = "success" => accepted'[d] > 0) /\ accepted'[d] <= MaxAttempts
  BY <1>3, <1>5, <1>6, <1>7 DEF Earned
<1> QED BY <1>7 DEF Earned

\* lib_send_transaction answers with success only if a node has accepted the
\* transaction (Earned); one whose answers were lost may have been accepted up to
\* max_retry + 1 times, never more.
THEOREM SuccessIsEarned == Spec => []Earned
<1>1. ASSUME Init PROVE Earned
  <2> SUFFICES ASSUME NEW c \in Client
               PROVE  /\ Status(c) = "success" => accepted[c] > 0
                      /\ accepted[c] <= MaxAttempts
    BY DEF Earned
  <2>1. taken[c] = <<>> /\ accepted[c] = 0
    BY <1>1 DEF Init
  <2>2. PlaceIn(taken[c]) = 0
    BY <2>1 DEF PlaceIn
  <2>3. Status(c) = "new"
    BY <2>1, <2>2 DEF Status, StatusOf
  <2> QED BY <2>1, <2>3, MostAttempts
<1>2. UNCHANGED vars /\ Earned => Earned'
  BY DEF vars, locals, outside, Earned, Status
<1> QED BY <1>1, <1>2, EarnedStep, Invariant, PTL DEF Spec
=============================================================================
