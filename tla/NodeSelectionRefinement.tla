---------------------- MODULE NodeSelectionRefinement ----------------------
(***************************************************************************)
(* Proof that NodeSelection implements Selector, for every set of tasks    *)
(* and nodes, every family of node lists and every max_http_timeout_ms.    *)
(***************************************************************************)
EXTENDS NodeSelectionProofs, FiniteSetTheorems

-----------------------------------------------------------------------------
(* Lists and the ids in them *)

\* The ids of a list that some archiver signed, in whatever order.
Signed(nodes) == \E l \in Lists : Ids(nodes) = {l[i] : i \in 1..Len(l)}

LEMMA OrdersAreSurjective ==
  ASSUME NEW n \in Nat, NEW p \in Orders(n), NEW j \in 1..n
  PROVE  \E i \in 1..n : p[i] = j
<1>1. p \in Injection(1..n, 1..n)
  BY DEF Orders, Injection, IsInjective
<1>2. IsFiniteSet(1..n)
  BY FS_Interval
<1>3. p \in Surjection(1..n, 1..n)
  BY <1>1, <1>2, FS_Injection
<1> QED BY <1>3 DEF Surjection

LEMMA FreshIds ==
  ASSUME NEW l \in Lists
  PROVE  Ids(Fresh(l)) = {l[i] : i \in 1..Len(l)}
<1>1. Len(Fresh(l)) = Len(l) /\ \A i \in 1..Len(l) : Fresh(l)[i].id = l[i]
  BY FreshType DEF Fresh, Consensor
<1> QED BY <1>1 DEF Ids

\* Sorting a list loses no id and adds none.
LEMMA WeighedIds ==
  ASSUME TypeOK, NEW nodes \in Seq(Entry), NEW p \in Orders(Len(nodes))
  PROVE  Ids(Weighed(nodes, p)) = Ids(nodes)
<1> DEFINE n == Len(nodes)
<1>1. n \in Nat /\ p \in [1..n -> 1..n]
  BY DEF Orders
<1>2. Len(Weighed(nodes, p)) = n
  BY WeighedType
<1>3. \A i \in 1..n : Weighed(nodes, p)[i].id = nodes[p[i]].id
  BY DEF Weighed
<1>4. Ids(Weighed(nodes, p)) = {nodes[p[i]].id : i \in 1..n}
  BY <1>2, <1>3 DEF Ids
<1>5. \A j \in 1..n : \E i \in 1..n : p[i] = j
  BY <1>1, OrdersAreSurjective
<1>6. {nodes[p[i]].id : i \in 1..n} = {nodes[j].id : j \in 1..n}
  BY <1>1, <1>5, Zenon
<1> QED BY <1>4, <1>6 DEF Ids

-----------------------------------------------------------------------------
(* The invariant of the refinement *)

\* The list that is served, and the copy that a request is about to put in its
\* place, is the whole of a list some archiver signed; before the first one
\* nothing is served and no request has begun.
SelectorInv ==
    /\ active_nodelist = <<>> \/ Signed(active_nodelist)
    /\ listening => Signed(active_nodelist)
    /\ \A t \in Task :
         /\ pc[t] # "idle" => listening
         /\ pc[t] \in {"sort", "storeNodes"} => Signed(snap[t])

LEMMA SelectorInvInit == Init => SelectorInv
  BY DEF Init, SelectorInv

\* What the steps of a request leave to the others.
Elsewhere(t) ==
    \A u \in Task \ {t} : pc'[u] = pc[u] /\ snap'[u] = snap[u] /\ chosen'[u] = chosen[u]

\* The actions of a request that neither copy, store nor keep a list.
Quiet(t) ==
    \/ Arrive(t) \/ LoadFlag(t) \/ LockBias(t) \/ CompareLengths(t) \/ TakeIndex(t)
    \/ LockNodes(t) \/ RoundRobinPick(t) \/ RoundRobinExhausted(t) \/ PrepareSkip(t)
    \/ PrepareBegin(t) \/ StoreBias(t) \/ SetFlag(t) \/ CheckFlag(t) \/ ReadNodes(t)
    \/ DrawNothing(t) \/ DrawUniform(t) \/ DrawWeighted(t) \/ DrawEmptyRange(t)
    \/ ResetIndex(t) \/ ResetFlag(t) \/ HttpDone(t) \/ TripWrite(t) \/ Fail(t) \/ HangUp(t)

LEMMA QuietKeeps ==
  ASSUME TypeOK, NEW t \in Task, Quiet(t)
  PROVE  /\ Elsewhere(t)
         /\ UNCHANGED <<active_nodelist, listening>>
         /\ pc'[t] \notin {"sort", "storeNodes"} \/ (pc'[t] = pc[t] /\ snap' = snap)
         /\ pc[t] # "idle" \/ listening \/ pc'[t] = "idle"
<1> USE DEF TypeOK, Elsewhere, Goto, shared, guards, locals, history
<1>1. CASE Arrive(t)
  BY <1>1 DEF Arrive
<1>2. CASE LoadFlag(t)
  BY <1>2 DEF LoadFlag
<1>3. CASE LockBias(t)
  BY <1>3 DEF LockBias
<1>4. CASE CompareLengths(t)
  BY <1>4 DEF CompareLengths
<1>5. CASE TakeIndex(t)
  BY <1>5 DEF TakeIndex
<1>6. CASE LockNodes(t)
  BY <1>6 DEF LockNodes
<1>7. CASE RoundRobinPick(t)
  BY <1>7 DEF RoundRobinPick
<1>8. CASE RoundRobinExhausted(t)
  BY <1>8 DEF RoundRobinExhausted
<1>9. CASE PrepareSkip(t)
  BY <1>9 DEF PrepareSkip
<1>10. CASE PrepareBegin(t)
  BY <1>10 DEF PrepareBegin
<1>11. CASE StoreBias(t)
  BY <1>11 DEF StoreBias
<1>12. CASE SetFlag(t)
  BY <1>12 DEF SetFlag
<1>13. CASE CheckFlag(t)
  BY <1>13 DEF CheckFlag
<1>14. CASE ReadNodes(t)
  BY <1>14 DEF ReadNodes
<1>15. CASE DrawNothing(t)
  BY <1>15 DEF DrawNothing, DrawEnds
<1>16. CASE DrawUniform(t)
  BY <1>16 DEF DrawUniform, CanDraw
<1>17. CASE DrawWeighted(t)
  BY <1>17 DEF DrawWeighted, CanDraw, DrawEnds
<1>18. CASE DrawEmptyRange(t)
  BY <1>18 DEF DrawEmptyRange, CanDraw, DrawEnds
<1>19. CASE ResetIndex(t)
  BY <1>19 DEF ResetIndex
<1>20. CASE ResetFlag(t)
  BY <1>20 DEF ResetFlag
<1>21. CASE HttpDone(t)
  BY <1>21 DEF HttpDone
<1>22. CASE TripWrite(t)
  BY <1>22 DEF TripWrite
<1>23. CASE Fail(t)
  BY <1>23 DEF Fail, Failed
<1>24. CASE HangUp(t)
  BY <1>24 DEF HangUp, Awaiting
<1> QED
  BY <1>1, <1>2, <1>3, <1>4, <1>5, <1>6, <1>7, <1>8, <1>9, <1>10, <1>11, <1>12,
     <1>13, <1>14, <1>15, <1>16, <1>17, <1>18, <1>19, <1>20, <1>21, <1>22,
     <1>23, <1>24
  DEF Quiet

LEMMA RewritesElsewhere ==
  ASSUME TypeOK, NEW t \in Task, CloneNodes(t) \/ SortAndWeigh(t) \/ StoreNodes(t)
  PROVE  Elsewhere(t)
<1> USE DEF TypeOK, Elsewhere, Goto, shared, guards, locals, history
<1>1. CASE CloneNodes(t)
  BY <1>1 DEF CloneNodes
<1>2. CASE SortAndWeigh(t)
  BY <1>2 DEF SortAndWeigh
<1>3. CASE StoreNodes(t)
  BY <1>3 DEF StoreNodes
<1> QED BY <1>1, <1>2, <1>3

LEMMA SelectorInvStep == TypeOK /\ SelectorInv /\ [Next]_vars => SelectorInv'
<1> SUFFICES ASSUME TypeOK, SelectorInv, [Next]_vars PROVE SelectorInv'
  OBVIOUS
<1> USE DEF Goto, shared, guards, locals, history
<1>1. ASSUME NEW t \in Task, Quiet(t) PROVE SelectorInv'
  <2>1. /\ Elsewhere(t)
        /\ UNCHANGED <<active_nodelist, listening>>
        /\ pc'[t] \notin {"sort", "storeNodes"} \/ (pc'[t] = pc[t] /\ snap' = snap)
        /\ pc[t] # "idle" \/ listening \/ pc'[t] = "idle"
    BY <1>1, QuietKeeps
  <2>2. ASSUME NEW u \in Task
        PROVE  /\ pc'[u] # "idle" => listening'
               /\ pc'[u] \in {"sort", "storeNodes"} => Signed(snap'[u])
    <3>1. CASE u = t
      BY <2>1, <3>1 DEF SelectorInv
    <3>2. CASE u # t
      BY <2>1, <3>2 DEF SelectorInv, Elsewhere
    <3> QED BY <3>1, <3>2
  <2> QED BY <2>1, <2>2 DEF SelectorInv, Signed
<1>2. ASSUME NEW t \in Task, CloneNodes(t) PROVE SelectorInv'
  BY <1>2 DEF SelectorInv, TypeOK, Signed, CloneNodes
<1>3. ASSUME NEW t \in Task, SortAndWeigh(t) PROVE SelectorInv'
  <2>1. PICK p \in Orders(Len(snap[t])) :
           snap' = [snap EXCEPT ![t] = Weighed(snap[t], p)]
    BY <1>3 DEF SortAndWeigh
  <2>2. Ids(snap'[t]) = Ids(snap[t])
    BY <2>1, WeighedIds DEF TypeOK
  <2>3. Signed(snap'[t])
    BY <1>3, <2>2 DEF SelectorInv, SortAndWeigh, Signed
  <2>4. /\ Elsewhere(t) /\ pc[t] = "sort" /\ pc'[t] = "storeNodes"
        /\ UNCHANGED <<active_nodelist, listening>>
    BY <1>3, RewritesElsewhere DEF SortAndWeigh, TypeOK
  <2>5. ASSUME NEW u \in Task
        PROVE  /\ pc'[u] # "idle" => listening'
               /\ pc'[u] \in {"sort", "storeNodes"} => Signed(snap'[u])
    <3>1. CASE u = t
      BY <2>3, <2>4, <3>1 DEF SelectorInv
    <3>2. CASE u # t
      BY <2>4, <3>2 DEF SelectorInv, Elsewhere
    <3> QED BY <3>1, <3>2
  <2> QED BY <2>4, <2>5 DEF SelectorInv, Signed
<1>4. ASSUME NEW t \in Task, StoreNodes(t) PROVE SelectorInv'
  BY <1>4 DEF SelectorInv, TypeOK, Signed, StoreNodes
<1>5. ASSUME NEW l \in Lists, InstallNodes(l) PROVE SelectorInv'
  <2>1. Signed(active_nodelist')
    BY <1>5, FreshIds DEF InstallNodes, Signed
  <2> QED BY <1>5, <2>1 DEF SelectorInv, Signed, InstallNodes
<1>6. ASSUME Refresh PROVE SelectorInv'
  <2>1. UNCHANGED <<active_nodelist, listening, pc, snap>>
    BY <1>6 DEF Refresh, RefreshIndex, RefreshFlag, RefreshBias, RefreshTrips
  <2> QED BY <2>1 DEF SelectorInv, Signed
<1>7. ASSUME Listen PROVE SelectorInv'
  BY <1>7 DEF SelectorInv, Signed, Listen
<1>8. ASSUME UNCHANGED vars PROVE SelectorInv'
  BY <1>8 DEF SelectorInv, Signed, vars
<1> QED
  BY <1>1, <1>2, <1>3, <1>4, <1>5, <1>6, <1>7, <1>8 DEF Next, Request, Select, Quiet

-----------------------------------------------------------------------------
(* The refinement, step by step *)

\* What one step of a request may do to what Selector sees of it.
Fulfils(t) ==
    \/ /\ Asked(t)' = Asked(t)
       /\ UNCHANGED active_nodelist
    \/ /\ Asked(t)' = Asked(t)
       /\ Signed(active_nodelist')
    \/ /\ Asked(t).stage = "idle"
       /\ Asked(t)' = [stage |-> "asking", ids |-> {}]
       /\ UNCHANGED active_nodelist
    \/ /\ Asked(t).stage = "asking"
       /\ Asked(t)' = [stage |-> "looking", ids |-> Ids(active_nodelist)]
       /\ UNCHANGED active_nodelist
    \/ /\ \E n \in Node :
             /\ \/ Asked(t).stage = "asking" /\ n \in Ids(active_nodelist)
                \/ Asked(t).stage = "looking" /\ n \in Asked(t).ids
             /\ Asked(t)' = [stage |-> "calling", ids |-> {n}]
       /\ UNCHANGED active_nodelist
    \/ /\ Asked(t).stage \in {"idle", "asking", "looking"}
       /\ Asked(t)' = [stage |-> "refused", ids |-> {}]
       /\ UNCHANGED active_nodelist
    \/ /\ Asked(t).stage # "idle"
       /\ Asked(t)' = [stage |-> "idle", ids |-> {}]
       /\ UNCHANGED active_nodelist

LEMMA IdAt ==
  ASSUME NEW nodes \in Seq(Entry), NEW i \in 1..Len(nodes)
  PROVE  nodes[i].id \in Node /\ nodes[i].id \in Ids(nodes)
  BY EntryAt DEF Ids

\* Where the request is while Selector sees it asking.
AskingAt == {"loadFlag", "lockBias", "compareLengths", "takeIndex", "lockNodes",
             "roundRobin", "prepare", "cloneNodes", "checkFlag", "readNodes"} \cup Preparing

LEMMA StageBefore ==
  ASSUME TypeOK, NEW t \in Task
  PROVE  /\ pc[t] = "idle" <=> Asked(t).stage = "idle"
         /\ pc[t] \in AskingAt => Asked(t) = [stage |-> "asking", ids |-> {}]
         /\ pc[t] = "draw" => Asked(t) = [stage |-> "looking", ids |-> Ids(snap[t])]
<1>1. pc[t] \in Labels
  BY DEF TypeOK
<1> QED BY <1>1 DEF Labels, Asked, AskedAt, AskingAt, Failed, Preparing, Unsetting, Drawing

LEMMA StageAfter ==
  ASSUME TypeOK', NEW t \in Task
  PROVE  /\ pc'[t] = "idle" => Asked(t)' = [stage |-> "idle", ids |-> {}]
         /\ pc'[t] \in AskingAt => Asked(t)' = [stage |-> "asking", ids |-> {}]
         /\ pc'[t] = "draw" => Asked(t)' = [stage |-> "looking", ids |-> Ids(snap'[t])]
         /\ pc'[t] \in Failed => Asked(t)' = [stage |-> "refused", ids |-> {}]
         /\ pc'[t] \in Unsetting \cup {"http"} =>
              Asked(t)' = [stage |-> "calling", ids |-> {chosen'[t]}]
<1>1. pc'[t] \in Labels
  BY DEF TypeOK, Labels, Preparing, Unsetting, Drawing, Failed
<1>2. Asked(t)' = AskedAt(pc'[t], snap'[t], chosen'[t])
  BY DEF Asked, AskedAt, Ids, Failed, Unsetting
<1> QED BY <1>1, <1>2 DEF Labels, AskedAt, AskingAt, Failed, Preparing,
                          Unsetting, Drawing

\* What a request does on its way through prepare_list is not seen, but for the
\* store of the list.
LEMMA AskingFulfils ==
  ASSUME TypeOK, TypeOK', NEW t \in Task,
         \/ LoadFlag(t) \/ LockBias(t) \/ CompareLengths(t) \/ TakeIndex(t) \/ LockNodes(t)
         \/ RoundRobinExhausted(t) \/ PrepareSkip(t) \/ PrepareBegin(t)
         \/ CloneNodes(t) \/ SortAndWeigh(t) \/ StoreBias(t) \/ SetFlag(t)
  PROVE  Fulfils(t)
<1>1. /\ pc[t] \in AskingAt /\ pc'[t] \in AskingAt
      /\ UNCHANGED active_nodelist
  BY DEF TypeOK, AskingAt, Preparing, Goto, shared, LoadFlag, LockBias, CompareLengths,
         TakeIndex, LockNodes, RoundRobinExhausted, PrepareSkip, PrepareBegin,
         CloneNodes, SortAndWeigh, StoreBias, SetFlag
<1>2. Asked(t) = [stage |-> "asking", ids |-> {}]
  BY <1>1, StageBefore
<1>3. Asked(t)' = [stage |-> "asking", ids |-> {}]
  BY <1>1, StageAfter
<1> QED BY <1>1, <1>2, <1>3 DEF Fulfils

LEMMA StoreFulfils ==
  ASSUME TypeOK, TypeOK', SelectorInv, NEW t \in Task, StoreNodes(t)
  PROVE  Fulfils(t)
<1>1. /\ pc[t] \in AskingAt /\ pc'[t] \in AskingAt
      /\ Signed(active_nodelist')
  BY DEF TypeOK, AskingAt, Preparing, Goto, StoreNodes, SelectorInv, Signed
<1>2. Asked(t) = [stage |-> "asking", ids |-> {}]
  BY <1>1, StageBefore
<1>3. Asked(t)' = [stage |-> "asking", ids |-> {}]
  BY <1>1, StageAfter
<1> QED BY <1>1, <1>2, <1>3 DEF Fulfils

\* A request begins, is refused, or looks at the list.
LEMMA ArriveFulfils ==
  ASSUME TypeOK, TypeOK', NEW t \in Task, Arrive(t) \/ CheckFlag(t) \/ ReadNodes(t)
  PROVE  Fulfils(t)
<1> USE DEF TypeOK, Goto, shared, locals
<1>1. UNCHANGED active_nodelist
  BY DEF Arrive, CheckFlag, ReadNodes
<1>2. CASE Arrive(t)
  <2>1. pc[t] = "idle" /\ (pc'[t] \in AskingAt \/ pc'[t] \in Failed)
    BY <1>2 DEF Arrive, AskingAt, Failed
  <2>2. Asked(t).stage = "idle"
    BY <2>1, StageBefore
  <2>3. \/ Asked(t)' = [stage |-> "asking", ids |-> {}]
        \/ Asked(t)' = [stage |-> "refused", ids |-> {}]
    BY <2>1, StageAfter
  <2> QED BY <1>1, <2>2, <2>3 DEF Fulfils
<1>3. CASE CheckFlag(t)
  <2>1. pc[t] \in AskingAt /\ (pc'[t] \in AskingAt \/ pc'[t] \in Failed)
    BY <1>3 DEF CheckFlag, AskingAt, Failed
  <2>2. Asked(t) = [stage |-> "asking", ids |-> {}]
    BY <2>1, StageBefore
  <2>3. \/ Asked(t)' = [stage |-> "asking", ids |-> {}]
        \/ Asked(t)' = [stage |-> "refused", ids |-> {}]
    BY <2>1, StageAfter
  <2> QED BY <1>1, <2>2, <2>3 DEF Fulfils
<1>4. CASE ReadNodes(t)
  <2>1. pc[t] \in AskingAt /\ pc'[t] = "draw" /\ snap'[t] = active_nodelist
    BY <1>4 DEF ReadNodes, AskingAt
  <2>2. Asked(t) = [stage |-> "asking", ids |-> {}]
    BY <2>1, StageBefore
  <2>3. Asked(t)' = [stage |-> "looking", ids |-> Ids(active_nodelist)]
    BY <2>1, StageAfter
  <2> QED BY <1>1, <2>2, <2>3 DEF Fulfils
<1> QED BY <1>2, <1>3, <1>4

\* A node is taken from the list, or from the copy read before.
LEMMA ChoiceFulfils ==
  ASSUME TypeOK, TypeOK', NEW t \in Task,
         RoundRobinPick(t) \/ DrawUniform(t) \/ DrawWeighted(t)
  PROVE  Fulfils(t)
<1> USE DEF Goto, shared, locals
<1>1. UNCHANGED active_nodelist
  BY DEF RoundRobinPick, DrawUniform, DrawWeighted, CanDraw
<1>2. CASE RoundRobinPick(t)
  <2>1. /\ pc[t] \in AskingAt /\ pc'[t] \in Unsetting \cup {"http"}
        /\ idx[t] + 1 \in 1..Len(active_nodelist)
        /\ chosen'[t] = active_nodelist[idx[t] + 1].id
    BY <1>2 DEF RoundRobinPick, TypeOK, AskingAt
  <2>2. chosen'[t] \in Node /\ chosen'[t] \in Ids(active_nodelist)
    BY <2>1, IdAt DEF TypeOK
  <2>3. Asked(t).stage = "asking"
    BY <2>1, StageBefore
  <2>4. Asked(t)' = [stage |-> "calling", ids |-> {chosen'[t]}]
    BY <2>1, StageAfter
  <2> QED BY <1>1, <2>2, <2>3, <2>4 DEF Fulfils
<1>3. ASSUME pc[t] = "draw", pc'[t] \in Unsetting \cup {"http"},
             NEW k \in 1..Len(snap[t]), chosen'[t] = snap[t][k].id
      PROVE  Fulfils(t)
  <2>1. chosen'[t] \in Node /\ chosen'[t] \in Ids(snap[t])
    BY <1>3, IdAt DEF TypeOK
  <2>2. Asked(t).stage = "looking" /\ Asked(t).ids = Ids(snap[t])
    BY <1>3, StageBefore
  <2>3. Asked(t)' = [stage |-> "calling", ids |-> {chosen'[t]}]
    BY <1>3, StageAfter
  <2> QED BY <1>1, <2>1, <2>2, <2>3 DEF Fulfils
<1>4. CASE DrawUniform(t)
  <2>1. pc[t] = "draw" /\ pc'[t] \in Unsetting \cup {"http"}
    BY <1>4 DEF DrawUniform, CanDraw, Unsetting, TypeOK
  <2>2. \E k \in 1..Len(snap[t]) : chosen'[t] = snap[t][k].id
    BY <1>4 DEF DrawUniform, TypeOK
  <2> QED BY <1>3, <2>1, <2>2
<1>5. CASE DrawWeighted(t)
  <2>1. CASE pc'[t] = "indexPanic"
    <3>1. pc[t] = "draw" /\ pc'[t] \in Failed
      BY <1>5, <2>1 DEF DrawWeighted, CanDraw, Failed
    <3>2. Asked(t).stage = "looking" /\ Asked(t)' = [stage |-> "refused", ids |-> {}]
      BY <3>1, StageBefore, StageAfter
    <3> QED BY <1>1, <3>2 DEF Fulfils
  <2>2. CASE pc'[t] # "indexPanic"
    <3>1. PICK i \in 0..Len(load_distribution_commulative_bias) :
             /\ i < Len(snap[t])
             /\ chosen' = [chosen EXCEPT ![t] = snap[t][i + 1].id]
             /\ pc' = [pc EXCEPT ![t] = "http"]
      BY <1>5, <2>2 DEF TypeOK, DrawWeighted, CanDraw, BinarySearch
    <3>2. /\ pc[t] = "draw" /\ pc'[t] \in Unsetting \cup {"http"}
          /\ i + 1 \in 1..Len(snap[t]) /\ chosen'[t] = snap[t][i + 1].id
      BY <1>5, <3>1 DEF TypeOK, DrawWeighted, CanDraw
    <3> QED BY <1>3, <3>2
  <2> QED BY <2>1, <2>2
<1> QED BY <1>2, <1>4, <1>5

LEMMA EndFulfils ==
  ASSUME TypeOK, TypeOK', NEW t \in Task,
         \/ DrawNothing(t) \/ DrawEmptyRange(t) \/ ResetIndex(t) \/ ResetFlag(t)
         \/ HttpDone(t) \/ TripWrite(t) \/ Fail(t) \/ HangUp(t)
  PROVE  Fulfils(t)
<1> USE DEF Goto, shared, locals
<1>1. UNCHANGED active_nodelist
  BY DEF DrawNothing, DrawEmptyRange, ResetIndex, ResetFlag, HttpDone, TripWrite, Fail,
         HangUp
<1>2. CASE DrawNothing(t) \/ DrawEmptyRange(t)
  <2>1. pc[t] = "draw" /\ pc'[t] \in Failed
    BY <1>2 DEF DrawNothing, DrawEmptyRange, CanDraw, Failed, TypeOK
  <2>2. Asked(t).stage = "looking" /\ Asked(t)' = [stage |-> "refused", ids |-> {}]
    BY <2>1, StageBefore, StageAfter
  <2> QED BY <1>1, <2>2 DEF Fulfils
<1>3. CASE ResetIndex(t) \/ ResetFlag(t) \/ TripWrite(t)
  <2>1. Asked(t)' = Asked(t)
    <3>1. CASE ResetIndex(t) \/ ResetFlag(t)
      <4>1. /\ pc[t] \in Unsetting /\ pc'[t] \in Unsetting \cup {"http"}
            /\ chosen' = chosen
        BY <3>1 DEF ResetIndex, ResetFlag, Unsetting, TypeOK
      <4>2. Asked(t) = [stage |-> "calling", ids |-> {chosen[t]}]
        BY <4>1 DEF Asked, AskedAt, Unsetting, Failed
      <4> QED BY <4>1, <4>2, StageAfter
    <3>2. CASE TripWrite(t)
      BY <3>2 DEF TripWrite, Asked, AskedAt, Ids, Unsetting, Failed
    <3> QED BY <1>3, <3>1, <3>2
  <2> QED BY <1>1, <2>1 DEF Fulfils
<1>4. CASE HttpDone(t) \/ Fail(t) \/ HangUp(t)
  <2>1. pc[t] # "idle" /\ pc'[t] = "idle"
    BY <1>4 DEF HttpDone, Fail, HangUp, Failed, Awaiting, TypeOK
  <2>2. Asked(t).stage # "idle" /\ Asked(t)' = [stage |-> "idle", ids |-> {}]
    BY <2>1, StageBefore, StageAfter
  <2> QED BY <1>1, <2>2 DEF Fulfils
<1> QED BY <1>2, <1>3, <1>4

LEMMA RequestFulfils ==
  ASSUME TypeOK, TypeOK', SelectorInv, NEW t \in Task, Request(t)
  PROVE  Fulfils(t) /\ Elsewhere(t)
  BY AskingFulfils, StoreFulfils, ArriveFulfils, ChoiceFulfils, EndFulfils, QuietKeeps,
     RewritesElsewhere
  DEF Request, Select, Quiet

\* A step of one request is a step of Selector, or none.
LEMMA PromiseRequest ==
  ASSUME TypeOK, TypeOK', SelectorInv, NEW t \in Task, Request(t)
  PROVE  Promise!Next \/ UNCHANGED Promise!vars
<1> DEFINE asked == [u \in Task |-> Asked(u)]
<1>1. Fulfils(t) /\ Elsewhere(t)
  BY RequestFulfils
<1>2. ASSUME NEW u \in Task, u # t PROVE Asked(u)' = Asked(u)
  <2>1. pc'[u] = pc[u] /\ snap'[u] = snap[u] /\ chosen'[u] = chosen[u]
    BY <1>1, <1>2 DEF Elsewhere
  <2> QED BY <2>1 DEF Asked, AskedAt, Ids, Unsetting, Failed
<1>3. asked' = [asked EXCEPT ![t] = Asked(t)']
  BY <1>2
<1>4. Asked(t)' = Asked(t) => UNCHANGED asked
  BY <1>2
<1>5. asked[t] = Asked(t)
  OBVIOUS
<1>6. UNCHANGED active_nodelist => UNCHANGED Ids(active_nodelist)
  BY DEF Ids
<1>7. CASE Asked(t)' = Asked(t) /\ UNCHANGED active_nodelist
  BY <1>4, <1>6, <1>7 DEF Promise!vars
<1>8. CASE Asked(t)' = Asked(t) /\ Signed(active_nodelist')
  <2>1. PICK l \in Lists : Ids(active_nodelist') = {l[i] : i \in 1..Len(l)}
    BY <1>8 DEF Signed
  <2>2. Ids(active_nodelist)' = {l[i] : i \in 1..Len(l)}
    BY <2>1 DEF Ids
  <2>3. Promise!Replace(l)
    BY <1>4, <1>8, <2>2 DEF Promise!Replace
  <2> QED BY <2>3 DEF Promise!Next
<1>9. CASE /\ Asked(t).stage = "idle"
           /\ Asked(t)' = [stage |-> "asking", ids |-> {}]
           /\ UNCHANGED active_nodelist
  <2>1. Promise!Ask(t)
    BY <1>3, <1>5, <1>6, <1>9 DEF Promise!Ask, Promise!Becomes
  <2> QED BY <2>1 DEF Promise!Next
<1>10. CASE /\ Asked(t).stage = "asking"
            /\ Asked(t)' = [stage |-> "looking", ids |-> Ids(active_nodelist)]
            /\ UNCHANGED active_nodelist
  <2>1. Promise!Look(t)
    BY <1>3, <1>5, <1>6, <1>10 DEF Promise!Look, Promise!Becomes
  <2> QED BY <2>1 DEF Promise!Next
<1>11. ASSUME NEW n \in Node,
              \/ Asked(t).stage = "asking" /\ n \in Ids(active_nodelist)
              \/ Asked(t).stage = "looking" /\ n \in Asked(t).ids,
              Asked(t)' = [stage |-> "calling", ids |-> {n}],
              UNCHANGED active_nodelist
       PROVE  Promise!Next
  <2>1. Promise!Choose(t, n)
    BY <1>3, <1>5, <1>6, <1>11 DEF Promise!Choose, Promise!Becomes
  <2> QED BY <2>1 DEF Promise!Next
<1>12. CASE /\ Asked(t).stage \in {"idle", "asking", "looking"}
            /\ Asked(t)' = [stage |-> "refused", ids |-> {}]
            /\ UNCHANGED active_nodelist
  <2>1. Promise!Refuse(t)
    BY <1>3, <1>5, <1>6, <1>12 DEF Promise!Refuse, Promise!Becomes
  <2> QED BY <2>1 DEF Promise!Next
<1>13. CASE /\ Asked(t).stage # "idle"
            /\ Asked(t)' = [stage |-> "idle", ids |-> {}]
            /\ UNCHANGED active_nodelist
  <2>1. Promise!Finish(t)
    BY <1>3, <1>5, <1>6, <1>13 DEF Promise!Finish, Promise!Becomes
  <2> QED BY <2>1 DEF Promise!Next
<1> QED
  BY <1>1, <1>7, <1>8, <1>9, <1>10, <1>11, <1>12, <1>13 DEF Fulfils

LEMMA PromiseStep ==
  ASSUME TypeOK, TypeOK', SelectorInv, [Next]_vars
  PROVE  [Promise!Next]_(Promise!vars)
<1> USE DEF shared, guards, locals, history
<1>1. CASE \E t \in Task : Request(t)
  BY <1>1, PromiseRequest
<1>2. ASSUME NEW l \in Lists, InstallNodes(l)
      PROVE  Promise!Next
  <2>1. UNCHANGED <<pc, snap, chosen>> /\ active_nodelist' = Fresh(l)
    BY <1>2 DEF InstallNodes
  <2>2. Ids(active_nodelist)' = {l[i] : i \in 1..Len(l)}
    BY <2>1, FreshIds DEF Ids
  <2>3. UNCHANGED [u \in Task |-> Asked(u)]
    BY <2>1 DEF Asked, AskedAt, Ids, Unsetting, Failed
  <2>4. Promise!Replace(l)
    BY <2>2, <2>3 DEF Promise!Replace
  <2> QED BY <2>4 DEF Promise!Next
<1>3. CASE Refresh \/ Listen \/ UNCHANGED vars
  <2>1. UNCHANGED <<active_nodelist, pc, snap, chosen>>
    <3>1. CASE Refresh
      BY <3>1 DEF Refresh, RefreshIndex, RefreshFlag, RefreshBias, RefreshTrips
    <3>2. CASE Listen \/ UNCHANGED vars
      BY <3>2 DEF Listen, vars
    <3> QED BY <1>3, <3>1, <3>2
  <2>2. UNCHANGED Ids(active_nodelist) /\ UNCHANGED [u \in Task |-> Asked(u)]
    BY <2>1 DEF Asked, AskedAt, Ids, Unsetting, Failed
  <2> QED BY <2>2 DEF Promise!vars
<1> QED BY <1>1, <1>2, <1>3 DEF Next

LEMMA PromiseInit == Init => Promise!Init
<1> SUFFICES ASSUME Init PROVE Promise!Init
  OBVIOUS
<1>1. Ids(active_nodelist) = {}
  BY DEF Init, Ids
<1>2. \A t \in Task : Asked(t) = [stage |-> "idle", ids |-> {}]
  BY DEF Init, Asked, AskedAt
<1> QED BY <1>1, <1>2 DEF Promise!Init

\* NodeSelection implements Selector (KeepsPromise): whatever rewrites of the
\* list overlap, and with whichever weights an index was drawn, a request is sent
\* to a node of one list that was being served when it read the list, and the
\* served list is always the whole of a list some archiver signed.
THEOREM ImplementsSelector == Spec => KeepsPromise
<1>1. Spec => [](TypeOK /\ LocalsOK /\ SelectorInv)
  BY TypeInit, TypeStep, SelectorInvInit, SelectorInvStep, PTL DEF Spec
<1> QED BY <1>1, PromiseInit, PromiseStep, PTL DEF Spec, KeepsPromise, Promise!Spec

-----------------------------------------------------------------------------
(* Who is called *)

\* Some archiver signed a list with the node in it.
Listed(n) == \E l \in Lists : n \in {l[i] : i \in 1..Len(l)}

\* What a request has read or chosen, as Selector sees it, was in such a list.
AsksListed == \A t \in Task : \A n \in Asked(t).ids : Listed(n)

LEMMA ServedAreListed ==
  ASSUME SelectorInv
  PROVE  \A n \in Ids(active_nodelist) : Listed(n)
<1>1. CASE active_nodelist = <<>>
  BY <1>1 DEF Ids
<1>2. CASE Signed(active_nodelist)
  BY <1>2 DEF Signed, Listed
<1> QED BY <1>1, <1>2 DEF SelectorInv

LEMMA AsksListedStep ==
  ASSUME TypeOK, TypeOK', SelectorInv, AsksListed, [Next]_vars
  PROVE  AsksListed'
<1> USE DEF shared, guards, locals, history
<1>1. ASSUME NEW t \in Task, Request(t) PROVE AsksListed'
  <2>1. Fulfils(t) /\ Elsewhere(t)
    BY <1>1, RequestFulfils
  <2>2. ASSUME NEW u \in Task, u # t PROVE Asked(u)' = Asked(u)
    <3>1. pc'[u] = pc[u] /\ snap'[u] = snap[u] /\ chosen'[u] = chosen[u]
      BY <2>1, <2>2 DEF Elsewhere
    <3> QED BY <3>1 DEF Asked, AskedAt, Ids, Unsetting, Failed
  <2>3. \A n \in Asked(t)'.ids : n \in Asked(t).ids \/ n \in Ids(active_nodelist)
    BY <2>1 DEF Fulfils
  <2>4. \A n \in Asked(t)'.ids : Listed(n)
    BY <2>3, ServedAreListed DEF AsksListed
  <2>5. ASSUME NEW u \in Task PROVE \A n \in Asked(u)'.ids : Listed(n)
    BY <2>2, <2>4, <2>5 DEF AsksListed
  <2> QED BY <2>5 DEF AsksListed, Listed
<1>2. CASE UNCHANGED <<pc, snap, chosen>>
  <2>1. \A t \in Task : Asked(t)' = Asked(t)
    BY <1>2 DEF Asked, AskedAt, Ids, Unsetting, Failed
  <2> QED BY <2>1 DEF AsksListed, Listed
<1>3. ASSUME NEW l \in Lists, InstallNodes(l) PROVE AsksListed'
  BY <1>2, <1>3 DEF InstallNodes
<1>4. CASE Refresh
  BY <1>2, <1>4 DEF Refresh, RefreshIndex, RefreshFlag, RefreshBias, RefreshTrips
<1>5. CASE Listen \/ UNCHANGED vars
  BY <1>2, <1>5 DEF Listen, vars
<1> QED BY <1>1, <1>3, <1>4, <1>5 DEF Next

\* A request is only ever sent to a node that some archiver listed and signed:
\* this holds of every request, also of those whose draw used the weights of
\* another list or that were overtaken by a refresh.
THEOREM CallsListedNodes ==
    Spec => [](\A t \in Task : pc[t] = "http" => Listed(chosen[t]))
<1>1. Spec => [](TypeOK /\ LocalsOK /\ SelectorInv)
  BY TypeInit, TypeStep, SelectorInvInit, SelectorInvStep, PTL DEF Spec
<1>2. Init => AsksListed
  BY DEF Init, AsksListed, Asked, AskedAt
<1>3. Spec => []AsksListed
  BY <1>1, <1>2, AsksListedStep, PTL DEF Spec
<1>4. ASSUME AsksListed PROVE \A t \in Task : pc[t] = "http" => Listed(chosen[t])
  <2> SUFFICES ASSUME NEW t \in Task, pc[t] = "http" PROVE Listed(chosen[t])
    OBVIOUS
  <2>1. Asked(t) = [stage |-> "calling", ids |-> {chosen[t]}]
    BY DEF Asked, AskedAt, Failed
  <2>2. chosen[t] \in Asked(t).ids
    BY <2>1
  <2> QED BY <1>4, <2>2 DEF AsksListed
<1> QED BY <1>3, <1>4, PTL

=============================================================================
