------------------------ MODULE NodeSelectionProofs ------------------------
(***************************************************************************)
(* Proofs about NodeSelection, for every set of tasks and nodes, every     *)
(* family of node lists and every max_http_timeout_ms.                     *)
(***************************************************************************)
EXTENDS NodeSelection, LeastNumber, SequenceTheorems, TLAPS

-----------------------------------------------------------------------------
(* The running sums of prepare_list *)

SumTo(nodes, n, f) ==
    f = [i \in 0..n |-> IF i = 0 THEN 0 ELSE f[i - 1] + nodes[i].rng_bias]

\* A function that satisfies RunningSum's recursive equation exists.
LEMMA SumExists ==
  ASSUME NEW nodes, NEW n \in Nat
  PROVE  \E f : SumTo(nodes, n, f)
<1> DEFINE Bad == {m \in Nat : ~ \E f : SumTo(nodes, m, f)}
<1>1. SUFFICES ASSUME Bad # {} PROVE FALSE
  OBVIOUS
<1>2. PICK m \in Bad : \A k \in Bad : m <= k
  <2> HIDE DEF Bad
  <2>1. Bad \subseteq Nat
    BY DEF Bad
  <2> QED BY <1>1, <2>1, LeastElement
<1>3. m # 0
  <2>1. SumTo(nodes, 0, [i \in 0..0 |-> 0])
    BY DEF SumTo
  <2> QED BY <2>1
<1>4. PICK f : SumTo(nodes, m - 1, f)
  BY <1>2, <1>3
<1> DEFINE g == [i \in 0..m |-> IF i = m THEN f[m - 1] + nodes[m].rng_bias ELSE f[i]]
<1>5. SumTo(nodes, m, g)
  BY <1>3, <1>4 DEF SumTo
<1> QED BY <1>5, <1>2

LEMMA RunningSumEquation ==
  ASSUME NEW nodes \in Seq(Entry)
  PROVE  SumTo(nodes, Len(nodes), RunningSum(nodes))
<1>1. RunningSum(nodes) = CHOOSE f : SumTo(nodes, Len(nodes), f)
  BY DEF RunningSum, SumTo
<1> QED BY <1>1, SumExists

\* Every node's bias has been computed: Option::Some.
Weighted(nodes) == \A i \in 1..Len(nodes) : nodes[i].rng_bias \in Int

LEMMA RunningSumIsInt ==
  ASSUME NEW nodes \in Seq(Entry), Weighted(nodes)
  PROVE  \A i \in 0..Len(nodes) : RunningSum(nodes)[i] \in Int
<1> DEFINE sum == RunningSum(nodes)
           Bad == {i \in 0..Len(nodes) : sum[i] \notin Int}
<1>1. SUFFICES ASSUME Bad # {} PROVE FALSE
  OBVIOUS
<1>2. PICK m \in Bad : \A k \in Bad : m <= k
  <2> HIDE DEF Bad
  <2>1. Bad \subseteq Nat
    BY DEF Bad
  <2> QED BY <1>1, <2>1, LeastElement
<1>3. \A i \in 0..Len(nodes) :
         sum[i] = IF i = 0 THEN 0 ELSE sum[i - 1] + nodes[i].rng_bias
  BY RunningSumEquation DEF SumTo
<1>4. m # 0
  BY <1>3
<1>5. m - 1 \in 0..Len(nodes) /\ sum[m - 1] \in Int
  BY <1>2, <1>4
<1> HIDE DEF sum
<1> QED BY <1>3, <1>4, <1>5 DEF Weighted

\* The bias vector prepare_list stores has one weight per node, and weight i
\* exceeds weight i - 1 by the bias of node i (doc of prepare_list).
LEMMA CumulativeIsRunningSum ==
  ASSUME NEW nodes \in Seq(Entry), Weighted(nodes)
  PROVE  /\ Cumulative(nodes) \in Seq(Int)
         /\ Len(Cumulative(nodes)) = Len(nodes)
         /\ \A i \in 1..Len(nodes) :
              Cumulative(nodes)[i] =
                (IF i = 1 THEN 0 ELSE Cumulative(nodes)[i - 1]) + nodes[i].rng_bias
<1>1. \A i \in 0..Len(nodes) : RunningSum(nodes)[i] \in Int
  BY RunningSumIsInt
<1>2. \A i \in 0..Len(nodes) :
         RunningSum(nodes)[i] =
           IF i = 0 THEN 0 ELSE RunningSum(nodes)[i - 1] + nodes[i].rng_bias
  BY RunningSumEquation DEF SumTo
<1>3. Cumulative(nodes) \in Seq(Int) /\ Len(Cumulative(nodes)) = Len(nodes)
  BY <1>1 DEF Cumulative
<1>4. ASSUME NEW i \in 1..Len(nodes)
      PROVE  Cumulative(nodes)[i] =
               (IF i = 1 THEN 0 ELSE Cumulative(nodes)[i - 1]) + nodes[i].rng_bias
  <2>1. CASE i = 1
    BY <1>2, <2>1 DEF Cumulative
  <2>2. CASE i # 1
    BY <1>2, <2>2 DEF Cumulative
  <2> QED BY <2>1, <2>2
<1> QED BY <1>3, <1>4

-----------------------------------------------------------------------------
(* Types *)

Storing == {"storeNodes", "storeBias", "setFlag"}

\* What the type invariant needs to be inductive: a request past its choice has
\* chosen a node, and one that stores a list has weighed it.
LocalsOK ==
    \A t \in Task : /\ pc[t] \in Unsetting \cup {"http"} => chosen[t] \in Node
                    /\ pc[t] \in Storing => Weighted(snap[t])

LEMMA BiasIsInt == \A t \in Nat : calculate_bias(t) \in Int
  BY TimeoutAssumption DEF calculate_bias

LEMMA FreshType ==
  ASSUME NEW l \in Lists
  PROVE  /\ l \in Seq(Node)
         /\ Fresh(l) \in Seq(Entry)
         /\ Len(Fresh(l)) = Len(l)
  BY ListsAssumption DEF Fresh, Consensor, Entry

LEMMA EntryAt ==
  ASSUME NEW nodes \in Seq(Entry), NEW i \in 1..Len(nodes)
  PROVE  nodes[i].id \in Node
<1>1. nodes[i] \in Entry
  OBVIOUS
<1> QED BY <1>1 DEF Entry

LEMMA RoundTripIsNat ==
  ASSUME TypeOK, NEW n \in Node
  PROVE  RoundTrip(n) \in Nat
  BY TimeoutAssumption DEF TypeOK, RoundTrip

LEMMA WeighedType ==
  ASSUME TypeOK, NEW nodes \in Seq(Entry), NEW p \in Orders(Len(nodes))
  PROVE  /\ Weighed(nodes, p) \in Seq(Entry)
         /\ Len(Weighed(nodes, p)) = Len(nodes)
         /\ Weighted(Weighed(nodes, p))
<1>1. p \in [1..Len(nodes) -> 1..Len(nodes)]
  BY DEF Orders
<1>2. ASSUME NEW i \in 1..Len(nodes)
      PROVE  [id       |-> nodes[p[i]].id,
              rng_bias |-> calculate_bias(RoundTrip(nodes[p[i]].id))]
                \in [id : Node, rng_bias : Int]
  <2>1. nodes[p[i]].id \in Node
    BY <1>1, EntryAt
  <2> QED BY <2>1, RoundTripIsNat, BiasIsInt
<1>3. Weighed(nodes, p) \in Seq([id : Node, rng_bias : Int])
  BY <1>2 DEF Weighed
<1> QED BY <1>3 DEF Weighed, Weighted, Entry

LEMMA TornTypes ==
  ASSUME TypeOK, NEW t \in Task
  PROVE  /\ Look(t) \/ LookAway(t) => torn' \in [Task -> SUBSET Kinds]
         /\ \A kind \in Kinds :
               /\ TornBy(kind) \in [Task -> SUBSET Kinds]
               /\ EnterRewrite(t, kind) => /\ torn' \in [Task -> SUBSET Kinds]
                                          /\ disturbed' \in BOOLEAN
<1>1. Rewrites(t) \subseteq Kinds
  BY DEF Rewrites
<1>2. ASSUME NEW kind \in Kinds PROVE TornBy(kind) \in [Task -> SUBSET Kinds]
  BY DEF TypeOK, TornBy
<1> QED BY <1>1, <1>2 DEF TypeOK, Look, LookAway, EnterRewrite

\* A step of the balancer keeps the types.
LEMMA TypeStep == TypeOK /\ LocalsOK /\ [Next]_vars => TypeOK' /\ LocalsOK'
<1> SUFFICES ASSUME TypeOK, LocalsOK, [Next]_vars PROVE TypeOK' /\ LocalsOK'
  OBVIOUS
<1> USE DEF Goto, shared, guards, locals, history, Labels, Preparing, Unsetting,
            Drawing, Failed, Storing
<1>0. {"prepare", "reset", "refresh"} \subseteq Kinds
  BY DEF Kinds
<1>1. ASSUME NEW t \in Task, Arrive(t) PROVE TypeOK' /\ LocalsOK'
  BY <1>1 DEF TypeOK, LocalsOK, Arrive
<1>2. ASSUME NEW t \in Task, LoadFlag(t) PROVE TypeOK' /\ LocalsOK'
  BY <1>2, TornTypes DEF TypeOK, LocalsOK, LoadFlag
<1>3. ASSUME NEW t \in Task, LockBias(t) PROVE TypeOK' /\ LocalsOK'
  BY <1>3 DEF TypeOK, LocalsOK, LockBias
<1>4. ASSUME NEW t \in Task, CompareLengths(t) PROVE TypeOK' /\ LocalsOK'
  BY <1>4, TornTypes DEF TypeOK, LocalsOK, CompareLengths
<1>5. ASSUME NEW t \in Task, TakeIndex(t) PROVE TypeOK' /\ LocalsOK'
  BY <1>5, CapAssumption DEF TypeOK, LocalsOK, TakeIndex
<1>6. ASSUME NEW t \in Task, LockNodes(t) PROVE TypeOK' /\ LocalsOK'
  BY <1>6 DEF TypeOK, LocalsOK, LockNodes
<1>7. ASSUME NEW t \in Task, RoundRobinPick(t) PROVE TypeOK' /\ LocalsOK'
  <2>1. idx[t] + 1 \in 1..Len(active_nodelist) /\ 0 \in 0..IndexCap
    BY <1>7, CapAssumption DEF TypeOK, RoundRobinPick
  <2>2. active_nodelist[idx[t] + 1].id \in Node
    BY <2>1, EntryAt DEF TypeOK
  <2> QED BY <1>7, <2>1, <2>2 DEF TypeOK, LocalsOK, RoundRobinPick
<1>8. ASSUME NEW t \in Task, RoundRobinExhausted(t) PROVE TypeOK' /\ LocalsOK'
  <2>1. 0 \in 0..IndexCap
    BY CapAssumption
  <2> QED BY <1>8, <2>1 DEF TypeOK, LocalsOK, RoundRobinExhausted
<1>9. ASSUME NEW t \in Task, PrepareSkip(t) PROVE TypeOK' /\ LocalsOK'
  BY <1>9, TornTypes DEF TypeOK, LocalsOK, PrepareSkip
<1>10. ASSUME NEW t \in Task, PrepareBegin(t) PROVE TypeOK' /\ LocalsOK'
  BY <1>10 DEF TypeOK, LocalsOK, PrepareBegin
<1>11. ASSUME NEW t \in Task, CloneNodes(t) PROVE TypeOK' /\ LocalsOK'
  <2>1. torn' \in [Task -> SUBSET Kinds] /\ disturbed' \in BOOLEAN
    BY <1>0, <1>11, TornTypes DEF CloneNodes
  <2> QED BY <1>11, <2>1 DEF TypeOK, LocalsOK, CloneNodes
<1>12. ASSUME NEW t \in Task, SetFlag(t) PROVE TypeOK' /\ LocalsOK'
  BY <1>12, TornTypes DEF TypeOK, LocalsOK, SetFlag
<1>13. ASSUME NEW t \in Task, CheckFlag(t) PROVE TypeOK' /\ LocalsOK'
  <2>1. torn' \in [Task -> SUBSET Kinds]
    BY <1>13, TornTypes DEF CheckFlag
  <2> QED BY <1>13, <2>1 DEF TypeOK, LocalsOK, CheckFlag
<1>14. ASSUME NEW t \in Task, ReadNodes(t) PROVE TypeOK' /\ LocalsOK'
  BY <1>14 DEF TypeOK, LocalsOK, ReadNodes
<1>15. ASSUME NEW t \in Task, DrawNothing(t) PROVE TypeOK' /\ LocalsOK'
  BY <1>15, TornTypes, SMTT(20) DEF TypeOK, LocalsOK, DrawNothing, DrawEnds
<1>16. ASSUME NEW t \in Task, DrawUniform(t) PROVE TypeOK' /\ LocalsOK'
  <2>1. PICK i \in 1..Len(snap[t]) : chosen' = [chosen EXCEPT ![t] = snap[t][i].id]
    BY <1>16 DEF DrawUniform
  <2>2. snap[t][i].id \in Node
    BY EntryAt DEF TypeOK
  <2>3. /\ chosen' \in [Task -> Node \cup {None}]
        /\ chosen'[t] \in Node
        /\ \A u \in Task \ {t} : chosen'[u] = chosen[u]
    BY <2>1, <2>2 DEF TypeOK
  <2>4. disturbed' \in BOOLEAN /\ torn' \in [Task -> SUBSET Kinds]
    BY <1>0, <1>16, TornTypes DEF DrawUniform
  <2> QED BY <1>16, <2>3, <2>4 DEF TypeOK, LocalsOK, DrawUniform, CanDraw
<1>17. ASSUME NEW t \in Task, DrawWeighted(t) PROVE TypeOK' /\ LocalsOK'
  <2>0. /\ torn' \in [Task -> SUBSET Kinds]
        /\ snap' = [snap EXCEPT ![t] = <<>>]
        /\ UNCHANGED <<latest, overtaken, disturbed, refreshes>>
    BY <1>17, TornTypes DEF DrawWeighted, DrawEnds
  <2>1. CASE pc' = [pc EXCEPT ![t] = "indexPanic"] /\ UNCHANGED chosen
    BY <1>17, <2>0, <2>1, SMTT(20) DEF TypeOK, LocalsOK, DrawWeighted, CanDraw
  <2>2. CASE pc' = [pc EXCEPT ![t] = "http"]
    <3>1. PICK i \in 0..Len(load_distribution_commulative_bias) :
             i < Len(snap[t]) /\ chosen' = [chosen EXCEPT ![t] = snap[t][i + 1].id]
      BY <1>17, <2>2 DEF TypeOK, DrawWeighted, CanDraw, BinarySearch
    <3>2. snap[t][i + 1].id \in Node
      BY <3>1, EntryAt DEF TypeOK
    <3>3. /\ chosen' \in [Task -> Node \cup {None}]
          /\ chosen'[t] \in Node
          /\ \A u \in Task \ {t} : chosen'[u] = chosen[u]
      BY <3>1, <3>2 DEF TypeOK
    <3> QED BY <1>17, <2>0, <2>2, <3>3, SMTT(20)
            DEF TypeOK, LocalsOK, DrawWeighted, CanDraw
  <2> QED BY <1>17, <2>1, <2>2 DEF DrawWeighted
<1>18. ASSUME NEW t \in Task, DrawEmptyRange(t) PROVE TypeOK' /\ LocalsOK'
  BY <1>18, TornTypes DEF TypeOK, LocalsOK, DrawEmptyRange, DrawEnds, CanDraw
<1>19. ASSUME NEW t \in Task, ResetIndex(t) PROVE TypeOK' /\ LocalsOK'
  BY <1>19, CapAssumption DEF TypeOK, LocalsOK, ResetIndex
<1>20. ASSUME NEW t \in Task, ResetFlag(t) PROVE TypeOK' /\ LocalsOK'
  BY <1>20 DEF TypeOK, LocalsOK, ResetFlag
<1>21. ASSUME NEW t \in Task, HttpDone(t) PROVE TypeOK' /\ LocalsOK'
  BY <1>21, RttsAssumption DEF TypeOK, LocalsOK, HttpDone
<1>22. ASSUME NEW t \in Task, TripWrite(t) PROVE TypeOK' /\ LocalsOK'
  BY <1>22 DEF TypeOK, LocalsOK, TripWrite
<1>23. ASSUME NEW t \in Task, Fail(t) PROVE TypeOK' /\ LocalsOK'
  BY <1>23 DEF TypeOK, LocalsOK, Fail
<1>24. ASSUME NEW t \in Task, SortAndWeigh(t) PROVE TypeOK' /\ LocalsOK'
  <2>1. snap[t] \in Seq(Entry)
    BY DEF TypeOK
  <2>2. PICK p \in Orders(Len(snap[t])) :
           snap' = [snap EXCEPT ![t] = Weighed(snap[t], p)]
    BY <1>24 DEF SortAndWeigh
  <2>3. Weighed(snap[t], p) \in Seq(Entry) /\ Weighted(Weighed(snap[t], p))
    BY <2>1, WeighedType
  <2> QED BY <1>24, <2>2, <2>3 DEF TypeOK, LocalsOK, SortAndWeigh
<1>25. ASSUME NEW t \in Task, StoreNodes(t) PROVE TypeOK' /\ LocalsOK'
  BY <1>25 DEF TypeOK, LocalsOK, StoreNodes
<1>26. ASSUME NEW t \in Task, StoreBias(t) PROVE TypeOK' /\ LocalsOK'
  <2>1. Cumulative(snap[t]) \in Seq(Int)
    BY <1>26, CumulativeIsRunningSum DEF TypeOK, LocalsOK, StoreBias
  <2> QED BY <1>26, <2>1 DEF TypeOK, LocalsOK, StoreBias
<1>27. ASSUME NEW l \in Lists, InstallNodes(l) PROVE TypeOK' /\ LocalsOK'
  <2>1. torn' \in [Task -> SUBSET Kinds]
    BY <1>0, <1>27, TornTypes DEF InstallNodes, TornBy, TypeOK
  <2> QED BY <1>27, <2>1, FreshType, RefreshAssumption DEF TypeOK, LocalsOK, InstallNodes
<1>28. ASSUME Refresh PROVE TypeOK' /\ LocalsOK'
  <2>1. CASE RefreshIndex
    BY <2>1, CapAssumption DEF TypeOK, LocalsOK, RefreshIndex
  <2>2. CASE RefreshFlag
    BY <2>2 DEF TypeOK, LocalsOK, RefreshFlag
  <2>3. CASE RefreshBias
    BY <2>3 DEF TypeOK, LocalsOK, RefreshBias
  <2>4. CASE RefreshTrips
    BY <2>4 DEF TypeOK, LocalsOK, RefreshTrips
  <2> QED BY <1>28, <2>1, <2>2, <2>3, <2>4 DEF Refresh
<1>29. ASSUME Listen PROVE TypeOK' /\ LocalsOK'
  BY <1>29 DEF TypeOK, LocalsOK, Listen
<1>30. ASSUME NEW t \in Task, HangUp(t) PROVE TypeOK' /\ LocalsOK'
  <2>1. 0 \in 0..IndexCap
    BY CapAssumption
  <2> QED BY <1>30, <2>1, TornTypes DEF TypeOK, LocalsOK, HangUp, Awaiting
<1>31. CASE UNCHANGED vars
  BY <1>31 DEF TypeOK, LocalsOK, vars
<1> QED
  BY <1>1, <1>2, <1>3, <1>4, <1>5, <1>6, <1>7, <1>8, <1>9, <1>10, <1>11,
     <1>12, <1>13, <1>14, <1>15, <1>16, <1>17, <1>18, <1>19, <1>20, <1>21,
     <1>22, <1>23, <1>24, <1>25, <1>26, <1>27, <1>28, <1>29, <1>30,
     <1>31
  DEF Next, Request, Select

LEMMA TypeInit == Init => TypeOK /\ LocalsOK
<1> SUFFICES ASSUME Init PROVE TypeOK /\ LocalsOK
  OBVIOUS
<1>1. LocalsOK
  BY DEF Init, LocalsOK, Unsetting, Storing
<1>2. <<>> \in Seq(Entry) /\ <<>> \in Seq(Int) /\ <<>> \in Seq(Node)
  OBVIOUS
<1>3. 0 \in 0..IndexCap /\ 0 \in 0..MaxRefresh
  BY CapAssumption, RefreshAssumption
<1>4. pc \in [Task -> Labels]
  BY DEF Init, Labels
<1> QED BY <1>1, <1>2, <1>3, <1>4 DEF Init, TypeOK

\* The fields of the balancer and the locals of its requests keep their types,
\* so that no index or weight it computes with is missing.
THEOREM TypeCorrect == Spec => []TypeOK
<1>1. Spec => [](TypeOK /\ LocalsOK)
  BY TypeInit, TypeStep, PTL DEF Spec
<1> QED BY <1>1, PTL

-----------------------------------------------------------------------------
(* The locks *)

\* A read guard is held where the code holds it, and nowhere else.
GuardsHeld ==
    /\ nodeGuard = {t \in Task : pc[t] = "roundRobin"}
    /\ biasGuard = {t \in Task : pc[t] = "compareLengths"}

\* What a step of t may do to the guards: t's own alone.
GuardsMove(t) ==
    /\ nodeGuard' = IF pc'[t] = "roundRobin" THEN nodeGuard \cup {t} ELSE nodeGuard \ {t}
    /\ biasGuard' = IF pc'[t] = "compareLengths" THEN biasGuard \cup {t} ELSE biasGuard \ {t}
    /\ \A u \in Task \ {t} : pc'[u] = pc[u]

LEMMA RequestMovesGuards ==
  ASSUME TypeOK, GuardsHeld, NEW t \in Task, Request(t)
  PROVE  GuardsMove(t)
<1> USE DEF TypeOK, GuardsHeld, GuardsMove, Goto, shared, guards, locals, history
<1>1. CASE Arrive(t)
  BY <1>1 DEF Arrive
<1>2. CASE LoadFlag(t)
  BY <1>2 DEF LoadFlag
<1>3. CASE LockBias(t)
  BY <1>3 DEF LockBias
<1>4. CASE CompareLengths(t)
  BY <1>4 DEF CompareLengths
<1>5. CASE TakeIndex(t)
  BY <1>5 DEF TakeIndex
<1>6. CASE LockNodes(t)
  BY <1>6 DEF LockNodes
<1>7. CASE RoundRobinPick(t)
  BY <1>7 DEF RoundRobinPick
<1>8. CASE RoundRobinExhausted(t)
  BY <1>8 DEF RoundRobinExhausted
<1>9. CASE PrepareSkip(t)
  BY <1>9 DEF PrepareSkip
<1>10. CASE PrepareBegin(t)
  BY <1>10 DEF PrepareBegin
<1>11. CASE CloneNodes(t)
  BY <1>11 DEF CloneNodes
<1>12. CASE SortAndWeigh(t)
  BY <1>12 DEF SortAndWeigh
<1>13. CASE StoreNodes(t)
  BY <1>13 DEF StoreNodes
<1>14. CASE StoreBias(t)
  BY <1>14 DEF StoreBias
<1>15. CASE SetFlag(t)
  BY <1>15 DEF SetFlag
<1>16. CASE CheckFlag(t)
  BY <1>16 DEF CheckFlag
<1>17. CASE ReadNodes(t)
  BY <1>17 DEF ReadNodes
<1>18. CASE DrawNothing(t)
  BY <1>18 DEF DrawNothing, DrawEnds
<1>19. CASE DrawUniform(t)
  BY <1>19 DEF DrawUniform, CanDraw
<1>20. CASE DrawWeighted(t)
  BY <1>20 DEF DrawWeighted, CanDraw, DrawEnds
<1>21. CASE DrawEmptyRange(t)
  BY <1>21 DEF DrawEmptyRange, CanDraw, DrawEnds
<1>22. CASE ResetIndex(t)
  BY <1>22 DEF ResetIndex
<1>23. CASE ResetFlag(t)
  BY <1>23 DEF ResetFlag
<1>24. CASE HttpDone(t)
  BY <1>24 DEF HttpDone
<1>25. CASE TripWrite(t)
  BY <1>25 DEF TripWrite
<1>26. CASE Fail(t)
  BY <1>26 DEF Fail, Failed
<1>27. CASE HangUp(t)
  BY <1>27 DEF HangUp, Awaiting
<1> QED
  BY <1>1, <1>2, <1>3, <1>4, <1>5, <1>6, <1>7, <1>8, <1>9, <1>10, <1>11, <1>12,
     <1>13, <1>14, <1>15, <1>16, <1>17, <1>18, <1>19, <1>20, <1>21, <1>22,
     <1>23, <1>24, <1>25, <1>26, <1>27
  DEF Request, Select

LEMMA GuardsStep == TypeOK /\ GuardsHeld /\ [Next]_vars => GuardsHeld'
<1> SUFFICES ASSUME TypeOK, GuardsHeld, [Next]_vars PROVE GuardsHeld'
  OBVIOUS
<1>1. ASSUME NEW t \in Task, Request(t) PROVE GuardsHeld'
  <2>1. GuardsMove(t)
    BY <1>1, RequestMovesGuards
  <2> QED BY <2>1 DEF GuardsMove, GuardsHeld
<1>2. ASSUME NEW l \in Lists, InstallNodes(l) PROVE GuardsHeld'
  BY <1>2 DEF InstallNodes, GuardsHeld, guards
<1>3. ASSUME Refresh PROVE GuardsHeld'
  BY <1>3 DEF Refresh, RefreshIndex, RefreshFlag, RefreshBias, RefreshTrips, GuardsHeld, guards
<1>4. ASSUME Listen \/ UNCHANGED vars PROVE GuardsHeld'
  BY <1>4 DEF Listen, vars, GuardsHeld, guards
<1> QED BY <1>1, <1>2, <1>3, <1>4 DEF Next

\* A request waits for a write lock (StoreNodes, StoreBias) with no read guard of its
\* own, and whoever holds one is at the step that gives it back: drop(nodes) comes
\* before prepare_list, the bias guard ends with the comparison of the lengths, and
\* a dropped handler drops its guards.  SelectionEnds rests on this.
THEOREM NobodyWaitsHolding == Spec => []GuardsHeld
<1>1. Init => GuardsHeld
  BY DEF Init, GuardsHeld
<1> QED BY <1>1, TypeInit, TypeStep, GuardsStep, PTL DEF Spec

-----------------------------------------------------------------------------
(* The list and its weights, as long as no two rewrites overlap *)

LEMMA FreshReorders ==
  ASSUME NEW l \in Lists
  PROVE  Reorders(Fresh(l), l)
<1>1. [i \in 1..Len(l) |-> i] \in Orders(Len(l))
  BY DEF Orders
<1>2. \A i \in 1..Len(l) : Fresh(l)[i].id = l[i]
  BY DEF Fresh, Consensor
<1>3. Len(Fresh(l)) = Len(l)
  BY FreshType
<1> QED BY <1>1, <1>2, <1>3 DEF Reorders

\* Sorting a reordered list reorders it again.
LEMMA WeighedReorders ==
  ASSUME TypeOK, NEW nodes \in Seq(Entry), NEW l \in Seq(Node), Reorders(nodes, l),
         NEW p \in Orders(Len(nodes))
  PROVE  Reorders(Weighed(nodes, p), l)
<1>1. PICK q \in Orders(Len(l)) : \A i \in 1..Len(l) : nodes[i].id = l[q[i]]
  BY DEF Reorders
<1>2. Len(nodes) = Len(l) /\ Len(Weighed(nodes, p)) = Len(l)
  BY WeighedType DEF Reorders
<1> DEFINE r == [i \in 1..Len(l) |-> q[p[i]]]
<1>3. p \in [1..Len(l) -> 1..Len(l)] /\ q \in [1..Len(l) -> 1..Len(l)]
  BY <1>1, <1>2 DEF Orders
<1>4. r \in Orders(Len(l))
  <2>1. r \in [1..Len(l) -> 1..Len(l)]
    BY <1>3
  <2>2. ASSUME NEW i \in 1..Len(l), NEW j \in 1..Len(l), r[i] = r[j] PROVE i = j
    <3>1. p[i] = p[j]
      BY <1>1, <1>3, <2>2 DEF Orders
    <3> QED BY <1>2, <3>1 DEF Orders
  <2> QED BY <2>1, <2>2 DEF Orders
<1>5. ASSUME NEW i \in 1..Len(l) PROVE Weighed(nodes, p)[i].id = l[r[i]]
  <2>1. Weighed(nodes, p)[i].id = nodes[p[i]].id
    BY <1>2 DEF Weighed
  <2> QED BY <1>1, <1>3, <2>1
<1> QED BY <1>2, <1>4, <1>5 DEF Reorders

\* A task that copied the list and has not stored its copy.
Copying == {"sort", "storeNodes"}

\* Unless a refresh overtook such a task the served list, and every copy that may
\* take its place, is a reordering of the latest list.  Then a rewrite has run into
\* another one.
CopyInv ==
    /\ overtaken => disturbed
    /\ ~overtaken => /\ Reorders(active_nodelist, latest)
                     /\ \A t \in Task : pc[t] \in Copying => Reorders(snap[t], latest)

LEMMA CopyInit == Init => CopyInv
<1>1. <<>> \in Orders(0)
  BY DEF Orders
<1> QED BY <1>1 DEF Init, CopyInv, Reorders, Copying

\* A step that leaves the list alone, and every copy of it.
KeepsCopies ==
    /\ UNCHANGED <<active_nodelist, latest, overtaken>>
    /\ disturbed => disturbed'
    /\ \A t \in Task : pc'[t] \in Copying => pc'[t] = pc[t] /\ snap'[t] = snap[t]

\* The inductive invariant.  While rewrites have not disturbed there is one writer;
\* from its first store on its copy is the shared list; the refresher keeps
\* list_prepared unset until it is done.
AloneInv ==
    ~disturbed =>
      /\ \A t, u \in Writers : t = u
      /\ refresher # "idle" => Writers = {}
      /\ \A t \in Task :
           /\ pc[t] \in {"storeBias", "setFlag"} => snap[t] = active_nodelist
           /\ pc[t] = "setFlag" =>
                load_distribution_commulative_bias = Cumulative(active_nodelist)
      /\ refresher \in {"bias", "trips"} => ~list_prepared
      /\ WeightsMatchList

\* A step that leaves the list, its weights and every writer alone.
QuietStep ==
    /\ UNCHANGED <<active_nodelist, load_distribution_commulative_bias,
                   list_prepared, refresher, latest, overtaken, disturbed>>
    /\ \A t \in Task : \/ pc'[t] = pc[t] /\ snap'[t] = snap[t]
                       \/ /\ pc[t] \notin Preparing \cup Unsetting
                          /\ pc'[t] \notin Preparing \cup Unsetting

LEMMA QuietStepKeepsAloneInv ==
  ASSUME AloneInv, QuietStep
  PROVE  AloneInv'
<1>1. Writers' = Writers
  BY DEF QuietStep, Writers
<1> SUFFICES ASSUME ~disturbed
             PROVE  AloneInv'
  BY DEF AloneInv, QuietStep
<1>2. \A t \in Task : pc'[t] \in {"storeBias", "setFlag"}
                       => pc'[t] = pc[t] /\ snap'[t] = snap[t]
  BY DEF QuietStep, Preparing
<1>3. WeightsMatchList'
  BY <1>1 DEF AloneInv, QuietStep, WeightsMatchList
<1> QED BY <1>1, <1>2, <1>3 DEF AloneInv, QuietStep

LEMMA QuietActions ==
  ASSUME TypeOK, NEW t \in Task,
         \/ Arrive(t) \/ LoadFlag(t) \/ LockBias(t) \/ CompareLengths(t)
         \/ TakeIndex(t) \/ LockNodes(t) \/ RoundRobinPick(t) \/ RoundRobinExhausted(t)
         \/ PrepareSkip(t) \/ PrepareBegin(t) \/ CheckFlag(t) \/ ReadNodes(t)
         \/ DrawNothing(t) \/ DrawWeighted(t) \/ DrawEmptyRange(t) \/ HttpDone(t)
         \/ TripWrite(t) \/ Fail(t)
  PROVE  QuietStep
<1> USE DEF TypeOK, QuietStep, Goto, shared, guards, locals, history, Preparing,
            Unsetting
<1>1. CASE Arrive(t)
  BY <1>1 DEF Arrive
<1>2. CASE LoadFlag(t)
  BY <1>2 DEF LoadFlag
<1>3. CASE LockBias(t)
  BY <1>3 DEF LockBias
<1>4. CASE CompareLengths(t)
  BY <1>4 DEF CompareLengths
<1>5. CASE TakeIndex(t)
  BY <1>5 DEF TakeIndex
<1>6. CASE LockNodes(t)
  BY <1>6 DEF LockNodes
<1>7. CASE RoundRobinPick(t)
  BY <1>7 DEF RoundRobinPick
<1>8. CASE RoundRobinExhausted(t)
  BY <1>8 DEF RoundRobinExhausted
<1>9. CASE PrepareSkip(t)
  BY <1>9 DEF PrepareSkip
<1>10. CASE PrepareBegin(t)
  BY <1>10 DEF PrepareBegin
<1>11. CASE CheckFlag(t)
  BY <1>11 DEF CheckFlag
<1>12. CASE ReadNodes(t)
  BY <1>12 DEF ReadNodes
<1>13. CASE DrawNothing(t)
  BY <1>13 DEF DrawNothing, DrawEnds
<1>14. CASE DrawWeighted(t)
  BY <1>14 DEF DrawWeighted, CanDraw, DrawEnds
<1>15. CASE DrawEmptyRange(t)
  BY <1>15 DEF DrawEmptyRange, CanDraw, DrawEnds
<1>16. CASE HttpDone(t)
  BY <1>16 DEF HttpDone
<1>17. CASE TripWrite(t)
  BY <1>17 DEF TripWrite
<1>18. CASE Fail(t)
  BY <1>18 DEF Fail, Failed
<1> QED
  BY <1>1, <1>2, <1>3, <1>4, <1>5, <1>6, <1>7, <1>8, <1>9, <1>10, <1>11,
     <1>12, <1>13, <1>14, <1>15, <1>16, <1>17, <1>18

LEMMA NothingRewritten ==
  ASSUME NEW t \in Task, Rewrites(t) = {}, pc[t] \notin Preparing \cup Unsetting
  PROVE  refresher = "idle" /\ Writers = {}
  BY DEF Rewrites, Kinds, Writers

LEMMA AloneStep == TypeOK /\ AloneInv /\ [Next]_vars => AloneInv'
<1> SUFFICES ASSUME TypeOK, AloneInv, [Next]_vars PROVE AloneInv'
  OBVIOUS
<1> USE DEF Goto, shared, guards, locals, history, Preparing, Unsetting
<1>1. ASSUME NEW t \in Task, CloneNodes(t) PROVE AloneInv'
  <2> SUFFICES ASSUME ~disturbed' PROVE AloneInv'
    BY DEF AloneInv
  <2>1. ~disturbed /\ refresher = "idle" /\ Writers = {}
    BY <1>1, NothingRewritten DEF CloneNodes, EnterRewrite
  <2>2. Writers' = {t}
    BY <1>1, <2>1 DEF CloneNodes, Writers, TypeOK
  <2> QED BY <1>1, <2>1, <2>2 DEF AloneInv, CloneNodes, WeightsMatchList, TypeOK, Writers
<1>2. ASSUME NEW t \in Task, DrawUniform(t) PROVE AloneInv'
  <2> SUFFICES ASSUME ~disturbed' PROVE AloneInv'
    BY DEF AloneInv
  <2>1. ~disturbed /\ refresher = "idle" /\ Writers = {}
    BY <1>2, NothingRewritten DEF DrawUniform, EnterRewrite, CanDraw
  <2>2. Writers' = {t}
    BY <1>2, <2>1 DEF DrawUniform, Writers, TypeOK
  <2> QED BY <1>2, <2>1, <2>2 DEF AloneInv, DrawUniform, WeightsMatchList, TypeOK, Writers
<1>3. ASSUME NEW t \in Task, SortAndWeigh(t) PROVE AloneInv'
  <2>1. Writers' = Writers
    BY <1>3 DEF SortAndWeigh, Writers, TypeOK
  <2> QED BY <1>3, <2>1 DEF AloneInv, SortAndWeigh, WeightsMatchList, TypeOK
<1>4. ASSUME NEW t \in Task, StoreNodes(t) PROVE AloneInv'
  <2>1. Writers' = Writers /\ t \in Writers
    BY <1>4 DEF StoreNodes, Writers, TypeOK
  <2> QED BY <1>4, <2>1 DEF AloneInv, StoreNodes, WeightsMatchList, TypeOK, Writers
<1>5. ASSUME NEW t \in Task, StoreBias(t) PROVE AloneInv'
  <2>1. Writers' = Writers /\ t \in Writers
    BY <1>5 DEF StoreBias, Writers, TypeOK
  <2> QED BY <1>5, <2>1 DEF AloneInv, StoreBias, WeightsMatchList, TypeOK, Writers
<1>6. ASSUME NEW t \in Task, SetFlag(t) PROVE AloneInv'
  <2>1. Writers' = Writers \ {t} /\ t \in Writers
    BY <1>6 DEF SetFlag, Writers, TypeOK
  <2> QED BY <1>6, <2>1 DEF AloneInv, SetFlag, WeightsMatchList, TypeOK, Writers
<1>7. ASSUME NEW t \in Task, ResetIndex(t) PROVE AloneInv'
  <2>1. Writers' = Writers
    BY <1>7 DEF ResetIndex, Writers, TypeOK
  <2> QED BY <1>7, <2>1 DEF AloneInv, ResetIndex, WeightsMatchList, TypeOK
<1>8. ASSUME NEW t \in Task, ResetFlag(t) PROVE AloneInv'
  <2>1. Writers' = Writers \ {t} /\ t \in Writers
    BY <1>8 DEF ResetFlag, Writers, TypeOK
  <2> QED BY <1>8, <2>1 DEF AloneInv, ResetFlag, WeightsMatchList, TypeOK, Writers
<1>9. ASSUME NEW l \in Lists, InstallNodes(l) PROVE AloneInv'
  <2>1. Writers' = Writers
    BY <1>9 DEF InstallNodes, Writers
  <2> QED BY <1>9, <2>1 DEF AloneInv, InstallNodes, WeightsMatchList, Writers
<1>10. ASSUME Refresh PROVE AloneInv'
  <2>1. Writers' = Writers
    BY <1>10 DEF Refresh, RefreshIndex, RefreshFlag, RefreshBias, RefreshTrips, Writers
  <2>2. CASE RefreshIndex
    BY <2>1, <2>2 DEF AloneInv, RefreshIndex, WeightsMatchList
  <2>3. CASE RefreshFlag
    BY <2>1, <2>3 DEF AloneInv, RefreshFlag, WeightsMatchList
  <2>4. CASE RefreshBias
    BY <2>1, <2>4 DEF AloneInv, RefreshBias, WeightsMatchList, Writers
  <2>5. CASE RefreshTrips
    BY <2>1, <2>5 DEF AloneInv, RefreshTrips, WeightsMatchList
  <2> QED BY <1>10, <2>2, <2>3, <2>4, <2>5 DEF Refresh
<1>11. ASSUME NEW t \in Task, HangUp(t) PROVE AloneInv'
  <2>1. CASE t \in Writers
    BY <1>11, <2>1 DEF AloneInv, HangUp
  <2>2. CASE t \notin Writers
    <3>1. QuietStep
      BY <1>11, <2>2 DEF QuietStep, HangUp, Writers, TypeOK
    <3> QED BY <3>1, QuietStepKeepsAloneInv
  <2> QED BY <2>1, <2>2
<1>12. CASE Listen \/ UNCHANGED vars
  <2>1. QuietStep
    BY <1>12 DEF QuietStep, Listen, vars
  <2> QED BY <2>1, QuietStepKeepsAloneInv
<1> QED
  BY <1>1, <1>2, <1>3, <1>4, <1>5, <1>6, <1>7, <1>8, <1>9, <1>10, <1>11,
     <1>12, QuietActions, QuietStepKeepsAloneInv
  DEF Next, Request, Select

LEMMA CopyStep == TypeOK /\ CopyInv /\ [Next]_vars => CopyInv'
<1> SUFFICES ASSUME TypeOK, CopyInv, [Next]_vars PROVE CopyInv'
  OBVIOUS
<1> USE DEF Goto, shared, guards, locals, history
<1>1. ASSUME KeepsCopies PROVE CopyInv'
  BY <1>1 DEF CopyInv, KeepsCopies
<1>2. ASSUME NEW t \in Task, CloneNodes(t) PROVE CopyInv'
  BY <1>2 DEF CopyInv, Copying, CloneNodes, EnterRewrite, TypeOK
<1>3. ASSUME NEW t \in Task, SortAndWeigh(t) PROVE CopyInv'
  <2>1. PICK p \in Orders(Len(snap[t])) :
           snap' = [snap EXCEPT ![t] = Weighed(snap[t], p)]
    BY <1>3 DEF SortAndWeigh
  <2>2. ~overtaken => Reorders(snap[t], latest)
    BY <1>3 DEF CopyInv, Copying, SortAndWeigh
  <2>3. ~overtaken => Reorders(snap'[t], latest)
    BY <2>1, <2>2, WeighedReorders DEF TypeOK
  <2> QED BY <1>3, <2>1, <2>3 DEF CopyInv, Copying, SortAndWeigh, TypeOK
<1>4. ASSUME NEW t \in Task, StoreNodes(t) PROVE CopyInv'
  <2>1. ~overtaken => Reorders(active_nodelist', latest)
    BY <1>4 DEF CopyInv, Copying, StoreNodes
  <2> QED BY <1>4, <2>1 DEF CopyInv, Copying, StoreNodes, TypeOK
<1>5. ASSUME NEW l \in Lists, InstallNodes(l) PROVE CopyInv'
  <2>1. Reorders(active_nodelist', latest')
    BY <1>5, FreshReorders DEF InstallNodes
  <2>2. overtaken' => disturbed'
    BY <1>5 DEF InstallNodes, Writers, Preparing
  <2> QED BY <1>5, <2>1, <2>2 DEF CopyInv, Copying, InstallNodes
<1>6. ASSUME NEW t \in Task, DrawUniform(t) \/ StoreBias(t) \/ SetFlag(t) \/ ResetIndex(t)
                              \/ ResetFlag(t) \/ HangUp(t)
      PROVE  KeepsCopies
  <2>1. CASE DrawUniform(t)
    BY <2>1 DEF KeepsCopies, Copying, DrawUniform, EnterRewrite, CanDraw, TypeOK
  <2>2. CASE StoreBias(t)
    BY <2>2 DEF KeepsCopies, Copying, StoreBias, TypeOK
  <2>3. CASE SetFlag(t)
    BY <2>3 DEF KeepsCopies, Copying, SetFlag, TypeOK
  <2>4. CASE ResetIndex(t) \/ ResetFlag(t)
    BY <2>4 DEF KeepsCopies, Copying, ResetIndex, ResetFlag, TypeOK
  <2>5. CASE HangUp(t)
    BY <2>5 DEF KeepsCopies, Copying, HangUp, TypeOK
  <2> QED BY <1>6, <2>1, <2>2, <2>3, <2>4, <2>5
<1>7. ASSUME Refresh PROVE KeepsCopies
  BY <1>7 DEF KeepsCopies, Copying, Refresh, RefreshIndex, RefreshFlag, RefreshBias,
     RefreshTrips
<1>8. CASE Listen \/ UNCHANGED vars
  BY <1>1, <1>8 DEF KeepsCopies, Copying, Listen, vars
<1>9. ASSUME QuietStep PROVE KeepsCopies
  BY <1>9 DEF QuietStep, KeepsCopies, Copying, Preparing
<1> QED
  BY <1>1, <1>2, <1>3, <1>4, <1>5, <1>6, <1>7, <1>8, <1>9, QuietActions
  DEF Next, Request, Select

LEMMA AloneInit == Init => AloneInv
<1> SUFFICES ASSUME Init PROVE AloneInv
  OBVIOUS
<1>1. Writers = {}
  BY DEF Init, Writers, Preparing, Unsetting
<1> QED BY <1>1 DEF Init, AloneInv, WeightsMatchList

LEMMA AloneAlways == Spec => []AloneInv
<1>1. Spec => [](TypeOK /\ LocalsOK /\ AloneInv)
  BY TypeInit, TypeStep, AloneInit, AloneStep, PTL DEF Spec
<1> QED BY <1>1, PTL

LEMMA CopyAlways == Spec => [](TypeOK /\ CopyInv)
<1>1. Spec => [](TypeOK /\ LocalsOK /\ CopyInv)
  BY TypeInit, TypeStep, CopyInit, CopyStep, PTL DEF Spec
<1> QED BY <1>1, PTL

\* The list that requests are served from is a reordering of the one fetched last,
\* no node lost and none listed twice, unless a refresh overtook a prepare_list
\* between its copying and its storing of the list.
THEOREM LatestListServed == Spec => []ServesLatestList
<1>1. CopyInv => ServesLatestList
  BY DEF CopyInv, ServesLatestList
<1> QED BY <1>1, CopyAlways, PTL

\* Unless two rewrites disturbed, the weights a request draws with are the
\* running sums of the biases of the nodes it draws from.
THEOREM WeightsAligned == Spec => []AloneWeightsMatchList
<1>1. AloneInv => AloneWeightsMatchList
  BY DEF AloneInv, AloneWeightsMatchList
<1> QED BY <1>1, AloneAlways, PTL

=============================================================================
