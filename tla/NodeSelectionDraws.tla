-------------------------- MODULE NodeSelectionDraws --------------------------
(***************************************************************************)
(* Proofs about the draws of get_random_consensor_biased in NodeSelection: *)
(* when a request is refused, when an index is within the list, and which  *)
(* nodes it never reaches.                                                 *)
(***************************************************************************)
EXTENDS NodeSelectionProofs

-----------------------------------------------------------------------------
(* The order prepare_list leaves its list in *)

\* Every node has its bias, and none a larger one than a node before it.
Ranked(nodes) ==
    /\ Weighted(nodes)
    /\ \A i, j \in 1..Len(nodes) : i < j => nodes[j].rng_bias <= nodes[i].rng_bias

LEMMA SlowerEarnsLess ==
  ASSUME NEW a \in Nat, NEW b \in Nat, a <= b
  PROVE  calculate_bias(b) <= calculate_bias(a)
  BY TimeoutAssumption DEF calculate_bias

\* sort_by on the round trips ranks by the bias computed from them.
LEMMA SortedIsRanked ==
  ASSUME TypeOK, NEW nodes \in Seq(Entry), NEW p \in Orders(Len(nodes)),
         SortedByTrip(nodes, p)
  PROVE  Ranked(Weighed(nodes, p))
<1>1. Len(Weighed(nodes, p)) = Len(nodes) /\ Weighted(Weighed(nodes, p))
  BY WeighedType
<1>2. ASSUME NEW i \in 1..Len(nodes)
      PROVE  /\ RoundTrip(nodes[p[i]].id) \in Nat
             /\ Weighed(nodes, p)[i].rng_bias = calculate_bias(RoundTrip(nodes[p[i]].id))
  <2>1. p[i] \in 1..Len(nodes)
    BY DEF Orders
  <2>2. nodes[p[i]].id \in Node
    BY <2>1, EntryAt
  <2> QED BY <2>2, RoundTripIsNat DEF Weighed
<1>3. ASSUME NEW i \in 1..Len(nodes), NEW j \in 1..Len(nodes), i < j
      PROVE  Weighed(nodes, p)[j].rng_bias <= Weighed(nodes, p)[i].rng_bias
  <2>1. \/ RoundTrip(nodes[p[i]].id) < RoundTrip(nodes[p[j]].id)
        \/ RoundTrip(nodes[p[i]].id) = RoundTrip(nodes[p[j]].id)
    BY <1>3 DEF SortedByTrip
  <2>2. RoundTrip(nodes[p[i]].id) <= RoundTrip(nodes[p[j]].id)
    BY <1>2, <2>1
  <2> QED BY <1>2, <2>2, SlowerEarnsLess
<1> QED BY <1>1, <1>3 DEF Ranked

\* In a ranked list the sums fall from the first worthless node on.
LEMMA SumsFall ==
  ASSUME NEW nodes \in Seq(Entry), Ranked(nodes),
         NEW k \in 1..Len(nodes), nodes[k].rng_bias <= 0
  PROVE  \A m \in k..Len(nodes) : Cumulative(nodes)[m] <= Cumulative(nodes)[k]
<1> DEFINE sum == Cumulative(nodes)
           Bad == {m \in k..Len(nodes) : ~(sum[m] <= sum[k])}
<1>1. /\ sum \in Seq(Int)
      /\ Len(sum) = Len(nodes)
      /\ \A i \in 1..Len(nodes) :
            sum[i] = (IF i = 1 THEN 0 ELSE sum[i - 1]) + nodes[i].rng_bias
  BY CumulativeIsRunningSum DEF Ranked
<1> HIDE DEF sum
<1>2. \A i \in 1..Len(nodes) : sum[i] \in Int /\ nodes[i].rng_bias \in Int
  BY <1>1 DEF Ranked, Weighted
<1>3. SUFFICES ASSUME Bad # {} PROVE FALSE
  BY DEF sum
<1>4. PICK m \in Bad : \A j \in Bad : m <= j
  <2> HIDE DEF Bad
  <2>1. Bad \subseteq Nat
    BY DEF Bad
  <2> QED BY <1>3, <2>1, LeastElement
<1>5. m \in k..Len(nodes) /\ ~(sum[m] <= sum[k])
  BY <1>4
<1>6. m > k
  BY <1>2, <1>5
<1>7. m - 1 \in k..Len(nodes) /\ sum[m - 1] <= sum[k]
  BY <1>4, <1>6
<1>8. nodes[m].rng_bias <= 0
  BY <1>2, <1>5, <1>6 DEF Ranked
<1>9. sum[m] = sum[m - 1] + nodes[m].rng_bias
  BY <1>1, <1>5, <1>6
<1> QED BY <1>2, <1>5, <1>6, <1>7, <1>8, <1>9

\* A draw below the total lands on a place of the weight vector.
LEMMA DrawIsInside ==
  ASSUME NEW weights \in Seq(Int), Len(weights) > 0, NEW x \in Nat,
         x < 2 * weights[Len(weights)], NEW i \in BinarySearch(weights, x)
  PROVE  i \in 0..(Len(weights) - 1)
<1>1. weights[Len(weights)] \in Int
  OBVIOUS
<1>2. CASE i < Len(weights)
  BY <1>2 DEF BinarySearch
<1>3. CASE i = Len(weights)
  BY <1>1, <1>3 DEF BinarySearch
<1> QED BY <1>2, <1>3 DEF BinarySearch

\* It does not land on a node whose bias is not positive.
LEMMA DrawEarns ==
  ASSUME NEW nodes \in Seq(Entry), Ranked(nodes), Len(nodes) > 0, NEW x \in Nat,
         x < 2 * Cumulative(nodes)[Len(nodes)],
         NEW i \in BinarySearch(Cumulative(nodes), x)
  PROVE  i + 1 \in 1..Len(nodes) /\ nodes[i + 1].rng_bias > 0
<1> DEFINE sum == Cumulative(nodes)
<1>1. /\ sum \in Seq(Int)
      /\ Len(sum) = Len(nodes)
      /\ \A j \in 1..Len(nodes) :
            sum[j] = (IF j = 1 THEN 0 ELSE sum[j - 1]) + nodes[j].rng_bias
  BY CumulativeIsRunningSum DEF Ranked
<1>2. i \in 0..(Len(nodes) - 1)
  BY <1>1, DrawIsInside
<1>3. \/ 2 * sum[i + 1] = x
      \/ (i = 0 \/ 2 * sum[i] < x) /\ x < 2 * sum[i + 1]
  BY <1>1, <1>2 DEF BinarySearch
<1>4. ASSUME nodes[i + 1].rng_bias <= 0 PROVE sum[Len(nodes)] <= sum[i + 1]
  <2>1. Len(nodes) \in (i + 1)..Len(nodes) /\ i + 1 \in 1..Len(nodes)
    BY <1>2
  <2> QED BY <1>4, <2>1, SumsFall
<1> HIDE DEF sum
<1>5. /\ i + 1 \in 1..Len(nodes) /\ sum[i + 1] \in Int /\ sum[Len(nodes)] \in Int
      /\ nodes[i + 1].rng_bias \in Int
  BY <1>1, <1>2 DEF Ranked, Weighted
<1>6. CASE 2 * sum[i + 1] = x
  BY <1>4, <1>5, <1>6 DEF sum
<1>7. CASE (i = 0 \/ 2 * sum[i] < x) /\ x < 2 * sum[i + 1]
  <2>1. CASE i = 0
    BY <1>1, <1>5, <1>7, <2>1
  <2>2. CASE i # 0
    <3>1. sum[i + 1] = sum[i] + nodes[i + 1].rng_bias /\ sum[i] \in Int
      BY <1>1, <1>2, <2>2
    <3> QED BY <1>5, <1>7, <2>2, <3>1
  <2> QED BY <2>1, <2>2
<1> QED BY <1>3, <1>5, <1>6, <1>7

-----------------------------------------------------------------------------
(* What holds of a draw while nothing has disturbed it *)

\* A copy about to be stored is ranked.  A request that no refresh has overtaken
\* since it was let in looks at a list and at weights of the latest length; one that
\* nothing has overtaken looks at the list being served, and at its weights.
Steady(t) ==
    /\ pc[t] \in Storing => Ranked(snap[t])
    /\ pc[t] \in Drawing /\ "refresh" \notin torn[t] =>
          /\ refresher = "idle"
          /\ Len(load_distribution_commulative_bias) = Len(latest)
          /\ pc[t] = "draw" => Len(snap[t]) = Len(latest)
    /\ pc[t] \in Drawing /\ torn[t] = {} =>
          /\ Writers = {}
          /\ list_prepared
          /\ pc[t] = "draw" => snap[t] = active_nodelist

\* With no refresh under way the weights of a prepared list are of the latest length;
\* with no rewrite at all under way a prepared list is ranked.
SteadyWeights ==
    /\ list_prepared /\ refresher = "idle" =>
          Len(load_distribution_commulative_bias) = Len(latest)
    /\ list_prepared /\ refresher = "idle" /\ Writers = {} => Ranked(active_nodelist)

DrawInv == ~disturbed => SteadyWeights /\ \A t \in Task : Steady(t)

LEMMA DrawInit == Init => DrawInv
  BY DEF Init, DrawInv, SteadyWeights, Steady, Storing, Drawing

\* A step of one request that rewrites nothing.
Bystands(t) ==
    /\ UNCHANGED <<active_nodelist, load_distribution_commulative_bias, list_prepared,
                   refresher, latest, disturbed>>
    /\ \A u \in Task \ {t} : pc'[u] = pc[u] /\ snap'[u] = snap[u] /\ torn'[u] = torn[u]
    /\ Writers' = Writers

LEMMA BystandsKeeps ==
  ASSUME TypeOK, DrawInv, NEW t \in Task, Bystands(t), ~disturbed => Steady(t)'
  PROVE  DrawInv'
<1> SUFFICES ASSUME ~disturbed PROVE SteadyWeights' /\ \A u \in Task : Steady(u)'
  BY DEF DrawInv, Bystands
<1>1. SteadyWeights'
  BY DEF DrawInv, SteadyWeights, Bystands
<1>2. ASSUME NEW u \in Task, u # t PROVE Steady(u)'
  BY <1>2 DEF DrawInv, Steady, Bystands
<1> QED BY <1>1, <1>2

\* The actions of a request that rewrite nothing and leave it outside a draw.
Outside(t) ==
    \/ Arrive(t) \/ LoadFlag(t) \/ LockBias(t) \/ CompareLengths(t) \/ TakeIndex(t)
    \/ LockNodes(t) \/ RoundRobinPick(t) \/ RoundRobinExhausted(t) \/ PrepareSkip(t)
    \/ PrepareBegin(t) \/ DrawNothing(t) \/ DrawWeighted(t) \/ DrawEmptyRange(t)
    \/ HttpDone(t) \/ Fail(t)

LEMMA OutsideBystands ==
  ASSUME TypeOK, NEW t \in Task, Outside(t)
  PROVE  Bystands(t) /\ pc'[t] \notin Storing \cup Drawing
<1> USE DEF TypeOK, Bystands, Writers, Goto, shared, guards, locals, history, Preparing,
            Unsetting, Drawing, Storing
<1>1. CASE Arrive(t)
  BY <1>1 DEF Arrive
<1>2. CASE LoadFlag(t)
  BY <1>2 DEF LoadFlag, Look
<1>3. CASE LockBias(t)
  BY <1>3 DEF LockBias
<1>4. CASE CompareLengths(t)
  BY <1>4 DEF CompareLengths, LookAway
<1>5. CASE TakeIndex(t)
  BY <1>5 DEF TakeIndex
<1>6. CASE LockNodes(t)
  BY <1>6 DEF LockNodes
<1>7. CASE RoundRobinPick(t)
  BY <1>7 DEF RoundRobinPick
<1>8. CASE RoundRobinExhausted(t)
  BY <1>8 DEF RoundRobinExhausted
<1>9. CASE PrepareSkip(t)
  BY <1>9 DEF PrepareSkip, Look
<1>10. CASE PrepareBegin(t)
  BY <1>10 DEF PrepareBegin
<1>11. CASE DrawNothing(t)
  BY <1>11 DEF DrawNothing, DrawEnds, LookAway
<1>12. CASE DrawWeighted(t)
  BY <1>12 DEF DrawWeighted, CanDraw, DrawEnds, LookAway
<1>13. CASE DrawEmptyRange(t)
  BY <1>13 DEF DrawEmptyRange, CanDraw, DrawEnds, LookAway
<1>14. CASE HttpDone(t)
  BY <1>14 DEF HttpDone
<1>15. CASE Fail(t)
  BY <1>15 DEF Fail, Failed
<1> QED
  BY <1>1, <1>2, <1>3, <1>4, <1>5, <1>6, <1>7, <1>8, <1>9, <1>10, <1>11, <1>12,
     <1>13, <1>14, <1>15
  DEF Outside

LEMMA OutsideKeeps ==
  ASSUME TypeOK, DrawInv, NEW t \in Task, Outside(t)
  PROVE  DrawInv'
<1>1. Bystands(t) /\ pc'[t] \notin Storing \cup Drawing
  BY OutsideBystands
<1>2. Steady(t)'
  BY <1>1 DEF Steady, Storing, Drawing
<1> QED BY <1>1, <1>2, BystandsKeeps

\* A request is let in, and copies the list.
LEMMA LookingKeeps ==
  ASSUME TypeOK, CopyInv, DrawInv, NEW t \in Task, CheckFlag(t) \/ ReadNodes(t)
  PROVE  DrawInv'
<1> USE DEF Goto, shared, guards, locals, history
<1>1. Bystands(t)
  <2>1. CASE CheckFlag(t)
    BY <2>1 DEF Bystands, TypeOK, Writers, Preparing, Unsetting, CheckFlag, Look,
              LookAway
  <2>2. CASE ReadNodes(t)
    BY <2>2 DEF Bystands, TypeOK, Writers, Preparing, Unsetting, ReadNodes
  <2> QED BY <2>1, <2>2
<1> SUFFICES ASSUME ~disturbed PROVE Steady(t)'
  BY <1>1, BystandsKeeps
<1>2. CASE CheckFlag(t)
  <2>1. /\ pc'[t] \in {"readNodes", "refused"}
        /\ pc'[t] = "readNodes" => list_prepared /\ torn'[t] = Rewrites(t)
    BY <1>2 DEF TypeOK, CheckFlag, Look
  <2>2. "refresh" \notin Rewrites(t) => refresher = "idle"
    BY DEF Rewrites, Kinds
  <2>3. Rewrites(t) = {} => Writers = {}
    BY <1>2, NothingRewritten DEF CheckFlag, Preparing, Unsetting
  <2>4. list_prepared /\ refresher = "idle"
           => Len(load_distribution_commulative_bias) = Len(latest)
    BY DEF DrawInv, SteadyWeights
  <2> QED BY <1>1, <2>1, <2>2, <2>3, <2>4 DEF Steady, Bystands, Storing, Drawing
<1>3. CASE ReadNodes(t)
  <2>1. /\ pc[t] = "readNodes" /\ pc'[t] = "draw" /\ snap'[t] = active_nodelist
        /\ torn' = torn
    BY <1>3 DEF TypeOK, ReadNodes
  <2>2. Len(active_nodelist) = Len(latest)
    BY DEF CopyInv, Reorders
  <2> QED BY <1>1, <2>1, <2>2 DEF DrawInv, Steady, Bystands, Storing, Drawing
<1> QED BY <1>2, <1>3

\* A rewrite begins: whoever is drawing is torn.
LEMMA EnteringKeeps ==
  ASSUME TypeOK, DrawInv, NEW t \in Task, CloneNodes(t) \/ DrawUniform(t)
  PROVE  DrawInv'
<1> SUFFICES ASSUME ~disturbed' PROVE SteadyWeights' /\ \A u \in Task : Steady(u)'
  BY DEF DrawInv
<1> USE DEF Goto, shared, guards, locals, history
<1>1. ~disturbed
  BY DEF CloneNodes, DrawUniform, EnterRewrite
<1>2. /\ pc' = [pc EXCEPT ![t] = IF CloneNodes(t) THEN "sort" ELSE "resetIndex"]
      /\ \A u \in Task \ {t} : snap'[u] = snap[u]
      /\ \A u \in Task \ {t} : pc[u] \in Drawing =>
            torn'[u] \in {torn[u] \cup {"prepare"}, torn[u] \cup {"reset"}}
      /\ UNCHANGED <<active_nodelist, load_distribution_commulative_bias, list_prepared,
                     refresher, latest>>
  <2>1. CASE CloneNodes(t)
    BY <2>1 DEF TypeOK, CloneNodes, EnterRewrite, TornBy, Looking
  <2>2. CASE DrawUniform(t)
    <3>1. ~CloneNodes(t)
      BY <2>2 DEF CloneNodes, DrawUniform, CanDraw
    <3> QED BY <2>2, <3>1 DEF TypeOK, DrawUniform, CanDraw, EnterRewrite, TornBy,
                              Looking
  <2> QED BY <2>1, <2>2
<1>3. pc'[t] \in {"sort", "resetIndex"} /\ \A u \in Task \ {t} : pc'[u] = pc[u]
  BY <1>2 DEF TypeOK
<1>4. t \in Writers'
  BY <1>3 DEF Writers, Preparing, Unsetting
<1>5. SteadyWeights'
  BY <1>1, <1>2, <1>4 DEF DrawInv, SteadyWeights
<1>6. ASSUME NEW u \in Task PROVE Steady(u)'
  <2>1. CASE u = t
    BY <1>3, <2>1 DEF Steady, Storing, Drawing
  <2>2. CASE u # t
    BY <1>1, <1>2, <1>3, <2>2 DEF DrawInv, Steady
  <2> QED BY <2>1, <2>2
<1> QED BY <1>5, <1>6

\* While a rewrite is under way no open draw is untorn.
LEMMA WriterTears ==
  ASSUME DrawInv, ~disturbed, Writers # {}, NEW u \in Task, pc[u] \in Drawing
  PROVE  torn[u] # {}
  BY DEF DrawInv, Steady

\* The rest of prepare_list, and of the reset after a uniform draw.
LEMMA RewritingKeeps ==
  ASSUME TypeOK, LocalsOK, CopyInv, AloneInv, DrawInv, NEW t \in Task,
         \/ SortAndWeigh(t) \/ StoreNodes(t) \/ StoreBias(t) \/ SetFlag(t)
         \/ ResetIndex(t) \/ ResetFlag(t)
  PROVE  DrawInv'
<1> USE DEF Goto, shared, guards, locals, history
<1>1. /\ UNCHANGED <<disturbed, latest, refresher>>
      /\ \A u \in Task \ {t} : pc'[u] = pc[u] /\ snap'[u] = snap[u] /\ torn'[u] = torn[u]
  BY DEF TypeOK, SortAndWeigh, StoreNodes, StoreBias, SetFlag, Look, ResetIndex, ResetFlag
<1> SUFFICES ASSUME ~disturbed PROVE SteadyWeights' /\ \A u \in Task : Steady(u)'
  BY <1>1 DEF DrawInv
<1>2. t \in Writers
  BY DEF Writers, Preparing, Unsetting, SortAndWeigh, StoreNodes, StoreBias, SetFlag,
         ResetIndex, ResetFlag
<1>3. Writers = {t} /\ refresher = "idle"
  BY <1>2 DEF AloneInv, Writers
<1>4. \/ UNCHANGED load_distribution_commulative_bias
      \/ Len(load_distribution_commulative_bias') = Len(latest)
  <2>1. CASE StoreBias(t)
    <3>1. Len(snap[t]) = Len(latest)
      BY <2>1 DEF StoreBias, AloneInv, CopyInv, Reorders
    <3>2. snap[t] \in Seq(Entry) /\ Weighted(snap[t])
      BY <2>1 DEF StoreBias, TypeOK, LocalsOK, Storing
    <3>3. Len(Cumulative(snap[t])) = Len(latest)
      BY <3>1, <3>2, CumulativeIsRunningSum
    <3> QED BY <2>1, <3>3 DEF StoreBias
  <2>2. CASE ~StoreBias(t)
    BY <2>2 DEF SortAndWeigh, StoreNodes, SetFlag, ResetIndex, ResetFlag
  <2> QED BY <2>1, <2>2
<1>5. ASSUME NEW u \in Task, u # t PROVE Steady(u)'
  <2>1. pc[u] \in Drawing => torn[u] # {}
    BY <1>2, WriterTears
  <2>2. Steady(u)
    BY DEF DrawInv
  <2> QED BY <1>1, <1>3, <1>4, <1>5, <2>1, <2>2 DEF Steady
<1>6. CASE SortAndWeigh(t)
  <2>1. PICK p \in Orders(Len(snap[t])) :
           /\ SortedByTrip(snap[t], p)
           /\ snap' = [snap EXCEPT ![t] = Weighed(snap[t], p)]
    BY <1>6 DEF SortAndWeigh
  <2>2. Ranked(snap'[t])
    BY <2>1, SortedIsRanked DEF TypeOK
  <2>3. pc'[t] = "storeNodes"
    BY <1>6 DEF SortAndWeigh, TypeOK
  <2>4. Steady(t)'
    BY <2>2, <2>3 DEF Steady, Drawing
  <2>5. t \in Writers'
    BY <2>3 DEF Writers, Preparing
  <2>6. SteadyWeights'
    BY <1>1, <1>6, <2>5 DEF SortAndWeigh, DrawInv, SteadyWeights
  <2> QED BY <1>5, <2>4, <2>6
<1>7. CASE StoreNodes(t)
  <2>1. pc[t] = "storeNodes" /\ pc'[t] = "storeBias" /\ snap' = snap
    BY <1>7 DEF StoreNodes, TypeOK
  <2>2. Steady(t)'
    BY <2>1 DEF DrawInv, Steady, Storing, Drawing
  <2>3. t \in Writers'
    BY <2>1 DEF Writers, Preparing
  <2>4. SteadyWeights'
    BY <1>1, <1>7, <2>3 DEF StoreNodes, DrawInv, SteadyWeights
  <2> QED BY <1>5, <2>2, <2>4
<1>8. CASE StoreBias(t)
  <2>1. /\ pc[t] = "storeBias" /\ pc'[t] = "setFlag" /\ snap' = snap
    BY <1>8 DEF StoreBias, TypeOK
  <2>2. Steady(t)'
    BY <2>1 DEF DrawInv, Steady, Storing, Drawing
  <2>3. t \in Writers'
    BY <2>1 DEF Writers, Preparing
  <2>4. SteadyWeights'
    BY <1>1, <1>4, <1>8, <2>3 DEF StoreBias, DrawInv, SteadyWeights
  <2> QED BY <1>5, <2>2, <2>4
<1>9. CASE SetFlag(t)
  <2>1. pc[t] = "setFlag" /\ pc'[t] = "checkFlag"
    BY <1>9 DEF SetFlag, TypeOK
  <2>2. Steady(t)'
    BY <2>1 DEF Steady, Storing, Drawing
  <2>3. /\ Ranked(active_nodelist)
        /\ load_distribution_commulative_bias = Cumulative(active_nodelist)
    BY <2>1 DEF AloneInv, DrawInv, Steady, Storing
  <2>4. Len(load_distribution_commulative_bias) = Len(latest)
    <3>1. Len(active_nodelist) = Len(latest)
      BY DEF CopyInv, AloneInv, Reorders
    <3> QED BY <2>3, <3>1, CumulativeIsRunningSum DEF Ranked, TypeOK
  <2>5. SteadyWeights'
    BY <1>1, <1>3, <1>9, <2>3, <2>4 DEF SetFlag, DrawInv, SteadyWeights
  <2> QED BY <1>5, <2>2, <2>5
<1>10. CASE ResetIndex(t)
  <2>1. pc'[t] = "resetFlag"
    BY <1>10 DEF ResetIndex, TypeOK
  <2>2. Steady(t)'
    BY <2>1 DEF Steady, Storing, Drawing
  <2>3. t \in Writers'
    BY <2>1 DEF Writers, Unsetting
  <2>4. SteadyWeights'
    BY <1>1, <1>10, <2>3 DEF ResetIndex, DrawInv, SteadyWeights
  <2> QED BY <1>5, <2>2, <2>4
<1>11. CASE ResetFlag(t)
  <2>1. pc'[t] = "http"
    BY <1>11 DEF ResetFlag, TypeOK
  <2>2. Steady(t)'
    BY <2>1 DEF Steady, Storing, Drawing
  <2>3. SteadyWeights'
    BY <1>1, <1>3, <1>11 DEF ResetFlag, DrawInv, SteadyWeights
  <2> QED BY <1>5, <2>2, <2>3
<1> QED BY <1>6, <1>7, <1>8, <1>9, <1>10, <1>11

LEMMA HangUpKeeps ==
  ASSUME TypeOK, DrawInv, NEW t \in Task, HangUp(t)
  PROVE  DrawInv'
<1> SUFFICES ASSUME ~disturbed' PROVE SteadyWeights' /\ \A u \in Task : Steady(u)'
  BY DEF DrawInv
<1> USE DEF Goto, shared, guards, locals, history
<1>1. t \notin Writers /\ ~disturbed
  BY DEF HangUp
<1>2. Bystands(t) /\ pc'[t] = "idle"
  BY <1>1 DEF Bystands, HangUp, LookAway, TypeOK, Writers, Preparing, Unsetting
<1>3. Steady(t)'
  BY <1>2 DEF Steady, Storing, Drawing
<1>4. DrawInv'
  BY <1>2, <1>3, BystandsKeeps
<1> QED BY <1>4 DEF DrawInv

\* A refresh installs a list, under every open draw.
LEMMA InstallKeeps ==
  ASSUME TypeOK, NEW l \in Lists, InstallNodes(l)
  PROVE  DrawInv'
<1> SUFFICES ASSUME ~disturbed' PROVE SteadyWeights' /\ \A u \in Task : Steady(u)'
  BY DEF DrawInv
<1> USE DEF Goto, shared, guards, locals, history
<1>1. Writers = {} /\ refresher' = "index" /\ pc' = pc /\ torn' = TornBy("refresh")
  BY DEF InstallNodes
<1>2. SteadyWeights'
  BY <1>1 DEF SteadyWeights
<1>3. ASSUME NEW u \in Task PROVE Steady(u)'
  <2>1. pc[u] \notin Storing
    BY <1>1 DEF Writers, Storing, Preparing
  <2>2. pc[u] \in Drawing => "refresh" \in torn'[u]
    BY <1>1 DEF TornBy, Looking, TypeOK
  <2> QED BY <1>1, <2>1, <2>2 DEF Steady
<1> QED BY <1>2, <1>3

LEMMA RefreshKeeps ==
  ASSUME TypeOK, AloneInv, DrawInv, Refresh
  PROVE  DrawInv'
<1> USE DEF Goto, shared, guards, locals, history
<1>1. UNCHANGED <<disturbed, torn, latest, pc, snap, active_nodelist>> /\ refresher # "idle"
  BY DEF Refresh, RefreshIndex, RefreshFlag, RefreshBias, RefreshTrips
<1> SUFFICES ASSUME ~disturbed PROVE SteadyWeights' /\ \A u \in Task : Steady(u)'
  BY <1>1 DEF DrawInv
<1>2. ASSUME NEW u \in Task PROVE Steady(u)'
  <2>1. pc[u] \notin Storing
    BY <1>1 DEF AloneInv, Writers, Storing, Preparing
  <2>2. pc[u] \in Drawing => "refresh" \in torn[u]
    BY <1>1 DEF DrawInv, Steady
  <2> QED BY <1>1, <2>1, <2>2 DEF Steady
<1>3. SteadyWeights'
  <2>1. CASE RefreshIndex
    BY <2>1 DEF RefreshIndex, SteadyWeights
  <2>2. CASE RefreshFlag
    BY <2>2 DEF RefreshFlag, SteadyWeights
  <2>3. CASE RefreshBias
    BY <2>3 DEF RefreshBias, SteadyWeights
  <2>4. CASE RefreshTrips
    <3>1. ~list_prepared
      BY <2>4 DEF RefreshTrips, AloneInv
    <3> QED BY <2>4, <3>1 DEF RefreshTrips, SteadyWeights
  <2> QED BY <2>1, <2>2, <2>3, <2>4 DEF Refresh
<1> QED BY <1>2, <1>3

LEMMA DrawStep == TypeOK /\ LocalsOK /\ CopyInv /\ AloneInv /\ DrawInv /\ [Next]_vars => DrawInv'
<1> SUFFICES ASSUME TypeOK, LocalsOK, CopyInv, AloneInv, DrawInv, [Next]_vars
             PROVE  DrawInv'
  OBVIOUS
<1>1. ASSUME NEW t \in Task, Request(t) PROVE DrawInv'
  <2>1. CASE TripWrite(t)
    <3>1. Bystands(t)
      BY <2>1 DEF TripWrite, Bystands, Writers, guards, locals, history
    <3>2. UNCHANGED <<pc, snap, torn>>
      BY <2>1 DEF TripWrite, locals, history
    <3>3. ~disturbed => Steady(t)'
      BY <3>1, <3>2 DEF DrawInv, Steady, Bystands
    <3> QED BY <3>1, <3>3, BystandsKeeps
  <2>2. CASE ~TripWrite(t)
    BY <1>1, <2>2, OutsideKeeps, LookingKeeps, EnteringKeeps, RewritingKeeps, HangUpKeeps
    DEF Request, Select, Outside
  <2> QED BY <2>1, <2>2
<1>2. ASSUME NEW l \in Lists, InstallNodes(l) PROVE DrawInv'
  BY <1>2, InstallKeeps
<1>3. ASSUME Refresh PROVE DrawInv'
  BY <1>3, RefreshKeeps
<1>4. ASSUME Listen \/ UNCHANGED vars PROVE DrawInv'
  BY <1>4 DEF Listen, vars, shared, guards, locals, history, DrawInv, SteadyWeights, Steady,
              Writers
<1> QED BY <1>1, <1>2, <1>3, <1>4 DEF Next

-----------------------------------------------------------------------------
(* Being refused *)

\* From finding list_prepared set, or setting it, to looking at it again.
Relying == {"lockBias", "compareLengths", "checkFlag"}

\* The flag a request relies on is still set, and nobody is about to take it down,
\* unless the request has been torn by one who was.
FlagStands(t) ==
    pc[t] \in Relying /\ torn[t] \cap {"refresh", "reset"} = {} =>
        /\ list_prepared
        /\ refresher = "idle"
        /\ \A u \in Task \ {t} : pc[u] \notin Unsetting

FlagInv == \A t \in Task : FlagStands(t)

\* What a step of t does to the flag and to those that look at it.
FlagMoves(t) ==
    /\ refresher' = refresher
    /\ list_prepared /\ ~list_prepared' => pc[t] \in Unsetting
    /\ \A u \in Task \ {t} : pc'[u] = pc[u] /\ torn[u] \subseteq torn'[u]
    /\ pc'[t] \in Unsetting =>
          \/ pc[t] \in Unsetting
          \/ \A u \in Task \ {t} : pc[u] \in Relying => "reset" \in torn'[u]
    /\ pc'[t] \in Relying =>
          \/ pc[t] \in Relying /\ UNCHANGED <<list_prepared, torn>>
          \/ list_prepared' /\ torn'[t] = Rewrites(t)

LEMMA RequestMovesFlag ==
  ASSUME TypeOK, NEW t \in Task, Request(t)
  PROVE  FlagMoves(t)
<1> USE DEF TypeOK, FlagMoves, Relying, Looking, Drawing, Unsetting, Goto, shared, guards,
            locals, history
<1>1. CASE Arrive(t)
  BY <1>1 DEF Arrive
<1>2. CASE LoadFlag(t)
  BY <1>2 DEF LoadFlag, Look
<1>3. CASE LockBias(t)
  BY <1>3 DEF LockBias
<1>4. CASE CompareLengths(t)
  BY <1>4 DEF CompareLengths, LookAway
<1>5. CASE TakeIndex(t)
  BY <1>5 DEF TakeIndex
<1>6. CASE LockNodes(t)
  BY <1>6 DEF LockNodes
<1>7. CASE RoundRobinPick(t)
  BY <1>7 DEF RoundRobinPick
<1>8. CASE RoundRobinExhausted(t)
  BY <1>8 DEF RoundRobinExhausted
<1>9. CASE PrepareSkip(t)
  BY <1>9 DEF PrepareSkip, Look
<1>10. CASE PrepareBegin(t)
  BY <1>10 DEF PrepareBegin
<1>11. CASE CloneNodes(t)
  BY <1>11 DEF CloneNodes, EnterRewrite, TornBy
<1>12. CASE SortAndWeigh(t)
  BY <1>12 DEF SortAndWeigh
<1>13. CASE StoreNodes(t)
  BY <1>13 DEF StoreNodes
<1>14. CASE StoreBias(t)
  BY <1>14 DEF StoreBias
<1>15. CASE SetFlag(t)
  BY <1>15 DEF SetFlag, Look
<1>16. CASE CheckFlag(t)
  BY <1>16 DEF CheckFlag, Look, LookAway
<1>17. CASE ReadNodes(t)
  BY <1>17 DEF ReadNodes
<1>18. CASE DrawNothing(t)
  BY <1>18 DEF DrawNothing, DrawEnds, LookAway
<1>19. CASE DrawUniform(t)
  BY <1>19 DEF DrawUniform, CanDraw, EnterRewrite, TornBy
<1>20. CASE DrawWeighted(t)
  BY <1>20 DEF DrawWeighted, CanDraw, DrawEnds, LookAway
<1>21. CASE DrawEmptyRange(t)
  BY <1>21 DEF DrawEmptyRange, CanDraw, DrawEnds, LookAway
<1>22. CASE ResetIndex(t)
  BY <1>22 DEF ResetIndex
<1>23. CASE ResetFlag(t)
  BY <1>23 DEF ResetFlag
<1>24. CASE HttpDone(t)
  BY <1>24 DEF HttpDone
<1>25. CASE TripWrite(t)
  BY <1>25 DEF TripWrite
<1>26. CASE Fail(t)
  BY <1>26 DEF Fail, Failed
<1>27. CASE HangUp(t)
  BY <1>27 DEF HangUp, Awaiting, LookAway
<1> QED
  BY <1>1, <1>2, <1>3, <1>4, <1>5, <1>6, <1>7, <1>8, <1>9, <1>10, <1>11, <1>12,
     <1>13, <1>14, <1>15, <1>16, <1>17, <1>18, <1>19, <1>20, <1>21, <1>22,
     <1>23, <1>24, <1>25, <1>26, <1>27
  DEF Request, Select

LEMMA FlagStep == TypeOK /\ FlagInv /\ [Next]_vars => FlagInv'
<1> SUFFICES ASSUME TypeOK, FlagInv, [Next]_vars PROVE FlagInv'
  OBVIOUS
<1>1. ASSUME NEW t \in Task, Request(t), NEW u \in Task PROVE FlagStands(u)'
  <2>1. FlagMoves(t)
    BY <1>1, RequestMovesFlag
  <2>2. CASE u # t
    BY <2>1, <2>2 DEF FlagMoves, FlagInv, FlagStands
  <2>3. CASE u = t /\ list_prepared' /\ torn'[t] = Rewrites(t)
    <3>1. torn'[t] \cap {"refresh", "reset"} = {} =>
             refresher = "idle" /\ \A v \in Task \ {t} : pc[v] \notin Unsetting
      BY <2>3 DEF Rewrites, Kinds
    <3> QED BY <2>1, <2>3, <3>1 DEF FlagMoves, FlagStands
  <2>4. CASE u = t /\ ~(list_prepared' /\ torn'[t] = Rewrites(t))
    BY <2>1, <2>4 DEF FlagMoves, FlagInv, FlagStands
  <2> QED BY <2>2, <2>3, <2>4
<1>2. ASSUME NEW l \in Lists, InstallNodes(l), NEW u \in Task PROVE FlagStands(u)'
  BY <1>2 DEF InstallNodes, TornBy, Looking, Relying, FlagStands
<1>3. ASSUME Refresh, NEW u \in Task PROVE FlagStands(u)'
  BY <1>3 DEF Refresh, RefreshIndex, RefreshFlag, RefreshBias, RefreshTrips, history,
     FlagInv, FlagStands
<1>4. ASSUME Listen \/ UNCHANGED vars PROVE FlagInv'
  BY <1>4 DEF Listen, vars, shared, history, FlagInv, FlagStands
<1> QED BY <1>1, <1>2, <1>3, <1>4 DEF Next, FlagInv

LEMMA FlagAlways == Spec => []FlagInv
<1>1. Init => FlagInv
  BY DEF Init, FlagInv, FlagStands, Relying
<1> QED BY <1>1, TypeInit, TypeStep, FlagStep, PTL DEF Spec

\* Only its own steps move a request.
LEMMA OwnStep ==
  ASSUME TypeOK, [Next]_vars, NEW t \in Task, pc'[t] # pc[t]
  PROVE  Request(t)
<1>1. \E u \in Task : Request(u)
  BY DEF Next, InstallNodes, Refresh, RefreshIndex, RefreshFlag, RefreshBias,
     RefreshTrips, Listen, vars
<1>2. ASSUME NEW u \in Task, Request(u) PROVE u = t
  BY <1>2, RequestMovesFlag DEF FlagMoves
<1> QED BY <1>1, <1>2

-----------------------------------------------------------------------------
(* The draws *)

DrawsSoundly == TypeOK /\ LocalsOK /\ CopyInv /\ AloneInv /\ DrawInv

LEMMA DrawsAlways == Spec => []DrawsSoundly
  BY TypeInit, TypeStep, CopyInit, CopyStep, AloneInit, AloneStep, DrawInit, DrawStep, PTL
  DEF Spec, DrawsSoundly

\* What a weighted draw of t does.
LEMMA WeightedDraw ==
  ASSUME TypeOK, NEW t \in Task, DrawWeighted(t)
  PROVE  /\ load_distribution_commulative_bias # <<>>
         /\ \E x \in Nat, i \in Nat :
              /\ x < 2 * total_bias
              /\ i \in BinarySearch(load_distribution_commulative_bias, x)
              /\ i < Len(snap[t]) =>
                   chosen'[t] = snap[t][i + 1].id /\ pc'[t] = "http"
              /\ ~(i < Len(snap[t])) => pc'[t] = "indexPanic"
<1> USE DEF Goto
<1> DEFINE weights == load_distribution_commulative_bias
<1>1. weights \in Seq(Int) /\ weights # <<>>
  BY DEF TypeOK, DrawWeighted, CanDraw
<1>2. total_bias \in Int
  BY <1>1 DEF total_bias
<1>3. PICK x \in 0..(2 * total_bias - 1) :
        \E i \in BinarySearch(weights, x) :
           IF i < Len(snap[t])
             THEN /\ chosen' = [chosen EXCEPT ![t] = snap[t][i + 1].id]
                  /\ pc' = [pc EXCEPT ![t] = "http"]
             ELSE pc' = [pc EXCEPT ![t] = "indexPanic"]
  BY DEF DrawWeighted
<1>4. PICK i \in BinarySearch(weights, x) :
           IF i < Len(snap[t])
             THEN /\ chosen' = [chosen EXCEPT ![t] = snap[t][i + 1].id]
                  /\ pc' = [pc EXCEPT ![t] = "http"]
             ELSE pc' = [pc EXCEPT ![t] = "indexPanic"]
  BY <1>3
<1>5. x \in Nat /\ x < 2 * total_bias /\ i \in Nat
  BY <1>1, <1>2, <1>3, <1>4 DEF BinarySearch
<1> HIDE DEF weights
<1>6. /\ i < Len(snap[t]) => chosen'[t] = snap[t][i + 1].id /\ pc'[t] = "http"
      /\ ~(i < Len(snap[t])) => pc'[t] = "indexPanic"
  BY <1>4 DEF TypeOK
<1> QED BY <1>1, <1>4, <1>5, <1>6 DEF weights

\* The only steps out of a draw that end in a panic or in a call.
LEMMA DrawIsWeighted ==
  ASSUME TypeOK, [Next]_vars, NEW t \in Task, pc[t] = "draw",
         pc'[t] \in {"indexPanic", "http"}
  PROVE  DrawWeighted(t)
<1>1. Request(t)
  BY OwnStep
<1>2. ~(DrawNothing(t) \/ DrawUniform(t) \/ DrawEmptyRange(t) \/ TripWrite(t) \/ HangUp(t))
  BY DEF TypeOK, Goto, DrawNothing, DrawUniform, DrawEmptyRange, CanDraw, TripWrite, HangUp
<1> QED
  BY <1>1, <1>2
  DEF Request, Select, Arrive, LoadFlag, LockBias, CompareLengths, TakeIndex, LockNodes,
      RoundRobinPick, RoundRobinExhausted, PrepareSkip, PrepareBegin, CloneNodes,
      SortAndWeigh, StoreNodes, StoreBias, SetFlag, CheckFlag, ReadNodes, ResetIndex,
      ResetFlag, HttpDone, Fail, Failed

LEMMA PanicStep ==
  ASSUME DrawsSoundly, [Next]_vars, NEW t \in Task, pc[t] = "draw", pc'[t] = "indexPanic"
  PROVE  "refresh" \in torn[t] \/ disturbed
<1> DEFINE weights == load_distribution_commulative_bias
<1> SUFFICES ASSUME "refresh" \notin torn[t], ~disturbed PROVE FALSE
  OBVIOUS
<1>1. DrawWeighted(t)
  BY DrawIsWeighted DEF DrawsSoundly
<1>2. PICK x \in Nat, i \in Nat :
        /\ x < 2 * total_bias
        /\ i \in BinarySearch(weights, x)
        /\ i < Len(snap[t]) => pc'[t] = "http"
  BY <1>1, WeightedDraw DEF DrawsSoundly
<1>3. weights \in Seq(Int) /\ weights # <<>>
  BY <1>1, WeightedDraw DEF DrawsSoundly, TypeOK
<1>4. Len(weights) > 0 /\ total_bias = weights[Len(weights)]
  BY <1>3 DEF total_bias
<1>5. i < Len(weights)
  <2> HIDE DEF weights
  <2> QED BY <1>2, <1>3, <1>4, DrawIsInside
<1>6. refresher = "idle" /\ Len(snap[t]) = Len(latest)
  BY DEF DrawsSoundly, DrawInv, Steady, Drawing
<1>7. Len(weights) = Len(latest)
  BY DEF DrawsSoundly, DrawInv, Steady, Drawing
<1> QED BY <1>2, <1>5, <1>6, <1>7

\* nodes[index] in get_random_consensor_biased is out of bounds only for a request
\* whose list is shorter than the weights it drew from, and that takes a refresh under
\* way since the request was let in (between the store of a shorter list and the
\* clearing of the weights, or a longer list installed and prepared between the two
\* reads), or rewrites that have overlapped or been dropped halfway.
THEOREM PanicsOnlyTorn == Spec => IndexPanicNeedsRefresh
<1>1. DrawsSoundly /\ [Next]_vars =>
        [\A t \in Task : pc[t] = "draw" /\ pc'[t] = "indexPanic"
                           => "refresh" \in torn[t] \/ disturbed]_vars
  BY PanicStep
<1> QED BY <1>1, DrawsAlways, PTL DEF Spec, IndexPanicNeedsRefresh

LEMMA WorthStep ==
  ASSUME DrawsSoundly, [Next]_vars, NEW t \in Task, pc[t] = "draw", pc'[t] = "http",
         ~disturbed, torn[t] = {}
  PROVE  \E i \in 1..Len(active_nodelist) :
            /\ active_nodelist[i].id = chosen'[t]
            /\ active_nodelist[i].rng_bias > 0
<1> DEFINE weights == load_distribution_commulative_bias
<1>1. DrawWeighted(t)
  BY DrawIsWeighted DEF DrawsSoundly
<1>2. PICK x \in Nat, i \in Nat :
        /\ x < 2 * total_bias
        /\ i \in BinarySearch(weights, x)
        /\ i < Len(snap[t]) => chosen'[t] = snap[t][i + 1].id
  BY <1>1, WeightedDraw DEF DrawsSoundly
<1>3. weights # <<>>
  BY <1>1, WeightedDraw DEF DrawsSoundly
<1>4. /\ refresher = "idle" /\ Writers = {} /\ list_prepared
      /\ snap[t] = active_nodelist
  BY DEF DrawsSoundly, DrawInv, Steady, Drawing
<1>5. Ranked(active_nodelist) /\ active_nodelist \in Seq(Entry)
  BY <1>4 DEF DrawsSoundly, DrawInv, SteadyWeights, TypeOK
<1>6. weights = Cumulative(active_nodelist)
  BY <1>4 DEF DrawsSoundly, AloneInv, WeightsMatchList
<1>7. Len(Cumulative(active_nodelist)) = Len(active_nodelist)
  BY <1>5, CumulativeIsRunningSum DEF Ranked
<1>8. /\ Len(active_nodelist) > 0
      /\ total_bias = Cumulative(active_nodelist)[Len(active_nodelist)]
  <2>1. weights \in Seq(Int)
    BY DEF DrawsSoundly, TypeOK
  <2> QED BY <1>3, <1>6, <1>7, <2>1 DEF total_bias
<1>9. i + 1 \in 1..Len(active_nodelist) /\ active_nodelist[i + 1].rng_bias > 0
  BY <1>2, <1>5, <1>6, <1>8, DrawEarns
<1>10. active_nodelist[i + 1].id = chosen'[t]
  BY <1>2, <1>4, <1>9
<1> QED BY <1>9, <1>10

\* While the weights add up to something, a request that no rewrite has overtaken
\* is never sent to a node that earned no bias: sort_by has put it behind the
\* others, where no draw below total_bias reaches it.
THEOREM WorthlessNeverDrawn == Spec => NeverDrawsWorthless
<1>1. DrawsSoundly /\ [Next]_vars =>
        [\A t \in Task :
            pc[t] = "draw" /\ pc'[t] = "http" /\ ~disturbed /\ torn[t] = {}
               => \E i \in 1..Len(active_nodelist) :
                     /\ active_nodelist[i].id = chosen'[t]
                     /\ active_nodelist[i].rng_bias > 0]_vars
  BY WorthStep
<1> QED BY <1>1, DrawsAlways, PTL DEF Spec, NeverDrawsWorthless

\* The only steps that refuse a request that had found the list prepared.
LEMMA RefusalIs ==
  ASSUME TypeOK, [Next]_vars, NEW t \in Task, pc'[t] = "refused",
         pc[t] \in {"checkFlag", "draw"}
  PROVE  IF pc[t] = "checkFlag" THEN CheckFlag(t) ELSE DrawNothing(t)
<1>1. Request(t)
  BY OwnStep
<1>2. ~(DrawUniform(t) \/ DrawWeighted(t) \/ DrawEmptyRange(t) \/ TripWrite(t) \/ HangUp(t))
  BY DEF TypeOK, Goto, DrawUniform, DrawWeighted, DrawEmptyRange, CanDraw, TripWrite, HangUp
<1> QED
  BY <1>1, <1>2
  DEF Request, Select, Arrive, LoadFlag, LockBias, CompareLengths, TakeIndex, LockNodes,
      RoundRobinPick, RoundRobinExhausted, PrepareSkip, PrepareBegin, CloneNodes,
      SortAndWeigh, StoreNodes, StoreBias, SetFlag, CheckFlag, ReadNodes, DrawNothing,
      ResetIndex, ResetFlag, HttpDone, Fail, Failed

LEMMA RefusalStep ==
  ASSUME DrawsSoundly, FlagInv, [Next]_vars, NEW t \in Task, pc'[t] = "refused"
  PROVE  /\ pc[t] = "checkFlag" => torn[t] \cap {"refresh", "reset"} # {}
         /\ pc[t] = "draw" => "refresh" \in torn[t] \/ disturbed \/ latest = <<>>
<1>1. TypeOK
  BY DEF DrawsSoundly
<1>2. ASSUME pc[t] = "checkFlag" PROVE torn[t] \cap {"refresh", "reset"} # {}
  <2>1. ~list_prepared
    BY <1>1, <1>2, RefusalIs DEF CheckFlag, Goto, TypeOK
  <2> QED BY <1>2, <2>1 DEF FlagInv, FlagStands, Relying
<1>3. ASSUME pc[t] = "draw", "refresh" \notin torn[t], ~disturbed PROVE latest = <<>>
  <2>1. snap[t] = <<>> \/ load_distribution_commulative_bias = <<>>
    BY <1>1, <1>3, RefusalIs DEF DrawNothing
  <2>2. /\ Len(load_distribution_commulative_bias) = Len(latest)
        /\ Len(snap[t]) = Len(latest)
    BY <1>3 DEF DrawsSoundly, DrawInv, Steady, Drawing
  <2> QED BY <1>1, <2>1, <2>2 DEF TypeOK
<1> QED BY <1>2, <1>3

\* A request that has found list_prepared set, or has set it, is refused only if a
\* refresh, or the reset after an all-zero draw, was under way since: of one that
\* nobody took the flag from under, list and weights are there to draw from.
THEOREM RefusalsAreTorn == Spec => RefusedOnlyWhenTorn
<1>1. DrawsSoundly /\ FlagInv /\ [Next]_vars =>
        [\A t \in Task :
            /\ pc[t] = "checkFlag" /\ pc'[t] = "refused"
                  => torn[t] \cap {"refresh", "reset"} # {}
            /\ pc[t] = "draw" /\ pc'[t] = "refused"
                  => "refresh" \in torn[t] \/ disturbed \/ latest = <<>>]_vars
  BY RefusalStep
<1> QED BY <1>1, DrawsAlways, FlagAlways, PTL DEF Spec, RefusedOnlyWhenTorn

=============================================================================
