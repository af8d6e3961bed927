--------------------------- MODULE NodeSelection ---------------------------
(***************************************************************************)
(* The load balancer of struct Liberdus: how one RPC request picks the     *)
(* consensor it is forwarded to, while other requests do the same and the  *)
(* refresher task replaces the node list underneath them.                  *)
(*                                                                         *)
(* A request (a tokio task t) runs get_next_appropriate_consensor, makes   *)
(* its HTTP call and reports the round-trip time.  Every await on a lock   *)
(* and every access to an atomic is a step of its own, since the runtime   *)
(* may run any other task between two of them; what a task computes on its *)
(* own copies is part of the step before or after it.                      *)
(*                                                                         *)
(* Biases are scaled: the code's f64 bias b is the integer b * MaxTimeout. *)
(***************************************************************************)
EXTENDS Integers, Sequences

CONSTANTS
    Task,        \* concurrent RPC requests
    Node,        \* consensor ids
    Lists,       \* the node lists an archiver may sign
    Rtts,        \* round-trip times, in ms, an HTTP call may take
    MaxTimeout,  \* config.max_http_timeout_ms
    IndexCap,    \* bound: round_robin_index stops counting here
    MaxRefresh,  \* bound: how often the refresher installs a list
    None         \* Option::None

ASSUME ListsAssumption   == Lists \subseteq Seq(Node)
ASSUME RttsAssumption    == Rtts \subseteq Nat
ASSUME TimeoutAssumption == MaxTimeout \in Nat \ {0}
\* Past every list's length the index is only ever compared with lengths.
ASSUME CapAssumption     == /\ IndexCap \in Nat
                            /\ \A l \in Lists : Len(l) <= IndexCap
ASSUME RefreshAssumption == MaxRefresh \in Nat
ASSUME NoneAssumption    == None \notin Int /\ None \notin Node

VARIABLES
    active_nodelist,                    \* Vec<Consensor>
    trip_ms,                            \* HashMap<id, ms>: None where absent
    round_robin_index,
    list_prepared,
    load_distribution_commulative_bias,
    nodeGuard,   \* tasks that hold a read guard of active_nodelist
    biasGuard,   \* tasks that hold a read guard of the bias vector
    tripWrite,   \* the write set_consensor_trip_ms spawned and left behind
    listening,   \* main has left its startup loop and serves requests
    refresher,   \* where the refresher task is
    pc, idx, snap, chosen,              \* locals of a request, reset at their last use
    latest, overtaken, disturbed, torn, refreshes   \* history: only MaxRefresh and
                                                    \* the properties read it

shared == <<active_nodelist, trip_ms, round_robin_index, list_prepared,
            load_distribution_commulative_bias>>
guards == <<nodeGuard, biasGuard>>
locals == <<idx, snap, chosen>>
history == <<latest, overtaken, disturbed, torn, refreshes>>
vars == <<shared, guards, tripWrite, listening, refresher, pc, locals, history>>

-----------------------------------------------------------------------------
(* Data *)

\* A consensor as an archiver sends it: serde fills no rng_bias.
Consensor(id) == [id |-> id, rng_bias |-> None]
Fresh(l) == [i \in 1..Len(l) |-> Consensor(l[i])]

RoundTrip(n) == IF trip_ms[n] = None THEN MaxTimeout ELSE trip_ms[n]

\* 1.0 - t / max, scaled by max; not clamped, so negative when t > max.
calculate_bias(t) == IF MaxTimeout = 1 THEN 1 ELSE MaxTimeout - t

\* The orders a list of n nodes can be brought into.
Orders(n) == {p \in [1..n -> 1..n] : \A i, j \in 1..n : p[i] = p[j] => i = j}

\* sort_by is stable: equal round trips keep their places.
SortedByTrip(nodes, p) ==
    \A i, j \in 1..Len(nodes) :
        i < j => LET a == RoundTrip(nodes[p[i]].id)
                     b == RoundTrip(nodes[p[j]].id)
                 IN  a < b \/ (a = b /\ p[i] < p[j])

Weighed(nodes, p) ==
    [i \in 1..Len(nodes) |->
        [id       |-> nodes[p[i]].id,
         rng_bias |-> calculate_bias(RoundTrip(nodes[p[i]].id))]]

RunningSum(nodes) ==
    LET sum[i \in 0..Len(nodes)] ==
            IF i = 0 THEN 0 ELSE sum[i - 1] + nodes[i].rng_bias
    IN  sum
Cumulative(nodes) == [i \in 1..Len(nodes) |-> RunningSum(nodes)[i]]

\* Faulty variant of BinarySearch: an index that counts from one.
BinarySearchFromOne(weights, x) ==
    {i \in 1..(Len(weights) + 1) :
        \/ i <= Len(weights) /\ 2 * weights[i] = x
        \/ /\ i = 1 \/ 2 * weights[i - 1] < x
           /\ i = Len(weights) + 1 \/ x < 2 * weights[i]}

\* Every (0-based) index binary_search_by may answer for the draw x/2: an exact
\* match, or a place between a smaller and a larger weight.  Halves stand for
\* the draws that fall strictly between two integers.
BinarySearch(weights, x) ==
    {i \in 0..Len(weights) :
        \/ i < Len(weights) /\ 2 * weights[i + 1] = x
        \/ /\ i = 0 \/ 2 * weights[i] < x
           /\ i = Len(weights) \/ x < 2 * weights[i + 1]}

Goto(t, label) == pc' = [pc EXCEPT ![t] = label]

-----------------------------------------------------------------------------
(* History: who is in the middle of rewriting the list, its weights and its flag *)

Preparing == {"sort", "storeNodes", "storeBias", "setFlag"}
Unsetting == {"resetIndex", "resetFlag"}
Drawing   == {"readNodes", "draw"}
\* From finding list_prepared set to the draw.
Looking   == {"lockBias", "compareLengths", "checkFlag"} \cup Drawing

Writers == {t \in Task : pc[t] \in Preparing \cup Unsetting}
Kinds == {"refresh", "prepare", "reset"}
\* What others are rewriting.
Rewrites(t) ==
    {kind \in Kinds :
        \/ kind = "refresh" /\ refresher # "idle"
        \/ kind = "prepare" /\ \E u \in Task \ {t} : pc[u] \in Preparing
        \/ kind = "reset"   /\ \E u \in Task \ {t} : pc[u] \in Unsetting}
\* t relies on what it sees now; what others are rewriting may change it.
Look(t) == torn' = [torn EXCEPT ![t] = Rewrites(t)]
LookAway(t) == torn' = [torn EXCEPT ![t] = {}]
TornBy(kind) ==
    [u \in Task |-> IF pc[u] \in Looking THEN torn[u] \cup {kind} ELSE torn[u]]
\* t enters a rewrite: it may run into another one, and under requests that are
\* looking.  Two rewrites that overlap disturb each other until a refresh runs
\* alone.
EnterRewrite(t, kind) ==
    /\ disturbed' = (disturbed \/ Rewrites(t) # {})
    /\ torn' = [TornBy(kind) EXCEPT ![t] = {}]

-----------------------------------------------------------------------------
(* get_next_appropriate_consensor *)

Arrive(t) ==
    /\ listening
    /\ pc[t] = "idle"
    /\ Goto(t, IF active_nodelist = <<>> THEN "refused" ELSE "loadFlag")
    /\ UNCHANGED <<shared, guards, tripWrite, listening, refresher, locals, history>>

LoadFlag(t) ==
    /\ pc[t] = "loadFlag"
    /\ Goto(t, IF list_prepared THEN "lockBias" ELSE "takeIndex")
    /\ IF list_prepared THEN Look(t) ELSE UNCHANGED torn
    /\ UNCHANGED <<shared, guards, tripWrite, listening, refresher, locals,
                   latest, overtaken, disturbed, refreshes>>

\* The read guard of the bias vector is kept while the list's lock is awaited.
LockBias(t) ==
    /\ pc[t] = "lockBias"
    /\ biasGuard' = biasGuard \cup {t}
    /\ Goto(t, "compareLengths")
    /\ UNCHANGED <<shared, nodeGuard, tripWrite, listening, refresher, locals, history>>

CompareLengths(t) ==
    /\ pc[t] = "compareLengths"
    /\ IF Len(load_distribution_commulative_bias) = Len(active_nodelist)
         THEN Goto(t, "checkFlag") /\ UNCHANGED torn
         ELSE Goto(t, "takeIndex") /\ LookAway(t)
    /\ biasGuard' = biasGuard \ {t}
    /\ UNCHANGED <<shared, nodeGuard, tripWrite, listening, refresher, locals,
                   latest, overtaken, disturbed, refreshes>>

\* Faulty variant of TakeIndex: fetch_sub for fetch_add.
TakeIndexDown(t) ==
    /\ pc[t] = "takeIndex"
    /\ idx' = [idx EXCEPT ![t] = round_robin_index]
    /\ round_robin_index' = round_robin_index - 1
    /\ Goto(t, "lockNodes")
    /\ UNCHANGED <<active_nodelist, trip_ms, list_prepared,
                   load_distribution_commulative_bias, guards, tripWrite,
                   listening, refresher, snap, chosen, history>>

TakeIndex(t) ==
    /\ pc[t] = "takeIndex"
    /\ idx' = [idx EXCEPT ![t] = round_robin_index]
    /\ round_robin_index' = IF round_robin_index < IndexCap
                              THEN round_robin_index + 1 ELSE IndexCap
    /\ Goto(t, "lockNodes")
    /\ UNCHANGED <<active_nodelist, trip_ms, list_prepared,
                   load_distribution_commulative_bias, guards, tripWrite,
                   listening, refresher, snap, chosen, history>>

LockNodes(t) ==
    /\ pc[t] = "lockNodes"
    /\ nodeGuard' = nodeGuard \cup {t}
    /\ Goto(t, "roundRobin")
    /\ UNCHANGED <<shared, biasGuard, tripWrite, listening, refresher, locals, history>>

RoundRobinPick(t) ==
    /\ pc[t] = "roundRobin"
    /\ idx[t] < Len(active_nodelist)
    /\ chosen' = [chosen EXCEPT ![t] = active_nodelist[idx[t] + 1].id]
    /\ idx' = [idx EXCEPT ![t] = 0]
    /\ nodeGuard' = nodeGuard \ {t}
    /\ Goto(t, "http")
    /\ UNCHANGED <<shared, biasGuard, tripWrite, listening, refresher, snap, history>>

\* Faulty variant of RoundRobinExhausted: no drop(nodes) before prepare_list.
RoundRobinExhaustedHolding(t) ==
    /\ pc[t] = "roundRobin"
    /\ idx[t] >= Len(active_nodelist)
    /\ idx' = [idx EXCEPT ![t] = 0]
    /\ Goto(t, "prepare")
    /\ UNCHANGED <<shared, guards, tripWrite, listening, refresher, snap,
                   chosen, history>>

\* Every node has been tried: drop(nodes), then prepare_list.
RoundRobinExhausted(t) ==
    /\ pc[t] = "roundRobin"
    /\ idx[t] >= Len(active_nodelist)
    /\ idx' = [idx EXCEPT ![t] = 0]
    /\ nodeGuard' = nodeGuard \ {t}
    /\ Goto(t, "prepare")
    /\ UNCHANGED <<shared, biasGuard, tripWrite, listening, refresher, snap,
                   chosen, history>>

-----------------------------------------------------------------------------
(* prepare_list *)

PrepareSkip(t) ==
    /\ pc[t] = "prepare"
    /\ list_prepared
    /\ Goto(t, "checkFlag")
    /\ Look(t)
    /\ UNCHANGED <<shared, guards, tripWrite, listening, refresher, locals,
                   latest, overtaken, disturbed, refreshes>>

PrepareBegin(t) ==
    /\ pc[t] = "prepare"
    /\ ~list_prepared
    /\ Goto(t, "cloneNodes")
    /\ UNCHANGED <<shared, guards, tripWrite, listening, refresher, locals, history>>

CloneNodes(t) ==
    /\ pc[t] = "cloneNodes"
    /\ snap' = [snap EXCEPT ![t] = active_nodelist]
    /\ EnterRewrite(t, "prepare")
    /\ Goto(t, "sort")
    /\ UNCHANGED <<shared, guards, tripWrite, listening, refresher, idx, chosen,
                   latest, overtaken, refreshes>>

\* Faulty variants of SortAndWeigh: nodes without a measured round trip are left
\* out; the copy is weighed in the order it was fetched in.
WeighMeasured(t) ==
    /\ pc[t] = "sort"
    /\ LET measured == SelectSeq(snap[t], LAMBDA e : trip_ms[e.id] # None) IN
       \E p \in Orders(Len(measured)) :
          /\ SortedByTrip(measured, p)
          /\ snap' = [snap EXCEPT ![t] = Weighed(measured, p)]
    /\ Goto(t, "storeNodes")
    /\ UNCHANGED <<shared, guards, tripWrite, listening, refresher, idx, chosen, history>>
WeighUnsorted(t) ==
    /\ pc[t] = "sort"
    /\ snap' = [snap EXCEPT ![t] = Weighed(@, [i \in 1..Len(@) |-> i])]
    /\ Goto(t, "storeNodes")
    /\ UNCHANGED <<shared, guards, tripWrite, listening, refresher, idx, chosen, history>>

\* Clones trip_ms, then sorts and weighs the copy taken before it.
SortAndWeigh(t) ==
    /\ pc[t] = "sort"
    /\ \E p \in Orders(Len(snap[t])) :
          /\ SortedByTrip(snap[t], p)
          /\ snap' = [snap EXCEPT ![t] = Weighed(snap[t], p)]
    /\ Goto(t, "storeNodes")
    /\ UNCHANGED <<shared, guards, tripWrite, listening, refresher, idx, chosen, history>>

StoreNodes(t) ==
    /\ pc[t] = "storeNodes"
    /\ nodeGuard = {}
    /\ active_nodelist' = snap[t]
    /\ Goto(t, "storeBias")
    /\ UNCHANGED <<trip_ms, round_robin_index, list_prepared,
                   load_distribution_commulative_bias, guards, tripWrite,
                   listening, refresher, locals, history>>

\* Faulty variant of StoreBias: each node's own bias, not the running sum.
StoreBiasUnsummed(t) ==
    /\ pc[t] = "storeBias"
    /\ biasGuard = {}
    /\ load_distribution_commulative_bias' =
          [i \in 1..Len(snap[t]) |-> snap[t][i].rng_bias]
    /\ Goto(t, "setFlag")
    /\ UNCHANGED <<active_nodelist, trip_ms, round_robin_index, list_prepared,
                   guards, tripWrite, listening, refresher, locals, history>>

StoreBias(t) ==
    /\ pc[t] = "storeBias"
    /\ biasGuard = {}
    /\ load_distribution_commulative_bias' = Cumulative(snap[t])
    /\ Goto(t, "setFlag")
    /\ UNCHANGED <<active_nodelist, trip_ms, round_robin_index, list_prepared,
                   guards, tripWrite, listening, refresher, locals, history>>

\* Faulty variant of SetFlag: prepare_list ends without setting list_prepared.
SetFlagForgotten(t) ==
    /\ pc[t] = "setFlag"
    /\ snap' = [snap EXCEPT ![t] = <<>>]
    /\ Look(t)
    /\ Goto(t, "checkFlag")
    /\ UNCHANGED <<shared, guards, tripWrite, listening, refresher, idx, chosen,
                   latest, overtaken, disturbed, refreshes>>

SetFlag(t) ==
    /\ pc[t] = "setFlag"
    /\ list_prepared' = TRUE
    /\ snap' = [snap EXCEPT ![t] = <<>>]
    /\ Look(t)
    /\ Goto(t, "checkFlag")
    /\ UNCHANGED <<active_nodelist, trip_ms, round_robin_index,
                   load_distribution_commulative_bias, guards, tripWrite,
                   listening, refresher, idx, chosen,
                   latest, overtaken, disturbed, refreshes>>

-----------------------------------------------------------------------------
(* get_random_consensor_biased *)

CheckFlag(t) ==
    /\ pc[t] = "checkFlag"
    /\ IF list_prepared
         THEN Goto(t, "readNodes") /\ Look(t)
         ELSE Goto(t, "refused") /\ LookAway(t)
    /\ UNCHANGED <<shared, guards, tripWrite, listening, refresher, locals,
                   latest, overtaken, disturbed, refreshes>>

ReadNodes(t) ==
    /\ pc[t] = "readNodes"
    /\ snap' = [snap EXCEPT ![t] = active_nodelist]
    /\ Goto(t, "draw")
    /\ UNCHANGED <<shared, guards, tripWrite, listening, refresher, idx, chosen, history>>

DrawEnds(t) ==
    /\ snap' = [snap EXCEPT ![t] = <<>>]
    /\ LookAway(t)
    /\ UNCHANGED <<latest, overtaken, disturbed, refreshes>>

\* Clones the bias vector; total is its last element.
DrawNothing(t) ==
    /\ pc[t] = "draw"
    /\ snap[t] = <<>> \/ load_distribution_commulative_bias = <<>>
    /\ DrawEnds(t)
    /\ Goto(t, "refused")
    /\ UNCHANGED <<shared, guards, tripWrite, listening, refresher, idx, chosen>>

CanDraw(t) == /\ pc[t] = "draw"
              /\ snap[t] # <<>>
              /\ load_distribution_commulative_bias # <<>>
total_bias ==
    load_distribution_commulative_bias[Len(load_distribution_commulative_bias)]

DrawUniform(t) ==
    /\ CanDraw(t)
    /\ total_bias = 0
    /\ \E i \in 1..Len(snap[t]) : chosen' = [chosen EXCEPT ![t] = snap[t][i].id]
    /\ snap' = [snap EXCEPT ![t] = <<>>]
    /\ EnterRewrite(t, "reset")
    /\ Goto(t, "resetIndex")
    /\ UNCHANGED <<shared, guards, tripWrite, listening, refresher, idx,
                   latest, overtaken, refreshes>>

DrawWeighted(t) ==
    /\ CanDraw(t)
    /\ total_bias > 0
    /\ \E x \in 0..(2 * total_bias - 1) :
         \E i \in BinarySearch(load_distribution_commulative_bias, x) :
            IF i < Len(snap[t])
              THEN /\ chosen' = [chosen EXCEPT ![t] = snap[t][i + 1].id]
                   /\ Goto(t, "http")
              ELSE /\ Goto(t, "indexPanic")
                   /\ UNCHANGED chosen
    /\ DrawEnds(t)
    /\ UNCHANGED <<shared, guards, tripWrite, listening, refresher, idx>>

\* gen_range(0.0..total_bias) panics on an empty range.
DrawEmptyRange(t) ==
    /\ CanDraw(t)
    /\ total_bias < 0
    /\ DrawEnds(t)
    /\ Goto(t, "rangePanic")
    /\ UNCHANGED <<shared, guards, tripWrite, listening, refresher, idx, chosen>>

ResetIndex(t) ==
    /\ pc[t] = "resetIndex"
    /\ round_robin_index' = 0
    /\ Goto(t, "resetFlag")
    /\ UNCHANGED <<active_nodelist, trip_ms, list_prepared,
                   load_distribution_commulative_bias, guards, tripWrite,
                   listening, refresher, locals, history>>

ResetFlag(t) ==
    /\ pc[t] = "resetFlag"
    /\ list_prepared' = FALSE
    /\ Goto(t, "http")
    /\ UNCHANGED <<active_nodelist, trip_ms, round_robin_index,
                   load_distribution_commulative_bias, guards, tripWrite,
                   listening, refresher, locals, history>>

-----------------------------------------------------------------------------
(* The end of a request, and the write it may leave behind *)

\* The HTTP call ends, answered or failed, after rtt ms; set_consensor_trip_ms.
\* Bound: one spawned write is under way at a time.
HttpDone(t) ==
    /\ pc[t] = "http"
    /\ \A u \in Task : tripWrite[u] = None
    /\ IF list_prepared
         THEN UNCHANGED tripWrite
         ELSE \E rtt \in Rtts :
                tripWrite' = [tripWrite EXCEPT ![t] = [id |-> chosen[t], ms |-> rtt]]
    /\ chosen' = [chosen EXCEPT ![t] = None]
    /\ Goto(t, "idle")
    /\ UNCHANGED <<shared, guards, listening, refresher, idx, snap, history>>

TripWrite(t) ==
    /\ tripWrite[t] # None
    /\ trip_ms' = [trip_ms EXCEPT ![tripWrite[t].id] = tripWrite[t].ms]
    /\ tripWrite' = [tripWrite EXCEPT ![t] = None]
    /\ UNCHANGED <<active_nodelist, round_robin_index, list_prepared,
                   load_distribution_commulative_bias, guards, listening,
                   refresher, pc, locals, history>>

\* The caller answers "Failed to select consensor", or its task has panicked.
Failed == {"refused", "indexPanic", "rangePanic"}
Fail(t) ==
    /\ pc[t] \in Failed
    /\ Goto(t, "idle")
    /\ UNCHANGED <<shared, guards, tripWrite, listening, refresher, locals, history>>

\* Where a request awaits a lock or an answer.
Awaiting == {"lockBias", "compareLengths", "lockNodes", "cloneNodes", "sort",
             "storeNodes", "storeBias", "readNodes", "draw", "http"}

\* The client of an HTTP request hangs up: the server drops the handler where it
\* awaits, with the guards it holds and whatever it had still to write.
HangUp(t) ==
    /\ pc[t] \in Awaiting
    /\ Goto(t, "idle")
    /\ nodeGuard' = nodeGuard \ {t}
    /\ biasGuard' = biasGuard \ {t}
    /\ idx' = [idx EXCEPT ![t] = 0]
    /\ snap' = [snap EXCEPT ![t] = <<>>]
    /\ chosen' = [chosen EXCEPT ![t] = None]
    /\ disturbed' = (disturbed \/ t \in Writers)
    /\ LookAway(t)
    /\ UNCHANGED <<shared, tripWrite, listening, refresher, latest, overtaken, refreshes>>

-----------------------------------------------------------------------------
(* The refresher's update_active_nodelist, and main's startup gate *)

\* The first archiver whose answer verifies gave the list l.
InstallNodes(l) ==
    /\ refresher = "idle"
    /\ refreshes < MaxRefresh
    /\ nodeGuard = {}
    /\ active_nodelist' = Fresh(l)
    /\ refresher' = "index"
    /\ latest' = l
    /\ overtaken' = (\E t \in Task : pc[t] \in {"sort", "storeNodes"})
    /\ disturbed' = (Writers # {})
    /\ torn' = TornBy("refresh")
    /\ refreshes' = refreshes + 1
    /\ UNCHANGED <<trip_ms, round_robin_index, list_prepared,
                   load_distribution_commulative_bias, guards, tripWrite,
                   listening, pc, locals>>

RefreshIndex ==
    /\ refresher = "index"
    /\ round_robin_index' = 0
    /\ refresher' = "flag"
    /\ UNCHANGED <<active_nodelist, trip_ms, list_prepared,
                   load_distribution_commulative_bias, guards, tripWrite,
                   listening, pc, locals, history>>

RefreshFlag ==
    /\ refresher = "flag"
    /\ list_prepared' = FALSE
    /\ refresher' = "bias"
    /\ UNCHANGED <<active_nodelist, trip_ms, round_robin_index,
                   load_distribution_commulative_bias, guards, tripWrite,
                   listening, pc, locals, history>>

RefreshBias ==
    /\ refresher = "bias"
    /\ biasGuard = {}
    /\ load_distribution_commulative_bias' = <<>>
    /\ refresher' = "trips"
    /\ UNCHANGED <<active_nodelist, trip_ms, round_robin_index, list_prepared,
                   guards, tripWrite, listening, pc, locals, history>>

RefreshTrips ==
    /\ refresher = "trips"
    /\ trip_ms' = [n \in Node |-> None]
    /\ refresher' = "idle"
    /\ UNCHANGED <<active_nodelist, round_robin_index, list_prepared,
                   load_distribution_commulative_bias, guards, tripWrite,
                   listening, pc, locals, history>>

\* One round of main's polling loop.
Listen ==
    /\ ~listening
    /\ listening' = (active_nodelist # <<>>)
    /\ UNCHANGED <<shared, guards, tripWrite, refresher, pc, locals, history>>

-----------------------------------------------------------------------------
Init ==
    /\ active_nodelist = <<>>
    /\ trip_ms = [n \in Node |-> None]
    /\ round_robin_index = 0
    /\ list_prepared = FALSE
    /\ load_distribution_commulative_bias = <<>>
    /\ nodeGuard = {}
    /\ biasGuard = {}
    /\ tripWrite = [t \in Task |-> None]
    /\ listening = FALSE
    /\ refresher = "idle"
    /\ pc = [t \in Task |-> "idle"]
    /\ idx = [t \in Task |-> 0]
    /\ snap = [t \in Task |-> <<>>]
    /\ chosen = [t \in Task |-> None]
    /\ latest = <<>>
    /\ overtaken = FALSE
    /\ disturbed = FALSE
    /\ torn = [t \in Task |-> {}]
    /\ refreshes = 0

\* Everything a selection does by itself, once it has begun.
Select(t) ==
    \/ LoadFlag(t) \/ LockBias(t) \/ CompareLengths(t)
    \/ TakeIndex(t) \/ LockNodes(t) \/ RoundRobinPick(t) \/ RoundRobinExhausted(t)
    \/ PrepareSkip(t) \/ PrepareBegin(t) \/ CloneNodes(t) \/ SortAndWeigh(t)
    \/ StoreNodes(t) \/ StoreBias(t) \/ SetFlag(t)
    \/ CheckFlag(t) \/ ReadNodes(t)
    \/ DrawNothing(t) \/ DrawUniform(t) \/ DrawWeighted(t) \/ DrawEmptyRange(t)
    \/ ResetIndex(t) \/ ResetFlag(t)

Request(t) == \/ Arrive(t) \/ Select(t) \/ HttpDone(t) \/ TripWrite(t) \/ Fail(t)
              \/ HangUp(t)

Refresh == RefreshIndex \/ RefreshFlag \/ RefreshBias \/ RefreshTrips

Next == \/ \E t \in Task : Request(t)
        \/ \E l \in Lists : InstallNodes(l)
        \/ Refresh
        \/ Listen

Spec == Init /\ [][Next]_vars

\* tokio runs every runnable task, and its RwLock queues waiters in order: a
\* request that may go on again and again goes on, even where it waits to write.
\* An HTTP call may never return (reqwest is given no timeout), and HttpDone gets
\* no fairness.
Fairness == \A t \in Task : SF_vars(Select(t))
FairSpec == Spec /\ Fairness

-----------------------------------------------------------------------------
(* Properties *)

Entry == [id : Node, rng_bias : Int \cup {None}]
Labels == {"idle", "loadFlag", "lockBias", "compareLengths", "takeIndex",
           "lockNodes", "roundRobin", "prepare", "cloneNodes", "checkFlag", "http"}
             \cup Preparing \cup Unsetting \cup Drawing \cup Failed

\* The type invariant of the balancer's fields and of its tasks' locals.
TypeOK ==
    /\ active_nodelist \in Seq(Entry)
    /\ trip_ms \in [Node -> Nat \cup {None}]
    /\ round_robin_index \in 0..IndexCap
    /\ list_prepared \in BOOLEAN
    /\ load_distribution_commulative_bias \in Seq(Int)
    /\ nodeGuard \subseteq Task
    /\ biasGuard \subseteq Task
    /\ tripWrite \in [Task -> [id : Node, ms : Nat] \cup {None}]
    /\ listening \in BOOLEAN
    /\ refresher \in {"idle", "index", "flag", "bias", "trips"}
    /\ pc \in [Task -> Labels]
    /\ idx \in [Task -> 0..IndexCap]
    /\ snap \in [Task -> Seq(Entry)]
    /\ chosen \in [Task -> Node \cup {None}]
    /\ latest \in Seq(Node)
    /\ overtaken \in BOOLEAN
    /\ disturbed \in BOOLEAN
    /\ torn \in [Task -> SUBSET Kinds]
    /\ refreshes \in 0..MaxRefresh

Reorders(nodes, l) ==
    /\ Len(nodes) = Len(l)
    /\ \E p \in Orders(Len(l)) : \A i \in 1..Len(l) : nodes[i].id = l[p[i]]

\* Sorting and rewriting the shared list never loses a node or lists one twice,
\* and the list being served is the one the last refresh fetched, however many
\* prepare_list calls overlap, are dropped halfway or meet the reset of an all-zero
\* draw.  One thing alone brings an older list back: a prepare_list that copied it
\* before that refresh and had not stored its copy yet (prepare_list,
\* update_active_nodelist).
ServesLatestList == ~overtaken => Reorders(active_nodelist, latest)

\* The weights of prepare_list describe the list they are drawn against: while
\* list_prepared is set, entry i of the bias vector is the sum of the rng_bias
\* of the first i nodes.
WeightsMatchList ==
    list_prepared /\ refresher = "idle" /\ Writers = {}
        => load_distribution_commulative_bias = Cumulative(active_nodelist)

\* It holds as long as no two rewrites of the list and its weights overlapped and
\* none was dropped halfway (prepare_list, update_active_nodelist).
AloneWeightsMatchList == ~disturbed => WeightsMatchList

\* nodes[index] in get_random_consensor_biased is out of bounds only for a
\* request whose copy of the list is shorter than the weights it drew from, which
\* takes a refresh that was under way, or began, after the request had found
\* list_prepared set: it reads both between the refresher's store of a shorter list
\* and its clearing of the weights, or a longer list is installed and prepared
\* between its two reads.  Or two rewrites have overlapped, or one was dropped
\* halfway.
IndexPanicNeedsRefresh ==
    [][\A t \in Task : pc[t] = "draw" /\ pc'[t] = "indexPanic"
                         => "refresh" \in torn[t] \/ disturbed]_vars

\* A request that has found list_prepared set, or has set it itself, is refused at
\* the second look (get_random_consensor_biased) only if a refresh or the reset
\* after another request's all-zero draw was under way meanwhile; and one that has
\* passed that look as well is refused for want of nodes or weights only if a
\* refresh was, or rewrites have overlapped or been dropped, or no archiver listed
\* any node.
RefusedOnlyWhenTorn ==
    [][\A t \in Task :
          /\ pc[t] = "checkFlag" /\ pc'[t] = "refused"
                => torn[t] \cap {"refresh", "reset"} # {}
          /\ pc[t] = "draw" /\ pc'[t] = "refused"
                => "refresh" \in torn[t] \/ disturbed \/ latest = <<>>]_vars

\* While the weights add up to something, a node that earned none (it took
\* max_http_timeout_ms or longer, or never answered) is not drawn: sort_by must
\* put it behind the others, where no draw below total_bias reaches it.
NeverDrawsWorthless ==
    [][\A t \in Task :
          pc[t] = "draw" /\ pc'[t] = "http" /\ ~disturbed /\ torn[t] = {}
             => \E i \in 1..Len(active_nodelist) :
                   /\ active_nodelist[i].id = chosen'[t]
                   /\ active_nodelist[i].rng_bias > 0]_vars

\* get_random_consensor_biased returns None when it cannot draw (its doc).
NeverIndexPanics == \A t \in Task : pc[t] # "indexPanic"

\* No request is stuck in the balancer: its locks are always released, the read
\* guard of the list before prepare_list asks for the write lock.
SelectionEnds ==
    \A t \in Task : pc[t] = "loadFlag" ~> pc[t] \in Failed \cup {"http", "idle"}

-----------------------------------------------------------------------------
(* What a caller may rely on: module Selector *)

Ids(nodes) == {nodes[i].id : i \in 1..Len(nodes)}
\* What Selector sees of a request at the label, with its copy of the list and
\* its choice.
AskedAt(label, nodes, node) ==
    IF label = "idle" THEN [stage |-> "idle", ids |-> {}]
    ELSE IF label = "draw" THEN [stage |-> "looking", ids |-> Ids(nodes)]
    ELSE IF label \in Failed THEN [stage |-> "refused", ids |-> {}]
    ELSE IF label \in Unsetting \cup {"http"}
           THEN [stage |-> "calling", ids |-> {node}]
    ELSE [stage |-> "asking", ids |-> {}]
Asked(t) == AskedAt(pc[t], snap[t], chosen[t])

Promise == INSTANCE Selector WITH
    listed  <- Ids(active_nodelist),
    request <- [t \in Task |-> Asked(t)]

\* Whatever rewrites overlap, and with whichever weights an index was drawn, a
\* request is sent to a node of one list that was being served when the request
\* read it, or it is refused; and the served list is always the whole of a list
\* some archiver signed (get_next_appropriate_consensor and all it calls).
KeepsPromise == Promise!Spec
=============================================================================
