# A TLA+ model of liberdus-rpc

`liberdus-rpc` is a JSON-RPC server in front of a Liberdus network. It learns which
archivers exist, asks one for the list of active consensor nodes, and forwards every client
request to a node it picks by measured round-trip time. Clients on a WebSocket may also
subscribe to chat rooms; the server polls the rooms and pushes new messages.

Everything runs as tokio tasks on several threads. The tasks share a handful of `RwLock`s and
atomics, take them one after the other rather than together, and are spawned without being
waited for. That is where the difficulty lies, and what these modules are about.

## 1. The system

| component | state | operations | talks to |
|---|---|---|---|
| consensor selection (`liberdus.rs`) | `active_nodelist`, `trip_ms`, `round_robin_index`, `list_prepared`, `load_distribution_commulative_bias` | `get_next_appropriate_consensor`, `prepare_list`, `get_random_consensor_biased`, `set_consensor_trip_ms`, `update_active_nodelist` | every RPC query calls it; the refresher replaces its list |
| chat relay (`liberdus.rs`, `rpc.rs`, `methods.rs`) | the four maps of `ChatRoomSubscriptionData`; per handler the ids it noted | `lib_subscribe`, `lib_unsubscribe`, end of a WebSocket handler, `discover_new_chats` (one forwarder task and one fetch task per room) | the fetch tasks are RPC queries; the refresher starts rounds |
| archiver discovery (`archivers.rs`) | `active_archivers`, the file `known_archiver_cache.json` | `discover` with a fetch task per archiver and a cache-writing task left behind | `update_active_nodelist` reads the list |
| refresher and startup (`main.rs`) | none | `discover`, `update_active_nodelist`, `discover_new_chats` in turn; a gate that holds the server back until the list is not empty | all three above |
| transaction injection and queries (`methods.rs`, `liberdus.rs`) | none | `lib_send_transaction` with retries, `lib_get_*` | selection, the nodes |
| JSON-RPC routing (`rpc.rs`) | subscription ids of a connection | parse, dispatch, respond | methods |
| collector (`collector.rs`) | none | two HTTP queries | an external service |
| crypto (`crypto.rs`) | a key | hash, sign, verify | |
| configuration (`config.rs`) | read once | `load` | |

What is hard, and what would make each component correct:

* **Selection.** Requests interleave with one another and with a refresh between any two lock
  acquisitions. `prepare_list` copies the list, computes, and writes list and weights back under
  two locks; `get_random_consensor_biased` reads them under two locks. Correct means: no node is
  lost or doubled by the rewriting, the list is the one fetched last, the weights describe the
  list they are drawn against, a node of no weight is not drawn, no index is out of bounds, and
  nobody waits for a lock for ever.
* **Chat relay.** Subscriptions come and go while a round is between reading a room's state,
  reading its subscribers, looking up their senders and storing the new state; rounds may
  overlap; consensors may answer from behind; `unwrap` turns several races into panics of a
  task. Correct means: the maps agree, no message is skipped, what a client leaves is cleaned up.
* **Requests.** A handler panics where it unwraps what a client or a node sent, waits as long as
  its peer is silent, and is dropped where it awaits when an HTTP client hangs up; a transaction
  whose answer is lost is sent again. Correct means: every request has its own response, in
  order; retries are bounded and end; success is reported only for what a node accepted.
* **Refresher.** One task makes all periodic calls, and nothing starts it again. Correct means:
  failing archivers are passed over, the port opens whatever a restart finds, and there is always
  another round.
* **Discovery.** Answers arrive in any order or not at all; the cache file is truncated and
  written by a task that the next call, another such task, or a crash may overtake. Correct
  means: exactly what verified is published, the cache holds what was published last, and the
  seeds are never lost as a way back.

`PROJECT.json` lists every hazard at its line together with the properties aimed at it.

## 2. The modules

### NodeSelection

One request is one task `t` with a program counter `pc[t]`; each `await` on a lock and each
access to an atomic is an action, since any other task may run between two of them. What a task
computes on its own copies is merged into the neighbouring step. `idx`, `snap` and `chosen` are
the locals that outlive a step.

* `Arrive` .. `RoundRobinExhausted` are `get_next_appropriate_consensor`. `nodeGuard` and
  `biasGuard` hold the tasks that keep a read guard across an await: the guard of the bias
  vector while the list's length is read (liberdus.rs:396) and the guard of the list up to
  `drop(nodes)` (403-409). Writers wait for them.
* `PrepareSkip` .. `SetFlag` are `prepare_list`; `CheckFlag` .. `ResetFlag` are
  `get_random_consensor_biased`; `HttpDone` and `TripWrite` are `set_consensor_trip_ms` and the
  task it spawns; `InstallNodes(l)` and `Refresh*` are the success branch of
  `update_active_nodelist` (a call in which every archiver fails changes nothing); `Listen` is
  main's gate.
* `HangUp(t)` is the web framework: it drops the handler of an HTTP request whose client has
  gone, at any await (`Awaiting`), with its guards and with whatever it had still to write. A
  `prepare_list` may so end between its two stores.
* Data: a node is `[id, rng_bias]`. Biases are integers scaled by `MaxTimeout`, exact where the
  code uses `f64`; a random value is drawn at integers and half-integers, which is every case
  the binary search can tell apart. Rounding of `f64` is not modelled. `Orders` and
  `SortedByTrip` state what the stable sort returns instead of sorting. The `Relaxed` atomics
  are sequentially consistent here.
* `latest`, `overtaken`, `disturbed` and `torn` are history variables. A rewrite is a
  `prepare_list`, the reset after an all-zero draw, or a refresh. `overtaken` says that a refresh
  has installed a list while a `prepare_list` was between copying the old one and storing its
  copy; `disturbed` that since the last refresh that ran alone two rewrites were under way at
  once, or one was dropped halfway; `torn[t]` which kinds of rewrite others had under way, or
  began, since `t` found `list_prepared` set or set it, up to its draw (`Looking`). The code works
  as meant while they are false or empty, each property names the one it needs, and the runs
  marked *violation* show what happens otherwise.
* Two liberties with the locks, both of which allow more than the code does: a reader may be let
  in before a writer that was queued first, and which waiter is next is left open.

### Selector

What a caller of `get_next_appropriate_consensor` may rely on, in two variables: the ids being
served, and for each request its stage with the ids it has read or the one it calls. A request
reads the served list once, calls a node of what it read, or is refused; the served list is
always the whole of a list some archiver signed. `NodeSelection` implements it (`KeepsPromise`):
`Asked(t)` maps the program counter to a stage, all of `prepare_list` is stuttering except the
store of the list, which is a `Replace`. Weights and indices that belong to another list are
allowed by it: they change which node is drawn, never whether it was served.

### ChatRelay

The four maps with their one lock, so that each method of `Liberdus` that takes the lock is one
action; connections with the ids their handler noted and the ways a handler ends (`Disconnect`,
`CleanUp`, `Closed`, or a panic: of `unsubscribe_chat_room`, or, in `QueryPanics`, of any other
request on the connection); rounds of `discover_new_chats` with the forwarder's program
counter, its channel, and the fetch tasks that are still out.

A room's messages are numbered; its account as of message n has n messages and timestamp 2n, so
that clock readings of `subscribe_chat_room` fit in between. `FetchAnswers` may answer up to
`Lag` messages behind. `Receive` and `ReceiveUnderflows` are the two outcomes of
`messages.len() - index` below zero, in a release and in a debug build; the code subtracts
(liberdus.rs:689) before it compares the timestamps (691). A send to a subscriber
never fails: the connection's writer task holds its receiver as long as any sender exists, and a
subscription holds one. Three merges: looking up a sender and sending are one step (the channel
is not closed in between), a round's rooms are taken in one read, and `SubscribeChatRoom` reads
the clock (liberdus.rs:601) as it gets the lock (602), so that a message written while it waits
for the lock counts as older than the subscription. Clocks agree and timestamps never tie: the
clock read at a subscription lies strictly between the timestamps of the messages around it, as
if server and senders had one clock. Subscription ids are taken to be distinct, and responses to
the clients' own requests are left out.

### ArchiverDiscovery

`Begin` reads the cache, appends the seeds and spawns the fetch tasks; `Answers` and
`AnswerRejected` are what one of them may report; `Publish` is the rest of the call up to the
spawn of the cache write; `CreateFile` and `WriteFile` are that task's two steps; `Crash` kills
the process anywhere and starts it again. The file keeps its list, whether it parses, and its
size in entries, all entries taken to be of one length: a write that is shorter than what an
overtaking write left behind does not parse. Writing one list is one write call, which a dying
process does not split; loss of power is not modelled. Calls repeat without
bound; `MaxEntries` bounds the answers one call collects and `MaxWrites` the cache writes under
way. `latest` and `cut` are history variables (the list published last; whether writes overlapped or
were cut off since).

### Refresher

Extends `ArchiverDiscovery` to the process around it. `at` is the call the spawned task of `main`
is in: `Discover` and `DiscoverEnds` take a step of the component, `Update*` are
`update_active_nodelist`, which asks the published archivers in turn (`pos`) until one gives a
list that verifies, `PollChats` the call that only spawns, `Tick` the interval. `UpdatePanics` is
an `unwrap` of what the archiver sent: the task is `dead`, the server goes on (`Serve`).
`CacheWrite` goes on beside the loop. `Listen` is main's gate and `Restart` a crash with all that
is not in the file forgotten. Here a node list is installed in one step: how the install meets
requests under way is `NodeSelection`, and the rounds that `PollChats` leaves behind are
`ChatRelay`. The panic of a fetch task of `discover` is an answer that is rejected.

### RpcService

A client is a WebSocket or an HTTP one (`ws`); `pc[c]` is where its handler awaits. `TakeFrame`,
`TakeGarbage`, `Disconnect` and `Answer` are `ws_rpc_handler` and `http_rpc_handler`; `Reject`,
`DispatchPanics`, `AnswerLocally`, `BeginSend` and `BeginQuery` are `rpc_handler` and the checks
of parameters at the top of each method; `Collector*` are `collector.rs`; `SelectConsensor` to
`CallLost` are the calls of `liberdus.rs`, which share one shape: no consensor, no answer, an
answer that reports a failure, one that makes an `unwrap` panic, success. `Failure` is the retry
loop of `lib_send_transaction` (a query just answers with an error). `lib_getAccount` is
`account` with one parameter, `alias` with two, and then turns into `account`. Outside the code:
a node accepts or refuses what it was sent before it answers; an injection whose call failed may
still arrive (`stray`); a peer may fall silent; an HTTP client may hang up.

Parameters are abstracted to absent, of the wrong shape, holding something that is no string
(`odd`), or right. Whether an id to unsubscribe is known is `ChatRelay`'s matter: here it panics or
not. Responses are handed to the connection's channel; that its writer sends them in order is
the channel's doing.

### Submission

What a client of `lib_sendTransaction` may rely on: its transaction is `new`, `open`, and then
reported as `success` or `error`, or never reported (`lost`); nodes apply it any number of times
up to `MaxAttempts`, before or after the client hears of it; success needs one application
first. An error promises nothing. `RpcService` implements it (`KeepsPromise`), with one attempt
and at most four retries.

### Faulty variants

Definitions introduced as "Faulty variant of X" are X with a plausible bug. No specification
uses them. Each is paired in `PROJECT.json` with a property of a run: replacing X by the variant
makes TLC find that property violated, so the property does depend on the code being right.

## 3. The runs

| run | result | what it asks |
|---|---|---|
| `balancer` | pass | two requests over one list of two nodes, trips measured or not, one refresh: `TypeOK`, `AloneWeightsMatchList`, `RefusedOnlyWhenTorn` |
| `weights` | pass | one request at a time, three nodes, round trips 0, 1, 3 with timeout 2: `NeverDrawsWorthless` |
| `balancer_ends` | pass | two requests, two lists of different lengths, two refreshes: `ServesLatestList`, `IndexPanicNeedsRefresh`, `KeepsPromise` (implements `Selector`), and under fairness `SelectionEnds` |
| `misaligned` | violation | `WeightsMatchList` without the proviso that rewrites are not disturbed |
| `index_panic` | violation | `NeverIndexPanics` |
| `chat` | pass | two subscriptions, two rooms (one no chat account), two overlapping rounds, two messages: `TypeOK`, `MapsAgree`, `NothingSkipped`, `UnderflowIsRejected`, `ClosedLeavesNothing` |
| `chat_leak` | violation | `DisconnectedAreRemoved` under fairness |
| `chat_delay` | violation | `NewMessagesArrive` under fairness |
| `rpc` | pass | a client with up to three requests of every kind: `TypeOK`, `AnswersInOrder`, `AttemptsAreCounted`, and under fairness `AnswersUnlessSilent`; `KeepsPromise` (implements `Submission`) |
| `refresher` | pass | any number of rounds, archivers that disagree or garble, one restart: `ProcessTypeOK`, `CacheIsLatest`, `PublishesWhatVerified`, `SeedsAreAsked`, and under fairness `ServerComesUp` |
| `discovery_duplicates` | violation | `KeysAreUnique` |
| `refresher_dies` | violation | `RefreshGoesOn` under fairness |

The violations are disagreements between the code and its own documentation; each is a
finding in `PROJECT.json` with the sentence it contradicts:

1. `misaligned`: a request runs `prepare_list` beside a refresh. The refresh clears the weights
   just after `prepare_list` has stored its own and before it sets `list_prepared`; the flag then
   stands over a list without weights, and every request after it is refused until the next
   refresh. The same property is broken by two requests that exhaust the round robin together and
   copy the list on either side of a recorded trip (the list of one and the weights of the other
   stay), and by a client that hangs up between the two stores of another.
2. `index_panic`: a refresh stores a shorter list and only later clears the weights; a request
   that reads both in between draws from the weights of the longer list and indexes past the end
   of the short one.
3. `chat_leak`: a panic of the connection's handler (an unknown id to unsubscribe, also in the
   clean-up loop itself, or a query with a parameter that is no string) leaves its
   subscriptions. The branch meant to catch this (a failed send) cannot be reached.
4. `chat_delay`: a second subscriber resets the room's state to the present, so a message
   written just before it is not sent to the first subscriber until somebody writes again.
5. `discovery_duplicates`: `Vec::dedup_by` compares neighbours only.
6. `refresher_dies`: an archiver's key that is no hex, or a body that breaks off, panics the
   refresher; a silent archiver holds it. In the first round that leaves the port closed.

Two sentences of the documentation are contradicted by what the actions say themselves and have
no run: no call is ever cancelled after `max_http_timeout_ms` (config.rs:20; hence the escape of
`AnswersUnlessSilent`), and for the same reason a round trip may exceed it and give a negative
bias (liberdus.rs:196 says 0 to 1). The cumulative weights then fall, which breaks the binary
search, and a negative total makes `gen_range` panic (`DrawEmptyRange`, reached in `weights`).

### Bounds

* Two requests suffice for the interactions of a request with another one and with a refresh;
  a third task only adds more of the same kind of overlap. `balancer` has one list of two nodes
  and a trip of 1 with timeout 2: an unmeasured node has bias 0, a measured one 1 (the code's 0.5
  scaled by the timeout), so that orders, weights and all-zero draws differ with what was
  recorded; its one refresh may run beside any step. `balancer_ends` has lists of lengths two and
  one, so that a refresh shrinks the list, grows it back and repeats it. `weights` needs three
  nodes to have a fast, a slow and a too-slow one in every order, and one task, since its property
  is about what one prepare computes.
* `IndexCap` stops the round-robin counter at the longest list's length: the code only compares
  the counter with lengths, so any larger value behaves the same until the `usize` wraps.
* `MaxRefresh` bounds installs; two are needed for a refresh during a prepare of the previous
  list. At most one spawned trip write is pending at a time; it may still be delayed past any
  number of other steps.
* `balancer_ends` has no round trips (`Rtts` is empty): a call made while the list is unprepared
  ends only by its client, and no trip is recorded. Neither waiting for locks, nor which nodes
  were served, nor how long the weights are depends on the recorded trips.
* `chat`: two rounds are the smallest overlap, two subscriptions the smallest room that is
  shared, two messages and `Lag` 1 the smallest answer from behind. A connection subscribes at
  most `SubId` times.
* `refresher`: an archiver list has at most three entries (`MaxEntries`, in
  `discovery_duplicates` four, the shortest that shows a repetition), so that a list grows,
  shrinks, becomes empty and repeats; two cache writes overlap with each other and with the
  call that reads the file; one crash. The rounds themselves are not bounded. One archiver of
  three is the seed and reliable, another may garble.
* `rpc`: one client, since handlers of different clients share nothing in this module; three
  requests, so that each kind follows and is followed by others; one of them a transaction with
  usable parameters, so that `accepted` is about it; `gen_range(3..5)` in full. An HTTP client
  sends one request. A handler that has closed, or panicked, stops: deadlock is not checked.

### Fairness

tokio runs every task that can run, and its `RwLock` is fair: it queues waiters, so one that
waits for a lock which is free again and again gets it. Hence strong fairness of `Select(t)`,
and weak fairness of handlers and forwarders. HTTP calls made for requests have no timeout, so
`HttpDone` gets no fairness and `SelectionEnds` ends at the call. In `RpcService` a handler goes
on while its peer is not silent, and a peer may fall silent in every call.

`Refresher` assumes a reliable archiver, the seed: it is never silent, and of repeated calls to it
some succeed, name a reliable archiver, and give a node list. Without an archiver that answers
again and again the server could not come up. Nothing forces an archiver to fail or to garble.

The chat properties, which the code violates, are given more: calls end, the refresher keeps
ticking, and of the repeated fetches of a room some are answered by an up-to-date consensor. They
fail all the same.

## 4. What is proved

Every safety property the passing runs check, and both refinements, are theorems: they hold for any
sets of tasks, nodes, clients, rooms and archivers, any lists and any bounds. What is assumed of
the constants is named in the component modules and evaluated by every run:

* NodeSelection: lists are sequences of nodes, round trips naturals, the timeout is positive, the
  cap of the index no smaller than a list, `None` is a value apart.
* ChatRelay: the rooms that are no chat accounts are rooms, bounds are naturals, `None` is a value
  apart.
* ArchiverDiscovery: an archiver is a record of a key and an address (its port never
  changes and is left out), seeds and reports are sequences of archivers. Refresher adds that no
  archiver signs an empty node list (see 5).
* RpcService: frames are requests, retries are naturals with a largest one, `None` is no request.

`LeastNumber` is the one induction rule the proofs use: a set of naturals that is not empty has a
least element. A claim about all lengths is proved by its least counterexample; the rules of the
library take an operator as a parameter, which cannot be instantiated here.

### NodeSelection: `NodeSelectionProofs`, `NodeSelectionRefinement`, `NodeSelectionDraws`

* `TypeCorrect`. `TypeOK` is not inductive: a request about to make its call must have chosen a
  node, and one that stores a list must have weighed it, or its weights would not be numbers.
  `LocalsOK` adds that. That the recursive function behind `Cumulative` exists is the lemma
  `SumExists`.
* `NobodyWaitsHolding`: `nodeGuard` and `biasGuard` are exactly the tasks at the one step that
  gives each back (`GuardsHeld`, inductive with `TypeOK`). So a request that waits for a write
  lock holds no read guard, the safety half of `SelectionEnds`.
* `LatestListServed` follows from `CopyInv`: unless a refresh overtook a copy, the served list and
  every copy that may take its place are reorderings of the latest list, however many
  `prepare_list` calls overlap. Steps that touch no copy are `KeepsCopies`; `FreshReorders` and
  `WeighedReorders` are the lemmas on permutations.
* `WeightsAligned` follows from `AloneInv`, which says what holds while no rewrite ran into another
  or was dropped halfway: there is at most one writer, and none during a refresh; once a writer has
  stored its copy that copy is the list; and when it is about to set the flag the stored weights are
  the list's. The flag is down from the refresher's store to its clearing of the weights. Most
  actions touch none of this (`QuietStep`); the others have a step each.
* `PanicsOnlyTorn` and `WorthlessNeverDrawn` are action properties: what a step at `draw` may do.
  `DrawInv` adds to `AloneInv` and `CopyInv` what a request under way may count on. One that no refresh has
  overtaken looks at a list of the latest length and at weights of that length or none, so its
  index is within the list; one that no rewrite at all has overtaken looks at the list being
  served, which is ranked by bias. Then the search is shown to end left of the worthless nodes
  (`DrawEarns`): the running sums rise while biases are positive and fall from there on
  (`SumsFall`), and a draw is below the last of them. The search is taken by what it promises of
  any two neighbours, not by an order of the whole vector, for with round trips above the timeout
  there is none.
* `RefusalsAreTorn` is an action property as well. `FlagInv`: the flag a request relies on is still
  set, no refresh is under way and nobody else is about to take the flag down, unless a refresh or a
  reset has torn the request since it looked. A refusal at the second look then has a cause in
  `torn`; one at the draw needs an empty copy or empty weights, which `DrawInv` gives to nobody whom
  no refresh has overtaken, while rewrites have not disturbed one another and there are nodes.
* `ImplementsSelector`: every step of the balancer is a step of `Selector` or changes nothing a
  caller can see. `SelectorInv` says that the served list, and every copy that is about to take its
  place, is the whole of a list some archiver signed; it needs no proviso, since even overlapping
  rewrites store a sorted copy of something that was served (`WeighedIds`: sorting loses no id).
  `Fulfils(t)` is a step of the promise for one task; each action has its lemma.
* `CallsListedNodes`, by way of that refinement: whoever a request is sent to was in a list some
  archiver signed. What a request has read or chosen, as `Selector` sees it, only ever comes from
  the served list.

The theorems with a proviso say that an overlap of rewrites, or a rewrite that is dropped, is the
only way for list and weights to come apart: one lock around each rewrite, and a task of its own
that no client can drop, would be enough. A hang-up outside a rewrite changes nothing
(`AloneStep`). The violation runs show that the proviso cannot be dropped.

### ChatRelay: `ChatRelayProofs`

One inductive invariant, `Inv`, gives all five theorems.

* `MapsAlwaysAgree` is inductive with `TypeOK` and `Fresh` (an id not handed out has no room).
* `CleanUpIsComplete` needs `SubscriptionsNoted`: a subscription of a live handler is among the ids
  it will clean up. A handler that panicked is the exception, which `chat_leak` shows.
* `UnderflowRejected` needs `StatesDated`: a state's timestamp is at least that of the message its
  index counts, for the states stored and for those a round has yet to store. The subtraction is
  taken of every answer, before the timestamps are compared, and may underflow; what is shown is
  that any answer too short for it is then rejected by the comparison, so that a release build
  never uses the wrapped difference, although nothing in the code compares lengths. A debug build
  panics at the subtraction, and the model lets it (`ReceiveUnderflows`).
* `NoMessageSkipped` is the hard one: rounds overlap, store older states over newer ones and states
  for rooms that were reset, and panic between sending and storing. The invariant relates every
  state to every subscriber of its room: an answer at hand starts no later than any of them has
  reached, and those already sent to have all of it (`NoneBehindAnswer`); a state that a round
  will store is ahead only of a subscriber it is about to send to (`NoneBehindRound`).
  `Reached(s)` is the message count a subscriber joined at or was sent, whichever is more; it
  never falls while `s` is subscribed. Steps of clients and of rounds have a lemma each.

### ArchiverDiscovery: `ArchiverDiscoveryProofs`

* `DedupKeepsEveryKey`: `dedup` keeps the set of keys and every entry that does not repeat the one
  before it, and leaves no two neighbours with one key.
  `Kept` is a recursive function on prefixes; that it exists and what holds of it is shown prefix
  by prefix. The theorem states what `dedup_by` does; what the doc comment says of it is refuted
  by `discovery_duplicates`.
* `DiscoveryTypes`, `CacheHoldsLatest`: `CacheFollows` says that, unless writes overlapped or were
  cut off, at most one write is under way, it is of the latest list, the file is empty between
  its two steps, and with no write under way the file is the latest list.
* `SeedsAlwaysAsked` and `PublishesVerified` are action properties, from `DedupKeepsEveryKey` and
  `CollectsVerified` (what was collected is what was in lists that verified). A seed is asked at its
  own address unless it comes behind an entry with its key (`BehindItsKey`); in the `refresher` run
  that is the cached seed at the address of a standalone network.

### Refresher: `RefresherProofs`

* `ProcessRunsDiscover`: `ProcessSpec => Spec`. The process implements the component: the loop
  around it, requests and restarts take steps of `discover` or leave it alone.
* `ProcessInherits` carries the three theorems above over to the process, and `ProcessTypes` adds
  the types of the loop: its place stays within a list that every round replaces.

### RpcService: `RpcServiceProofs`

The invariant is a conjunction over clients, `Sound(c)`, so that a step of one client is shown
to keep its own part and to leave those of the others (`Elsewhere`).

* `ResponsesInOrder`: while a request is worked on one response is outstanding and it is that of
  the last request taken (`InOrder`, `OnLast`: an alias may have turned into an account, its id
  has not changed).
* `AttemptsCounted`: `AttemptsAreCounted` is not inductive. `Counted` bounds `Injections` (those
  that took effect, those whose call was lost and that may yet do so, the one on its way) by the
  counter at each place of the loop, and `OneSubmission` says that they all belong to one
  transaction. The counter is incremented exactly where a call may have become a stray one.
* `ImplementsSubmission`: every step is one of `Submission` or changes nothing the client of
  `lib_sendTransaction` sees. `Status(c)`, what the client may know of its transaction, is computed
  from the responses it has (`StatusCases`); success needs `Counted`, a stray arrival below
  `MaxAttempts` as well.
* `SuccessIsEarned`, by way of that refinement: a success is reported only of a transaction that a
  node accepted, and none is accepted more than `MaxAttempts` times.

### Only model-checked

The liveness properties `SelectionEnds`, `AnswersUnlessSilent` and `ServerComesUp`: they need
fairness, and so ENABLED, which is outside the prover's reach. What the violation runs refute is
of course not proved.

## 5. Not modelled

* Cryptography: stateless calls of libsodium. Where a signature is verified the models choose
  among its outcomes, the panics included.
* Configuration: read once and never changed; what behaviour depends on is a constant. A start
  that cannot read its configuration or seed file ends the process at once.
* Layout and wording of responses; the CORS middleware.
* Collisions of `generate_uuid` (two frames in one tick of the clock).
* Memory ordering weaker than sequential consistency, the wrap of `round_robin_index` at 2^64,
  rounding of `f64`.
* An archiver that signs an empty node list (`NodeListsAssumption`): it ends the search for one
  and leaves the server closed, or without a node to call.

## 6. Plan

All components with behaviour of their own are modelled, and every safety property of a passing
run is a theorem. What is left:

1. ArchiverDiscovery: how long a published list may become with the neighbours' duplicates it
   keeps, in terms of the answers collected.
2. ChatRelay: that a message sent to a subscriber is not sent again by the same round, and how far
   overlapping rounds may repeat one.
