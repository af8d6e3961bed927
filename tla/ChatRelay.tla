----------------------------- MODULE ChatRelay -----------------------------
(***************************************************************************)
(* Chat subscriptions: the four maps of ChatRoomSubscriptionData, the      *)
(* WebSocket connections that subscribe and unsubscribe, and the rounds of *)
(* discover_new_chats that fetch every room and forward its new messages.  *)
(*                                                                         *)
(* The maps live behind one RwLock: each method of Liberdus that takes it  *)
(* is one step.  A round is a forwarder task and one fetch task per room;  *)
(* the refresher starts the next round whether or not the last one ended.  *)
(*                                                                         *)
(* A room's messages are numbered 1, 2, ...; its account as of message n   *)
(* carries n messages and the timestamp 2n, and a clock read between       *)
(* messages n and n + 1 lies between 2n and 2n + 2.                        *)
(***************************************************************************)
EXTENDS Integers, Sequences

CONSTANTS
    Conn,            \* WebSocket connections
    SubId,           \* bound: the subscription ids generate_uuid hands out
    Room,            \* account addresses clients subscribe to
    NotChat,         \* the rooms among them whose account is no ChatAccount
    Round,           \* bound: rounds that may be under way at once
    MaxMessages,     \* bound: messages in a room
    Lag,             \* how many messages an answering consensor may be behind
    None

ASSUME RoomAssumption == NotChat \subseteq Room
ASSUME BoundAssumption == MaxMessages \in Nat /\ Lag \in Nat
ASSUME AbsentAssumption ==
    None \notin Conn /\ None \notin Room /\ \A ids \in SUBSET SubId : ids # None

VARIABLES
    subscriptions,        \* sub id -> connection whose sender it holds
    subscribed_chats,     \* room -> set of sub ids; a key is never removed
    chat_room_by_sub_id,  \* sub id -> room
    last_chat_states,     \* room -> (timestamp, number of messages forwarded)
    conn,                 \* "open", "closing", "closed" or "panicked"
    subscription_ids,     \* the ids a connection's handler has collected
    issued,               \* ids handed out so far
    messages,             \* room -> messages on the chain
    forwarder,            \* where a round's forwarder task is
    fetching,             \* rooms a round's fetch tasks have not answered for
    inbox,                \* the round's channel, fetch tasks to forwarder
    read,                 \* locals: the answer at hand and the state read
    todo,                 \* locals: subscribers of the room still to be sent to
    new_chat_states,      \* locals: states to store when the round ends
    joined, got           \* history, read by properties only

maps == <<subscriptions, subscribed_chats, chat_room_by_sub_id, last_chat_states>>
clients == <<conn, subscription_ids, issued>>
rounds == <<forwarder, fetching, inbox, read, todo, new_chat_states>>
history == <<joined, got>>
vars == <<maps, clients, messages, rounds, history>>

-----------------------------------------------------------------------------
Timestamp(n) == 2 * n
State(ts, n) == [timestamp |-> ts, index |-> n]
NoStates == [r \in Room |-> None]
NoAnswer == [room |-> None, len |-> 0, index |-> 0]
Max2(x, y) == IF x > y THEN x ELSE y

\* get_last_chat_state
LastState(r) == IF last_chat_states[r] = None THEN State(0, 0) ELSE last_chat_states[r]
\* get_chat_room_subscriptions
Subscribers(r) == IF subscribed_chats[r] = None THEN {} ELSE subscribed_chats[r]

-----------------------------------------------------------------------------
(* Subscribing and unsubscribing *)

\* Faulty variant of SubscribeChatRoom: the clock is set back by too much.
SubscribeChatRoomBackdated(c, s, r) ==
    /\ subscriptions' = [subscriptions EXCEPT ![s] = c]
    /\ subscribed_chats' = [subscribed_chats EXCEPT ![r] = Subscribers(r) \cup {s}]
    /\ chat_room_by_sub_id' = [chat_room_by_sub_id EXCEPT ![s] = r]
    /\ last_chat_states' =
          [last_chat_states EXCEPT ![r] = State(Timestamp(messages[r]) - 1, 0)]
    /\ joined' = [joined EXCEPT ![s] = messages[r]]
    /\ UNCHANGED got

\* subscribe_chat_room, as room r has messages[r] messages and the clock is
\* just past the last one.
SubscribeChatRoom(c, s, r) ==
    /\ subscriptions' = [subscriptions EXCEPT ![s] = c]
    /\ subscribed_chats' = [subscribed_chats EXCEPT ![r] = Subscribers(r) \cup {s}]
    /\ chat_room_by_sub_id' = [chat_room_by_sub_id EXCEPT ![s] = r]
    /\ last_chat_states' =
          [last_chat_states EXCEPT ![r] = State(Timestamp(messages[r]) + 1, 0)]
    /\ joined' = [joined EXCEPT ![s] = messages[r]]
    /\ UNCHANGED got

\* Faulty variant of UnsubscribeChatRoom: the room's set keeps the id.
UnsubscribeChatRoomHalf(s) ==
    /\ subscriptions' = [subscriptions EXCEPT ![s] = None]
    /\ chat_room_by_sub_id' = [chat_room_by_sub_id EXCEPT ![s] = None]
    /\ last_chat_states' = [last_chat_states EXCEPT ![chat_room_by_sub_id[s]] = None]
    /\ UNCHANGED <<subscribed_chats, history>>

\* unsubscribe_chat_room, for an id whose room is known.
UnsubscribeChatRoom(s) ==
    LET r == chat_room_by_sub_id[s] IN
    /\ subscriptions' = [subscriptions EXCEPT ![s] = None]
    /\ subscribed_chats' = [subscribed_chats EXCEPT ![r] = @ \ {s}]
    /\ chat_room_by_sub_id' = [chat_room_by_sub_id EXCEPT ![s] = None]
    /\ last_chat_states' = [last_chat_states EXCEPT ![r] = None]
    /\ UNCHANGED history

\* For any other id it unwraps None, once the sender (there is none) is removed.
UnsubscribePanics(s) ==
    /\ chat_room_by_sub_id[s] = None
    /\ subscriptions' = [subscriptions EXCEPT ![s] = None]
    /\ UNCHANGED <<subscribed_chats, chat_room_by_sub_id, last_chat_states, history>>

\* Faulty variant of Subscribe: the handler does not note the id.
SubscribeUnnoted(c, s, r) ==
    /\ conn[c] = "open"
    /\ s \notin issued
    /\ issued' = issued \cup {s}
    /\ SubscribeChatRoom(c, s, r)
    /\ UNCHANGED <<conn, subscription_ids, messages, rounds>>

\* lib_subscribe over connection c; the handler notes the id before it calls.
Subscribe(c, s, r) ==
    /\ conn[c] = "open"
    /\ s \notin issued
    /\ issued' = issued \cup {s}
    /\ subscription_ids' = [subscription_ids EXCEPT ![c] = Append(@, s)]
    /\ SubscribeChatRoom(c, s, r)
    /\ UNCHANGED <<conn, messages, rounds>>

\* lib_subscribe without a chat id: an error, but the id has been noted.
SubscribeInvalid(c, s) ==
    /\ conn[c] = "open"
    /\ s \notin issued
    /\ issued' = issued \cup {s}
    /\ subscription_ids' = [subscription_ids EXCEPT ![c] = Append(@, s)]
    /\ UNCHANGED <<conn, maps, messages, rounds, history>>

\* lib_unsubscribe over connection c, for an id of its own or of anyone.
Unsubscribe(c, s) ==
    /\ conn[c] = "open"
    /\ chat_room_by_sub_id[s] # None
    /\ UnsubscribeChatRoom(s)
    /\ UNCHANGED <<clients, messages, rounds>>

\* A panic ends the handler before it reaches its own clean-up loop.
UnsubscribeUnknown(c, s) ==
    /\ conn[c] = "open"
    /\ UnsubscribePanics(s)
    /\ conn' = [conn EXCEPT ![c] = "panicked"]
    /\ UNCHANGED <<subscription_ids, issued, messages, rounds>>

\* So does a panic of any other request over c: an unwrap of a parameter that is
\* no string, or of a node's answer that is not JSON.
QueryPanics(c) ==
    /\ conn[c] = "open"
    /\ conn' = [conn EXCEPT ![c] = "panicked"]
    /\ UNCHANGED <<maps, subscription_ids, issued, messages, rounds, history>>

\* lib_unsubscribe over HTTP needs no connection; where it panics, only the
\* request dies.
UnsubscribeByHttp(s) ==
    /\ chat_room_by_sub_id[s] # None
    /\ UnsubscribeChatRoom(s)
    /\ UNCHANGED <<clients, messages, rounds>>

\* The stream ends: a close, an error, or a frame that is not text.
Disconnect(c) ==
    /\ conn[c] = "open"
    /\ conn' = [conn EXCEPT ![c] = "closing"]
    /\ UNCHANGED <<maps, subscription_ids, issued, messages, rounds, history>>

CleanUp(c) ==
    /\ conn[c] = "closing"
    /\ subscription_ids[c] # <<>>
    /\ LET s == Head(subscription_ids[c]) IN
         \/ /\ chat_room_by_sub_id[s] # None
            /\ UnsubscribeChatRoom(s)
            /\ UNCHANGED conn
         \/ /\ UnsubscribePanics(s)
            /\ conn' = [conn EXCEPT ![c] = "panicked"]
    /\ subscription_ids' = [subscription_ids EXCEPT ![c] = Tail(@)]
    /\ UNCHANGED <<issued, messages, rounds>>

Closed(c) ==
    /\ conn[c] = "closing"
    /\ subscription_ids[c] = <<>>
    /\ conn' = [conn EXCEPT ![c] = "closed"]
    /\ UNCHANGED <<maps, subscription_ids, issued, messages, rounds, history>>

-----------------------------------------------------------------------------
(* discover_new_chats *)

\* Someone writes to the room; the chain accepts it.
NewMessage(r) ==
    /\ r \notin NotChat
    /\ messages[r] < MaxMessages
    /\ messages' = [messages EXCEPT ![r] = @ + 1]
    /\ UNCHANGED <<maps, clients, rounds, history>>

\* With no subscription at all the call returns at once.
NothingToDiscover ==
    /\ \A s \in SubId : subscriptions[s] = None
    /\ UNCHANGED vars

StartRound(f) ==
    /\ forwarder[f] = "off"
    /\ \A g \in Round : forwarder[g] # "spawning"
    /\ \E s \in SubId : subscriptions[s] # None
    /\ forwarder' = [forwarder EXCEPT ![f] = "spawning"]
    /\ UNCHANGED <<maps, clients, messages, fetching, inbox, read, todo,
                   new_chat_states, history>>

\* One fetch task for every key, rooms that nobody subscribes to any more
\* included.
SpawnFetches(f) ==
    /\ forwarder[f] = "spawning"
    /\ fetching' = [fetching EXCEPT ![f] = {r \in Room : subscribed_chats[r] # None}]
    /\ forwarder' = [forwarder EXCEPT ![f] = "receive"]
    /\ UNCHANGED <<maps, clients, messages, inbox, read, todo, new_chat_states, history>>

\* get_account_by_addr(r) answers from a consensor up to Lag messages behind.
FetchAnswers(f, r) ==
    /\ r \in fetching[f]
    /\ \E n \in Max2(0, messages[r] - Lag)..messages[r] :
          inbox' = [inbox EXCEPT ![f] = Append(@, [room |-> r, len |-> n, index |-> 0])]
    /\ fetching' = [fetching EXCEPT ![f] = @ \ {r}]
    /\ UNCHANGED <<maps, clients, messages, forwarder, read, todo, new_chat_states, history>>

\* It fails, or panics on an answer that is not JSON.
FetchFails(f, r) ==
    /\ r \in fetching[f]
    /\ fetching' = [fetching EXCEPT ![f] = @ \ {r}]
    /\ UNCHANGED <<maps, clients, messages, forwarder, inbox, read, todo,
                   new_chat_states, history>>

\* The forwarder task panics: its states are lost, and what its fetch tasks
\* still send goes nowhere.
ForwarderDies(f) ==
    /\ forwarder' = [forwarder EXCEPT ![f] = "off"]
    /\ fetching' = [fetching EXCEPT ![f] = {}]
    /\ inbox' = [inbox EXCEPT ![f] = <<>>]
    /\ read' = [read EXCEPT ![f] = NoAnswer]
    /\ todo' = [todo EXCEPT ![f] = {}]
    /\ new_chat_states' = [new_chat_states EXCEPT ![f] = NoStates]
    /\ UNCHANGED <<maps, clients, messages, history>>

\* from_value::<ChatAccount>(msg).unwrap()
ReceiveNotChat(f) ==
    /\ forwarder[f] = "receive"
    /\ inbox[f] # <<>>
    /\ Head(inbox[f]).room \in NotChat
    /\ ForwarderDies(f)

\* Faulty variant of Receive: the timestamps are not compared.
ReceiveAnyAge(f) ==
    /\ forwarder[f] = "receive"
    /\ inbox[f] # <<>>
    /\ Head(inbox[f]).room \notin NotChat
    /\ LET a == Head(inbox[f])
           last == LastState(a.room)
       IN  IF a.len = last.index
             THEN UNCHANGED <<forwarder, read>>
             ELSE /\ read' = [read EXCEPT ![f] = [a EXCEPT !.index = last.index]]
                  /\ forwarder' = [forwarder EXCEPT ![f] = "subscribers"]
    /\ inbox' = [inbox EXCEPT ![f] = Tail(@)]
    /\ UNCHANGED <<maps, clients, messages, fetching, todo, new_chat_states, history>>

\* Reads the room's last state; goes on only if the answer is newer.
\* `resp.messages.len() - index` comes first: below zero it wraps around in a
\* release build, which carries on here, and panics in a debug build.
Receive(f) ==
    /\ forwarder[f] = "receive"
    /\ inbox[f] # <<>>
    /\ Head(inbox[f]).room \notin NotChat
    /\ LET a == Head(inbox[f])
           last == LastState(a.room)
       IN  IF last.timestamp > Timestamp(a.len) \/ a.len = last.index
             THEN UNCHANGED <<forwarder, read>>
             ELSE /\ read' = [read EXCEPT ![f] = [a EXCEPT !.index = last.index]]
                  /\ forwarder' = [forwarder EXCEPT ![f] = "subscribers"]
    /\ inbox' = [inbox EXCEPT ![f] = Tail(@)]
    /\ UNCHANGED <<maps, clients, messages, fetching, todo, new_chat_states, history>>

ReceiveUnderflows(f) ==
    /\ forwarder[f] = "receive"
    /\ inbox[f] # <<>>
    /\ Head(inbox[f]).room \notin NotChat
    /\ Head(inbox[f]).len < LastState(Head(inbox[f]).room).index
    /\ ForwarderDies(f)

ReadSubscribers(f) ==
    /\ forwarder[f] = "subscribers"
    /\ todo' = [todo EXCEPT ![f] = Subscribers(read[f].room)]
    /\ forwarder' = [forwarder EXCEPT ![f] = "send"]
    /\ UNCHANGED <<maps, clients, messages, fetching, inbox, read, new_chat_states, history>>

\* Faulty variant of Payload: one message too few.
PayloadShort(a) == (a.index + 2)..a.len

\* The payload for one subscriber: messages index + 1 .. len.
Payload(a) == (a.index + 1)..a.len

\* The send never fails: a connection's writer task keeps its receiver as long
\* as any sender, that of a subscription included, exists.  got[s] is the last
\* message before which nothing sent since s subscribed is missing.
Send(f, s) ==
    /\ forwarder[f] = "send"
    /\ s \in todo[f]
    /\ subscriptions[s] # None
    /\ read[f].index <= read[f].len
    /\ got' = [got EXCEPT ![s] =
                 LET reached == Max2(joined[s], got[s]) IN
                 IF reached + 1 \in Payload(read[f]) THEN read[f].len ELSE @]
    /\ new_chat_states' =
          [new_chat_states EXCEPT ![f][read[f].room] =
             State(Timestamp(read[f].len), read[f].len)]
    /\ todo' = [todo EXCEPT ![f] = @ \ {s}]
    /\ UNCHANGED <<maps, clients, messages, forwarder, fetching, inbox, read,
                   joined>>

\* get_subscriber(s).unwrap() on an id unsubscribed meanwhile, or split_off
\* past the end of the messages.
SendPanics(f, s) ==
    /\ forwarder[f] = "send"
    /\ s \in todo[f]
    /\ subscriptions[s] = None \/ read[f].index > read[f].len
    /\ ForwarderDies(f)

NextAnswer(f) ==
    /\ forwarder[f] = "send"
    /\ todo[f] = {}
    /\ forwarder' = [forwarder EXCEPT ![f] = "receive"]
    /\ read' = [read EXCEPT ![f] = NoAnswer]
    /\ UNCHANGED <<maps, clients, messages, fetching, inbox, todo, new_chat_states, history>>

\* Every sender is gone and the channel is empty.
ChannelCloses(f) ==
    /\ forwarder[f] = "receive"
    /\ fetching[f] = {}
    /\ inbox[f] = <<>>
    /\ forwarder' = [forwarder EXCEPT ![f] = "store"]
    /\ UNCHANGED <<maps, clients, messages, fetching, inbox, read, todo,
                   new_chat_states, history>>

StoreState(f, r) ==
    /\ forwarder[f] = "store"
    /\ new_chat_states[f][r] # None
    /\ last_chat_states' = [last_chat_states EXCEPT ![r] = new_chat_states[f][r]]
    /\ new_chat_states' = [new_chat_states EXCEPT ![f][r] = None]
    /\ UNCHANGED <<subscriptions, subscribed_chats, chat_room_by_sub_id, clients,
                   messages, forwarder, fetching, inbox, read, todo, history>>

RoundEnds(f) ==
    /\ forwarder[f] = "store"
    /\ new_chat_states[f] = NoStates
    /\ forwarder' = [forwarder EXCEPT ![f] = "off"]
    /\ UNCHANGED <<maps, clients, messages, fetching, inbox, read, todo,
                   new_chat_states, history>>

-----------------------------------------------------------------------------
Init ==
    /\ subscriptions = [s \in SubId |-> None]
    /\ subscribed_chats = [r \in Room |-> None]
    /\ chat_room_by_sub_id = [s \in SubId |-> None]
    /\ last_chat_states = NoStates
    /\ conn = [c \in Conn |-> "open"]
    /\ subscription_ids = [c \in Conn |-> <<>>]
    /\ issued = {}
    /\ messages = [r \in Room |-> 0]
    /\ forwarder = [f \in Round |-> "off"]
    /\ fetching = [f \in Round |-> {}]
    /\ inbox = [f \in Round |-> <<>>]
    /\ read = [f \in Round |-> NoAnswer]
    /\ todo = [f \in Round |-> {}]
    /\ new_chat_states = [f \in Round |-> NoStates]
    /\ joined = [s \in SubId |-> 0]
    /\ got = [s \in SubId |-> 0]

Client == \E c \in Conn :
    \/ \E s \in SubId, r \in Room : Subscribe(c, s, r)
    \/ \E s \in SubId : SubscribeInvalid(c, s)
    \/ \E s \in SubId : Unsubscribe(c, s)
    \/ \E s \in SubId : UnsubscribeUnknown(c, s)
    \/ QueryPanics(c)
    \/ Disconnect(c)
    \/ CleanUp(c)
    \/ Closed(c)

Forward(f) ==
    \/ SpawnFetches(f)
    \/ Receive(f) \/ ReceiveNotChat(f) \/ ReceiveUnderflows(f)
    \/ ReadSubscribers(f)
    \/ \E s \in SubId : Send(f, s) \/ SendPanics(f, s)
    \/ NextAnswer(f) \/ ChannelCloses(f) \/ RoundEnds(f)
    \/ \E r \in Room : StoreState(f, r)

Next ==
    \/ Client
    \/ \E s \in SubId : UnsubscribeByHttp(s)
    \/ \E r \in Room : NewMessage(r)
    \/ NothingToDiscover
    \/ \E f \in Round :
          \/ StartRound(f)
          \/ Forward(f)
          \/ \E r \in Room : FetchAnswers(f, r) \/ FetchFails(f, r)

Spec == Init /\ [][Next]_vars

\* Tasks run when they can, so a handler whose client is gone cleans up; the
\* interval timer keeps ticking; calls end, and of repeated calls for a room
\* some are answered by an up-to-date consensor.
UpToDate(f, r) ==
    /\ FetchAnswers(f, r)
    /\ inbox'[f][Len(inbox'[f])].len = messages[r]
Fairness ==
    /\ \A c \in Conn : WF_vars(CleanUp(c) \/ Closed(c))
    /\ \A f \in Round : WF_vars(StartRound(f)) /\ WF_vars(Forward(f))
    /\ \A f \in Round, r \in Room :
          /\ WF_vars(FetchAnswers(f, r) \/ FetchFails(f, r))
          /\ SF_vars(UpToDate(f, r))
FairSpec == Spec /\ Fairness

-----------------------------------------------------------------------------
(* Properties *)

ChatState == [timestamp : Nat, index : Nat]
Answer == [room : Room \cup {None}, len : Nat, index : Nat]

\* The type invariant of the four maps, the connections and the rounds.
TypeOK ==
    /\ subscriptions \in [SubId -> Conn \cup {None}]
    /\ subscribed_chats \in [Room -> (SUBSET SubId) \cup {None}]
    /\ chat_room_by_sub_id \in [SubId -> Room \cup {None}]
    /\ last_chat_states \in [Room -> ChatState \cup {None}]
    /\ conn \in [Conn -> {"open", "closing", "closed", "panicked"}]
    /\ subscription_ids \in [Conn -> Seq(SubId)]
    /\ issued \subseteq SubId
    /\ messages \in [Room -> 0..MaxMessages]
    /\ forwarder \in [Round -> {"off", "spawning", "receive", "subscribers",
                                 "send", "store"}]
    /\ fetching \in [Round -> SUBSET Room]
    /\ inbox \in [Round -> Seq(Answer)]
    /\ read \in [Round -> Answer]
    /\ todo \in [Round -> SUBSET SubId]
    /\ new_chat_states \in [Round -> [Room -> ChatState \cup {None}]]
    /\ joined \in [SubId -> Nat]
    /\ got \in [SubId -> Nat]

\* The maps of ChatRoomSubscriptionData tell one story: an id has a sender
\* exactly when it has a room, and then it is in that room's set and no other.
MapsAgree ==
    \A s \in SubId :
        /\ (subscriptions[s] = None) = (chat_room_by_sub_id[s] = None)
        /\ \A r \in Room : s \in Subscribers(r) <=> chat_room_by_sub_id[s] = r

\* The state kept for a room never runs ahead of a subscriber: every message up
\* to it was sent to the subscriber, or was there before it subscribed.  So no
\* message is skipped, however rounds overlap, panic or answer from behind.
NothingSkipped ==
    \A s \in SubId :
        LET r == chat_room_by_sub_id[s] IN
        r # None => LastState(r).index <= Max2(joined[s], got[s])

\* `len - index` is taken before the timestamps are compared, and nothing compares
\* the lengths.  Still, an answer too short for it is one that the timestamps reject
\* next, so in a release build the wrapped difference is never used, and an answer
\* that they let through is long enough for split_off.  (In a debug build the
\* subtraction panics: ReceiveUnderflows.)
UnderflowIsRejected ==
    \A f \in Round :
        /\ \A k \in 1..Len(inbox[f]) :
              LET a == inbox[f][k] IN
              a.len < LastState(a.room).index =>
                  LastState(a.room).timestamp > Timestamp(a.len)
        /\ forwarder[f] \in {"subscribers", "send"} => read[f].index <= read[f].len

\* A handler that reached the end of its clean-up has left no subscription.
ClosedLeavesNothing ==
    \A s \in SubId : subscriptions[s] # None => conn[subscriptions[s]] # "closed"

\* "Subscriber disconnects: ... removes the subscription and cleans up the
\* internal state" (doc of discover_new_chats): once a handler is over, however
\* it ended, its subscriptions are removed.
DisconnectedAreRemoved ==
    \A s \in SubId :
        subscriptions[s] # None /\ conn[subscriptions[s]] \in {"closed", "panicked"}
            ~> subscriptions[s] = None

\* "New messages arrive: ... sends them to sub1": a message written after s
\* subscribed reaches s, unless s is gone before.
NewMessagesArrive ==
    \A s \in SubId, n \in 1..MaxMessages :
        LET r == chat_room_by_sub_id[s] IN
        (r # None /\ joined[s] < n /\ messages[r] >= n)
            ~> (got[s] >= n \/ chat_room_by_sub_id[s] = None)
=============================================================================
