-------------------------- MODULE ChatRelayProofs --------------------------
(***************************************************************************)
(* Proofs about ChatRelay, for every set of connections, ids and rooms,    *)
(* any number of rounds under way at once, and any lag of the consensors.  *)
(***************************************************************************)
EXTENDS ChatRelay, TLAPS

-----------------------------------------------------------------------------
(* The inductive invariant *)

\* An id that was not handed out has no room.
Fresh == \A s \in SubId : s \notin issued => chat_room_by_sub_id[s] = None

\* While its handler lives, a subscription's id is one the handler will clean up.
Noted(s, c) == \E k \in 1..Len(subscription_ids[c]) : subscription_ids[c][k] = s
SubscriptionsNoted ==
    \A s \in SubId, c \in Conn :
        subscriptions[s] = c => \/ conn[c] = "panicked"
                                \/ conn[c] \in {"open", "closing"} /\ Noted(s, c)

\* A state is no older than the messages it counts.
Dated(state) == state # None => state.timestamp >= Timestamp(state.index)
StatesDated ==
    \A r \in Room :
        /\ Dated(last_chat_states[r])
        /\ \A f \in Round : Dated(new_chat_states[f][r])

\* An answer is about a room and was true once.
AnswersTrue ==
    \A f \in Round : \A k \in 1..Len(inbox[f]) :
        /\ inbox[f][k].room \in Room
        /\ inbox[f][k].len <= messages[inbox[f][k].room]

\* The answer at hand is one of those, and newer than the state it is held against.
Handling(f) == forwarder[f] \in {"subscribers", "send"}
AnswerAtHand ==
    \A f \in Round : Handling(f) =>
        /\ read[f].room \in Room
        /\ read[f].len <= messages[read[f].room]
        /\ read[f].index <= read[f].len

\* The last message before which nothing that s should get is missing.
Reached(s) == Max2(joined[s], got[s])

\* Every subscriber of the room had all that came before the answer, and those the
\* forwarder need not send to any more have the answer itself.
NoneBehindAnswer ==
    \A f \in Round, s \in SubId :
        Handling(f) /\ chat_room_by_sub_id[s] = read[f].room =>
            /\ read[f].index <= Reached(s)
            /\ forwarder[f] = "send" /\ s \notin todo[f] => read[f].len <= Reached(s)

\* Nor is a subscriber behind the state a round will store, except one that the
\* forwarder is about to send to.
NoneBehindRound ==
    \A f \in Round, r \in Room :
        new_chat_states[f][r] # None =>
            /\ new_chat_states[f][r].index <= messages[r]
            /\ \A s \in SubId : chat_room_by_sub_id[s] = r =>
                  \/ new_chat_states[f][r].index <= Reached(s)
                  \/ forwarder[f] = "send" /\ read[f].room = r /\ s \in todo[f]

Inv == /\ TypeOK /\ Fresh /\ MapsAgree /\ SubscriptionsNoted
       /\ StatesDated /\ AnswersTrue /\ AnswerAtHand
       /\ NoneBehindAnswer /\ NoneBehindRound /\ NothingSkipped

-----------------------------------------------------------------------------
(* Types *)

LEMMA TypeInit ==
  ASSUME Init
  PROVE  TypeOK
BY BoundAssumption DEF Init, TypeOK, NoStates, NoAnswer, Answer

LEMMA SubscribersType ==
  ASSUME TypeOK, NEW r \in Room
  PROVE  Subscribers(r) \subseteq SubId
BY DEF TypeOK, Subscribers

LEMMA LastStateType ==
  ASSUME TypeOK, NEW r \in Room
  PROVE  LastState(r) \in ChatState
BY DEF TypeOK, LastState, State, ChatState

LEMMA MessagesAreNat ==
  ASSUME TypeOK, NEW r \in Room
  PROVE  messages[r] \in Nat
BY BoundAssumption DEF TypeOK

LEMMA SubscribeType ==
  ASSUME TypeOK, NEW c \in Conn, NEW s \in SubId, NEW r \in Room, Subscribe(c, s, r)
  PROVE  TypeOK'
<1> USE DEF TypeOK, Subscribe, SubscribeChatRoom, rounds
<1>1. State(Timestamp(messages[r]) + 1, 0) \in ChatState
  BY MessagesAreNat DEF State, Timestamp, ChatState
<1>2. last_chat_states' \in [Room -> ChatState \cup {None}]
  BY <1>1
<1>3. subscribed_chats' \in [Room -> (SUBSET SubId) \cup {None}]
  <2>1. Subscribers(r) \cup {s} \in SUBSET SubId
    BY SubscribersType
  <2> QED BY <2>1
<1>4. joined' \in [SubId -> Nat]
  BY MessagesAreNat
<1>5. subscription_ids' \in [Conn -> Seq(SubId)]
  OBVIOUS
<1> QED BY <1>2, <1>3, <1>4, <1>5

LEMMA UnsubscribeType ==
  ASSUME TypeOK, MapsAgree, NEW s \in SubId, chat_room_by_sub_id[s] # None,
         UnsubscribeChatRoom(s)
  PROVE  /\ subscriptions' \in [SubId -> Conn \cup {None}]
         /\ subscribed_chats' \in [Room -> (SUBSET SubId) \cup {None}]
         /\ chat_room_by_sub_id' \in [SubId -> Room \cup {None}]
         /\ last_chat_states' \in [Room -> ChatState \cup {None}]
         /\ joined' = joined /\ got' = got
<1> DEFINE r == chat_room_by_sub_id[s]
<1>1. r \in Room
  BY DEF TypeOK
<1>2. s \in Subscribers(r)
  BY <1>1 DEF MapsAgree
<1>3. subscribed_chats[r] \in SUBSET SubId
  BY <1>1, <1>2 DEF TypeOK, Subscribers
<1>4. subscribed_chats' = [subscribed_chats EXCEPT ![r] = subscribed_chats[r] \ {s}]
  BY DEF UnsubscribeChatRoom
<1>5. subscribed_chats[r] \ {s} \in SUBSET SubId
  BY <1>3
<1>6. subscribed_chats' \in [Room -> (SUBSET SubId) \cup {None}]
  BY <1>4, <1>5 DEF TypeOK
<1> QED BY <1>6 DEF TypeOK, UnsubscribeChatRoom, history

LEMMA DiesType ==
  ASSUME TypeOK, NEW f \in Round, ForwarderDies(f)
  PROVE  TypeOK'
<1>1. NoAnswer \in Answer
  BY DEF NoAnswer, Answer
<1>2. NoStates \in [Room -> ChatState \cup {None}]
  BY DEF NoStates
<1>3. /\ new_chat_states' \in [Round -> [Room -> ChatState \cup {None}]]
      /\ inbox' \in [Round -> Seq(Answer)]
      /\ read' \in [Round -> Answer]
  BY <1>1, <1>2 DEF ForwarderDies, TypeOK
<1> QED BY <1>3 DEF ForwarderDies, TypeOK, maps, clients, history

LEMMA HeadOfInbox ==
  ASSUME TypeOK, NEW f \in Round, inbox[f] # <<>>
  PROVE  /\ Head(inbox[f]) \in Answer
         /\ Tail(inbox[f]) \in Seq(Answer)
         /\ Len(inbox[f]) \in Nat \ {0}
         /\ Head(inbox[f]) = inbox[f][1]
         /\ Len(Tail(inbox[f])) = Len(inbox[f]) - 1
         /\ \A k \in 1..Len(Tail(inbox[f])) : Tail(inbox[f])[k] = inbox[f][k + 1]
BY DEF TypeOK

\* What Receive makes of the answer at the head of the channel.
Held(f) == [room  |-> Head(inbox[f]).room,
            len   |-> Head(inbox[f]).len,
            index |-> LastState(Head(inbox[f]).room).index]

LEMMA HeldIs ==
  ASSUME TypeOK, AnswersTrue, NEW f \in Round, inbox[f] # <<>>
  PROVE  /\ Head(inbox[f]).room \in Room
         /\ Head(inbox[f]).len \in Nat
         /\ Head(inbox[f]).len <= messages[Head(inbox[f]).room]
         /\ [Head(inbox[f]) EXCEPT !.index = LastState(Head(inbox[f]).room).index] = Held(f)
         /\ Held(f) \in Answer
<1>1. Head(inbox[f]) \in Answer /\ 1 \in 1..Len(inbox[f])
  BY HeadOfInbox
<1>2. /\ Head(inbox[f]).room \in Room
      /\ Head(inbox[f]).len <= messages[Head(inbox[f]).room]
  BY <1>1, HeadOfInbox DEF AnswersTrue
<1>3. LastState(Head(inbox[f]).room) \in ChatState
  BY <1>2, LastStateType
<1> QED BY <1>1, <1>2, <1>3 DEF Answer, ChatState, Held

LEMMA ReceiveCases ==
  ASSUME TypeOK, AnswersTrue, NEW f \in Round, Receive(f)
  PROVE  /\ forwarder[f] = "receive" /\ inbox[f] # <<>>
         /\ inbox' = [inbox EXCEPT ![f] = Tail(@)]
         /\ UNCHANGED <<maps, clients, messages, fetching, todo, new_chat_states, history>>
         /\ \/ UNCHANGED <<forwarder, read>>
            \/ /\ ~ (LastState(Held(f).room).timestamp > Timestamp(Held(f).len))
               /\ read' = [read EXCEPT ![f] = Held(f)]
               /\ forwarder' = [forwarder EXCEPT ![f] = "subscribers"]
<1>1. inbox[f] # <<>>
  BY DEF Receive
<1>2. [Head(inbox[f]) EXCEPT !.index = LastState(Head(inbox[f]).room).index] = Held(f)
  BY <1>1, HeldIs
<1>3. Held(f).room = Head(inbox[f]).room /\ Held(f).len = Head(inbox[f]).len
  BY DEF Held
<1> QED BY <1>2, <1>3 DEF Receive

LEMMA SendType ==
  ASSUME TypeOK, AnswerAtHand, NEW f \in Round, NEW s \in SubId, Send(f, s)
  PROVE  TypeOK'
<1> USE DEF TypeOK, Send
<1>1. read[f].room \in Room /\ read[f].len \in Nat
  BY DEF AnswerAtHand, Handling, Answer
<1>2. State(Timestamp(read[f].len), read[f].len) \in ChatState
  BY <1>1 DEF State, Timestamp, ChatState
<1>3. new_chat_states' \in [Round -> [Room -> ChatState \cup {None}]]
  BY <1>1, <1>2
<1>4. got' \in [SubId -> Nat]
  BY <1>1
<1> QED BY <1>3, <1>4 DEF maps, clients

LEMMA TypeStep ==
  ASSUME TypeOK, MapsAgree, AnswersTrue, AnswerAtHand, Next
  PROVE  TypeOK'
<1> USE DEF TypeOK, maps, clients, rounds, history
<1>1. ASSUME NEW c \in Conn, NEW s \in SubId, NEW r \in Room, Subscribe(c, s, r)
      PROVE  TypeOK'
  BY <1>1, SubscribeType
<1>2. ASSUME NEW c \in Conn, NEW s \in SubId, SubscribeInvalid(c, s)
      PROVE  TypeOK'
  BY <1>2 DEF SubscribeInvalid
<1>3. ASSUME NEW c \in Conn, NEW s \in SubId, Unsubscribe(c, s)
      PROVE  TypeOK'
  BY <1>3, UnsubscribeType DEF Unsubscribe
<1>4. ASSUME NEW c \in Conn, NEW s \in SubId, UnsubscribeUnknown(c, s)
      PROVE  TypeOK'
  BY <1>4 DEF UnsubscribeUnknown, UnsubscribePanics
<1>5. ASSUME NEW c \in Conn, QueryPanics(c) \/ Disconnect(c) \/ Closed(c)
      PROVE  TypeOK'
  BY <1>5 DEF QueryPanics, Disconnect, Closed
<1>6. ASSUME NEW c \in Conn, CleanUp(c)
      PROVE  TypeOK'
  <2> DEFINE s == Head(subscription_ids[c])
  <2>1. s \in SubId /\ Tail(subscription_ids[c]) \in Seq(SubId)
    BY <1>6 DEF CleanUp
  <2>2. subscription_ids' \in [Conn -> Seq(SubId)]
    BY <1>6, <2>1 DEF CleanUp
  <2>3. CASE chat_room_by_sub_id[s] # None /\ UnsubscribeChatRoom(s) /\ UNCHANGED conn
    BY <1>6, <2>1, <2>2, <2>3, UnsubscribeType DEF CleanUp
  <2>4. CASE UnsubscribePanics(s) /\ conn' = [conn EXCEPT ![c] = "panicked"]
    BY <1>6, <2>1, <2>2, <2>4 DEF CleanUp, UnsubscribePanics
  <2> QED BY <1>6, <2>3, <2>4 DEF CleanUp
<1>7. ASSUME NEW s \in SubId, UnsubscribeByHttp(s)
      PROVE  TypeOK'
  BY <1>7, UnsubscribeType DEF UnsubscribeByHttp
<1>8. ASSUME NEW r \in Room, NewMessage(r)
      PROVE  TypeOK'
  BY <1>8, BoundAssumption DEF NewMessage
<1>9. ASSUME NothingToDiscover
      PROVE  TypeOK'
  BY <1>9 DEF NothingToDiscover, vars
<1>10. ASSUME NEW f \in Round, StartRound(f) \/ ChannelCloses(f) \/ RoundEnds(f)
       PROVE  TypeOK'
  BY <1>10 DEF StartRound, ChannelCloses, RoundEnds
<1>11. ASSUME NEW f \in Round, SpawnFetches(f)
       PROVE  TypeOK'
  BY <1>11 DEF SpawnFetches
<1>12. ASSUME NEW f \in Round, NEW r \in Room, FetchAnswers(f, r)
       PROVE  TypeOK'
  <2>1. PICK n \in Max2(0, messages[r] - Lag)..messages[r] :
           inbox' = [inbox EXCEPT ![f] = Append(@, [room |-> r, len |-> n, index |-> 0])]
    BY <1>12 DEF FetchAnswers
  <2>2. n \in Nat
    BY MessagesAreNat, BoundAssumption DEF Max2
  <2>3. [room |-> r, len |-> n, index |-> 0] \in Answer
    BY <2>2 DEF Answer
  <2>4. inbox' \in [Round -> Seq(Answer)]
    BY <2>1, <2>3
  <2> QED BY <1>12, <2>4 DEF FetchAnswers
<1>13. ASSUME NEW f \in Round, NEW r \in Room, FetchFails(f, r)
       PROVE  TypeOK'
  BY <1>13 DEF FetchFails
<1>14. ASSUME NEW f \in Round,
              \/ ReceiveNotChat(f) \/ ReceiveUnderflows(f)
              \/ \E s \in SubId : SendPanics(f, s)
       PROVE  TypeOK'
  BY <1>14, DiesType DEF ReceiveNotChat, ReceiveUnderflows, SendPanics
<1>15. ASSUME NEW f \in Round, Receive(f)
       PROVE  TypeOK'
  <2>1. /\ inbox[f] # <<>> /\ inbox' = [inbox EXCEPT ![f] = Tail(@)]
        /\ UNCHANGED <<maps, clients, messages, fetching, todo, new_chat_states, history>>
    BY <1>15, ReceiveCases
  <2>2. inbox' \in [Round -> Seq(Answer)]
    BY <2>1, HeadOfInbox
  <2>3. CASE UNCHANGED <<forwarder, read>>
    BY <2>1, <2>2, <2>3
  <2>4. CASE /\ read' = [read EXCEPT ![f] = Held(f)]
             /\ forwarder' = [forwarder EXCEPT ![f] = "subscribers"]
    <3>1. Held(f) \in Answer
      BY <2>1, HeldIs
    <3> QED BY <2>1, <2>2, <2>4, <3>1
  <2> QED BY <1>15, <2>3, <2>4, ReceiveCases
<1>16. ASSUME NEW f \in Round, ReadSubscribers(f)
       PROVE  TypeOK'
  <2>1. Subscribers(read[f].room) \subseteq SubId
    BY <1>16, SubscribersType DEF AnswerAtHand, Handling, ReadSubscribers
  <2> QED BY <1>16, <2>1 DEF ReadSubscribers
<1>17. ASSUME NEW f \in Round, NEW s \in SubId, Send(f, s)
       PROVE  TypeOK'
  BY <1>17, SendType
<1>18. ASSUME NEW f \in Round, NextAnswer(f)
       PROVE  TypeOK'
  <2>1. NoAnswer \in Answer
    BY DEF NoAnswer, Answer
  <2> QED BY <1>18, <2>1 DEF NextAnswer
<1>19. ASSUME NEW f \in Round, NEW r \in Room, StoreState(f, r)
       PROVE  TypeOK'
  <2>1. last_chat_states' \in [Room -> ChatState \cup {None}]
    BY <1>19 DEF StoreState
  <2>2. new_chat_states' \in [Round -> [Room -> ChatState \cup {None}]]
    BY <1>19 DEF StoreState
  <2> QED BY <1>19, <2>1, <2>2 DEF StoreState
<1> HIDE DEF TypeOK, maps, clients, rounds, history
<1> QED
  BY <1>1, <1>2, <1>3, <1>4, <1>5, <1>6, <1>7, <1>8, <1>9, <1>10, <1>11, <1>12, <1>13,
     <1>14, <1>15, <1>16, <1>17, <1>18, <1>19
  DEF Next, Client, Forward

-----------------------------------------------------------------------------
(* The maps, and what the handlers noted *)

\* What clients change and rounds do not.
registered == <<subscriptions, subscribed_chats, chat_room_by_sub_id, joined, clients>>

RoundStep ==
    \/ NothingToDiscover
    \/ \E r \in Room : NewMessage(r)
    \/ \E f \in Round :
          \/ StartRound(f)
          \/ Forward(f)
          \/ \E r \in Room : FetchAnswers(f, r) \/ FetchFails(f, r)

LEMMA RoundsRegisterNothing ==
  ASSUME RoundStep
  PROVE  UNCHANGED registered
<1> USE DEF registered, maps, clients, history
<1>1. CASE NothingToDiscover \/ \E r \in Room : NewMessage(r)
  BY <1>1 DEF NothingToDiscover, NewMessage, vars
<1>2. ASSUME NEW f \in Round, ForwarderDies(f)
      PROVE  UNCHANGED registered
  BY <1>2 DEF ForwarderDies
<1>3. ASSUME NEW f \in Round,
             \/ StartRound(f)
             \/ \E r \in Room : FetchAnswers(f, r) \/ FetchFails(f, r)
      PROVE  UNCHANGED registered
  BY <1>3 DEF StartRound, FetchAnswers, FetchFails
<1>4. ASSUME NEW f \in Round, Forward(f)
      PROVE  UNCHANGED registered
  <2>1. CASE SpawnFetches(f) \/ Receive(f) \/ ReadSubscribers(f)
    BY <2>1 DEF SpawnFetches, Receive, ReadSubscribers
  <2>2. CASE ReceiveNotChat(f) \/ ReceiveUnderflows(f) \/ \E s \in SubId : SendPanics(f, s)
    BY <1>2, <2>2 DEF ReceiveNotChat, ReceiveUnderflows, SendPanics
  <2>3. CASE \E s \in SubId : Send(f, s)
    BY <2>3 DEF Send
  <2>4. CASE NextAnswer(f) \/ ChannelCloses(f) \/ RoundEnds(f) \/ \E r \in Room : StoreState(f, r)
    BY <2>4 DEF NextAnswer, ChannelCloses, RoundEnds, StoreState
  <2> QED BY <1>4, <2>1, <2>2, <2>3, <2>4 DEF Forward
<1> QED BY <1>1, <1>3, <1>4 DEF RoundStep

LEMMA SubscribeAgrees ==
  ASSUME TypeOK, Fresh, MapsAgree, NEW c \in Conn, NEW s \in SubId, NEW r \in Room,
         Subscribe(c, s, r)
  PROVE  Fresh' /\ MapsAgree'
<1> USE DEF Subscribe, SubscribeChatRoom
<1>1. chat_room_by_sub_id[s] = None /\ \A q \in Room : s \notin Subscribers(q)
  BY AbsentAssumption DEF Fresh, MapsAgree
<1>2. /\ subscriptions' = [subscriptions EXCEPT ![s] = c]
      /\ chat_room_by_sub_id' = [chat_room_by_sub_id EXCEPT ![s] = r]
      /\ issued' = issued \cup {s}
  OBVIOUS
<1>3. Fresh'
  BY <1>2 DEF Fresh, TypeOK
<1>4. r # None /\ c # None
  BY AbsentAssumption
<1>5. \A q \in Room : Subscribers(q)' = IF q = r THEN Subscribers(r) \cup {s} ELSE Subscribers(q)
  <2>1. Subscribers(r) \cup {s} # None
    BY AbsentAssumption, SubscribersType
  <2> QED BY <2>1 DEF Subscribers, TypeOK
<1>6. MapsAgree'
  <2> SUFFICES ASSUME NEW t \in SubId
               PROVE  /\ (subscriptions'[t] = None) <=> (chat_room_by_sub_id'[t] = None)
                      /\ \A q \in Room : t \in Subscribers(q)' <=> chat_room_by_sub_id'[t] = q
    BY DEF MapsAgree
  <2>1. CASE t = s
    BY <1>1, <1>2, <1>4, <1>5, <2>1 DEF TypeOK
  <2>2. CASE t # s
    <3>1. subscriptions'[t] = subscriptions[t] /\ chat_room_by_sub_id'[t] = chat_room_by_sub_id[t]
      BY <1>2, <2>2 DEF TypeOK
    <3>2. \A q \in Room : t \in Subscribers(q)' <=> t \in Subscribers(q)
      BY <1>5, <2>2
    <3> QED BY <3>1, <3>2 DEF MapsAgree
  <2> QED BY <2>1, <2>2
<1> QED BY <1>3, <1>6

LEMMA UnsubscribeAgrees ==
  ASSUME TypeOK, Fresh, MapsAgree, NEW s \in SubId, chat_room_by_sub_id[s] # None,
         UnsubscribeChatRoom(s), UNCHANGED issued
  PROVE  Fresh' /\ MapsAgree'
<1> DEFINE r == chat_room_by_sub_id[s]
<1>1. r \in Room /\ s \in Subscribers(r) /\ subscribed_chats[r] # None
  BY DEF TypeOK, MapsAgree, Subscribers
<1>2. /\ subscriptions' = [subscriptions EXCEPT ![s] = None]
      /\ chat_room_by_sub_id' = [chat_room_by_sub_id EXCEPT ![s] = None]
      /\ subscribed_chats' = [subscribed_chats EXCEPT ![r] = subscribed_chats[r] \ {s}]
  BY DEF UnsubscribeChatRoom
<1>3. Fresh'
  BY <1>2 DEF Fresh, TypeOK
<1>4. \A q \in Room : Subscribers(q)' = Subscribers(q) \ (IF q = r THEN {s} ELSE {})
  <2>1. subscribed_chats[r] \ {s} \in SUBSET SubId
    BY <1>1 DEF TypeOK
  <2>2. subscribed_chats[r] \ {s} # None
    BY <2>1, AbsentAssumption
  <2> HIDE DEF r
  <2> QED BY <1>1, <1>2, <2>2 DEF Subscribers, TypeOK
<1>5. MapsAgree'
  <2> SUFFICES ASSUME NEW t \in SubId
               PROVE  /\ (subscriptions'[t] = None) <=> (chat_room_by_sub_id'[t] = None)
                      /\ \A q \in Room : t \in Subscribers(q)' <=> chat_room_by_sub_id'[t] = q
    BY DEF MapsAgree
  <2>1. CASE t = s
    <3>1. subscriptions'[t] = None /\ chat_room_by_sub_id'[t] = None
      BY <1>2, <2>1 DEF TypeOK
    <3>2. \A q \in Room : t \notin Subscribers(q)'
      BY <1>4, <2>1 DEF MapsAgree
    <3> QED BY <3>1, <3>2, AbsentAssumption
  <2>2. CASE t # s
    <3>1. subscriptions'[t] = subscriptions[t] /\ chat_room_by_sub_id'[t] = chat_room_by_sub_id[t]
      BY <1>2, <2>2 DEF TypeOK
    <3>2. \A q \in Room : t \in Subscribers(q)' <=> t \in Subscribers(q)
      BY <1>4, <2>2
    <3> QED BY <3>1, <3>2 DEF MapsAgree
  <2> QED BY <2>1, <2>2
<1> QED BY <1>3, <1>5

\* The unwrap panics before it changes anything.
LEMMA PanicChangesNoMap ==
  ASSUME TypeOK, MapsAgree, NEW s \in SubId, UnsubscribePanics(s)
  PROVE  UNCHANGED <<maps, history>>
<1>1. subscriptions[s] = None
  BY DEF UnsubscribePanics, MapsAgree
<1>2. subscriptions' = subscriptions
  BY <1>1 DEF UnsubscribePanics, TypeOK
<1> QED BY <1>2 DEF UnsubscribePanics, maps

\* Who may take the maps' write lock, besides a round that stores its states.
Unsubscribing(s) ==
    chat_room_by_sub_id[s] # None /\ UnsubscribeChatRoom(s) /\ UNCHANGED issued

LEMMA ClientCases ==
  ASSUME TypeOK, MapsAgree, Next
  PROVE  \/ \E c \in Conn, s \in SubId, r \in Room : Subscribe(c, s, r)
         \/ /\ \E s \in SubId : Unsubscribing(s)
            /\ UNCHANGED <<messages, rounds>>
         \/ /\ UNCHANGED <<maps, history, messages, rounds>>
            /\ issued \subseteq issued'
         \/ RoundStep
<1>1. ASSUME NEW c \in Conn, NEW s \in SubId, UnsubscribeUnknown(c, s)
      PROVE  UNCHANGED <<maps, history, messages, rounds, issued>>
  BY <1>1, PanicChangesNoMap DEF UnsubscribeUnknown
<1>2. ASSUME NEW c \in Conn, CleanUp(c)
      PROVE  \/ (\E s \in SubId : Unsubscribing(s)) /\ UNCHANGED <<messages, rounds>>
             \/ UNCHANGED <<maps, history, messages, rounds, issued>>
  <2>1. Head(subscription_ids[c]) \in SubId
    BY <1>2 DEF CleanUp, TypeOK
  <2>2. CASE UnsubscribePanics(Head(subscription_ids[c]))
    BY <1>2, <2>1, <2>2, PanicChangesNoMap DEF CleanUp
  <2> QED BY <1>2, <2>1, <2>2 DEF CleanUp, Unsubscribing
<1>3. ASSUME NEW c \in Conn, NEW s \in SubId, SubscribeInvalid(c, s)
      PROVE  UNCHANGED <<maps, history, messages, rounds>> /\ issued \subseteq issued'
  BY <1>3 DEF SubscribeInvalid
<1>4. ASSUME NEW c \in Conn, QueryPanics(c) \/ Disconnect(c) \/ Closed(c)
      PROVE  UNCHANGED <<maps, history, messages, rounds, issued>>
  BY <1>4 DEF QueryPanics, Disconnect, Closed
<1>5. ASSUME NEW s \in SubId, UnsubscribeByHttp(s) \/ \E c \in Conn : Unsubscribe(c, s)
      PROVE  Unsubscribing(s) /\ UNCHANGED <<messages, rounds>>
  BY <1>5 DEF UnsubscribeByHttp, Unsubscribe, Unsubscribing, clients
<1>6. CASE Client
  BY <1>1, <1>2, <1>3, <1>4, <1>5, <1>6 DEF Client
<1>7. CASE \E s \in SubId : UnsubscribeByHttp(s)
  BY <1>5, <1>7
<1> QED BY <1>6, <1>7 DEF Next, RoundStep

LEMMA MapsStep ==
  ASSUME TypeOK, Fresh, MapsAgree, Next
  PROVE  Fresh' /\ MapsAgree'
<1>1. CASE \E c \in Conn, s \in SubId, r \in Room : Subscribe(c, s, r)
  BY <1>1, SubscribeAgrees
<1>2. CASE \E s \in SubId : Unsubscribing(s)
  BY <1>2, UnsubscribeAgrees DEF Unsubscribing
<1>3. CASE UNCHANGED maps /\ issued \subseteq issued'
  BY <1>3 DEF maps, Fresh, MapsAgree, Subscribers
<1>4. CASE RoundStep
  BY <1>4, RoundsRegisterNothing DEF registered, clients, Fresh, MapsAgree, Subscribers
<1> QED BY <1>1, <1>2, <1>3, <1>4, ClientCases

\* A handler keeps what it noted until it has cleaned it up.
LEMMA NotedStep ==
  ASSUME TypeOK, MapsAgree, SubscriptionsNoted, Next
  PROVE  SubscriptionsNoted'
<1> USE DEF TypeOK, SubscriptionsNoted
<1>1. ASSUME UNCHANGED subscription_ids
      PROVE  \A s \in SubId, c \in Conn : Noted(s, c)' <=> Noted(s, c)
  BY <1>1 DEF Noted
<1>2. ASSUME NEW s \in SubId, UnsubscribeChatRoom(s),
             UNCHANGED <<conn, subscription_ids>>
      PROVE  SubscriptionsNoted'
  <2>1. subscriptions' = [subscriptions EXCEPT ![s] = None]
    BY <1>2 DEF UnsubscribeChatRoom
  <2> QED BY <1>1, <1>2, <2>1, AbsentAssumption
<1>3. ASSUME NEW c \in Conn, NEW s \in SubId,
             subscription_ids' = [subscription_ids EXCEPT ![c] = Append(@, s)]
      PROVE  /\ \A d \in Conn, t \in SubId : Noted(t, d) => Noted(t, d)'
             /\ Noted(s, c)'
  <2>1. /\ Len(subscription_ids'[c]) = Len(subscription_ids[c]) + 1
        /\ subscription_ids'[c][Len(subscription_ids[c]) + 1] = s
        /\ \A k \in 1..Len(subscription_ids[c]) : subscription_ids'[c][k] = subscription_ids[c][k]
        /\ Len(subscription_ids[c]) \in Nat
    BY <1>3
  <2>2. ASSUME NEW d \in Conn, NEW t \in SubId, Noted(t, d) PROVE Noted(t, d)'
    <3>1. CASE d = c
      <4>1. PICK k \in 1..Len(subscription_ids[c]) : subscription_ids[c][k] = t
        BY <2>2, <3>1 DEF Noted
      <4>2. k \in 1..Len(subscription_ids'[c]) /\ subscription_ids'[c][k] = t
        BY <2>1, <4>1, SMTT(20)
      <4> QED BY <3>1, <4>2 DEF Noted
    <3>2. CASE d # c
      BY <1>3, <2>2, <3>2 DEF Noted
    <3> QED BY <3>1, <3>2
  <2>3. Noted(s, c)'
    <3>1. Len(subscription_ids[c]) + 1 \in 1..Len(subscription_ids'[c])
      BY <2>1
    <3> QED BY <2>1, <3>1 DEF Noted
  <2> QED BY <2>2, <2>3
<1>4. ASSUME NEW c \in Conn, NEW s \in SubId, NEW r \in Room, Subscribe(c, s, r)
      PROVE  SubscriptionsNoted'
  <2>1. /\ subscription_ids' = [subscription_ids EXCEPT ![c] = Append(@, s)]
        /\ subscriptions' = [subscriptions EXCEPT ![s] = c]
        /\ conn[c] = "open" /\ conn' = conn
    BY <1>4 DEF Subscribe, SubscribeChatRoom
  <2>2. \A d \in Conn, t \in SubId : Noted(t, d) => Noted(t, d)'
    BY <1>3, <2>1
  <2>3. Noted(s, c)'
    BY <1>3, <2>1
  <2> QED BY <2>1, <2>2, <2>3
<1>5. ASSUME NEW c \in Conn, NEW s \in SubId, SubscribeInvalid(c, s)
      PROVE  SubscriptionsNoted'
  <2>1. subscription_ids' = [subscription_ids EXCEPT ![c] = Append(@, s)]
    BY <1>5 DEF SubscribeInvalid
  <2>2. \A d \in Conn, t \in SubId : Noted(t, d) => Noted(t, d)'
    BY <1>3, <2>1
  <2> QED BY <1>5, <2>2 DEF SubscribeInvalid, maps
<1>6. ASSUME NEW c \in Conn, NEW s \in SubId, UnsubscribeUnknown(c, s)
      PROVE  SubscriptionsNoted'
  <2>1. /\ subscriptions' = subscriptions /\ subscription_ids' = subscription_ids
        /\ conn' = [conn EXCEPT ![c] = "panicked"]
    BY <1>6, PanicChangesNoMap DEF UnsubscribeUnknown, maps
  <2> QED BY <1>1, <2>1
<1>7. ASSUME NEW c \in Conn, QueryPanics(c) \/ Disconnect(c)
      PROVE  SubscriptionsNoted'
  BY <1>1, <1>7 DEF QueryPanics, Disconnect, maps
<1>8. ASSUME NEW c \in Conn, Closed(c)
      PROVE  SubscriptionsNoted'
  <2>1. \A s \in SubId : ~Noted(s, c)
    BY <1>8 DEF Closed, Noted
  <2>2. /\ conn[c] = "closing" /\ conn' = [conn EXCEPT ![c] = "closed"]
        /\ subscriptions' = subscriptions /\ subscription_ids' = subscription_ids
    BY <1>8 DEF Closed, maps
  <2>3. \A s \in SubId : subscriptions[s] # c
    BY <2>1, <2>2
  <2> QED BY <1>1, <2>2, <2>3
<1>9. ASSUME NEW c \in Conn, CleanUp(c)
      PROVE  SubscriptionsNoted'
  <2> DEFINE s == Head(subscription_ids[c])
  <2>1. s \in SubId /\ subscription_ids' = [subscription_ids EXCEPT ![c] = Tail(@)]
    BY <1>9 DEF CleanUp
  <2>2. ASSUME NEW d \in Conn, NEW t \in SubId, t # s, Noted(t, d)
        PROVE  Noted(t, d)'
    <3>1. CASE d = c
      <4>1. PICK k \in 1..Len(subscription_ids[c]) : subscription_ids[c][k] = t
        BY <2>2, <3>1 DEF Noted
      <4>2. k # 1 /\ subscription_ids[c] # <<>>
        BY <1>9, <2>2, <4>1 DEF CleanUp
      <4>3. /\ k - 1 \in 1..Len(Tail(subscription_ids[c]))
            /\ Tail(subscription_ids[c])[k - 1] = t
        BY <4>1, <4>2
      <4> QED BY <2>1, <3>1, <4>3 DEF Noted
    <3>2. CASE d # c
      BY <2>1, <2>2, <3>2 DEF Noted
    <3> QED BY <3>1, <3>2
  <2>3. CASE UnsubscribeChatRoom(s) /\ UNCHANGED conn
    <3>1. subscriptions' = [subscriptions EXCEPT ![s] = None]
      BY <2>3 DEF UnsubscribeChatRoom
    <3> HIDE DEF s
    <3> QED BY <2>1, <2>2, <2>3, <3>1, AbsentAssumption
  <2>4. CASE UnsubscribePanics(s) /\ conn' = [conn EXCEPT ![c] = "panicked"]
    <3>1. subscriptions' = subscriptions /\ subscriptions[s] = None
      BY <2>1, <2>4, PanicChangesNoMap DEF maps, MapsAgree, UnsubscribePanics
    <3> HIDE DEF s
    <3> QED BY <2>1, <2>2, <2>4, <3>1, AbsentAssumption
  <2> QED BY <1>9, <2>3, <2>4 DEF CleanUp
<1>10. CASE RoundStep
  BY <1>1, <1>10, RoundsRegisterNothing DEF registered, clients
<1>11. ASSUME NEW s \in SubId, UnsubscribeByHttp(s) \/ \E c \in Conn : Unsubscribe(c, s)
       PROVE  SubscriptionsNoted'
  BY <1>2, <1>11 DEF UnsubscribeByHttp, Unsubscribe, clients
<1> HIDE DEF TypeOK, SubscriptionsNoted
<1> QED
  BY <1>4, <1>5, <1>6, <1>7, <1>8, <1>9, <1>10, <1>11 DEF Next, Client, RoundStep

-----------------------------------------------------------------------------
(* What the rounds hold is true, and dated *)

TrueRounds == StatesDated /\ AnswersTrue /\ AnswerAtHand

LEMMA DiesTrue ==
  ASSUME TypeOK, TrueRounds, NEW f \in Round, ForwarderDies(f)
  PROVE  TrueRounds'
<1> USE DEF TypeOK, ForwarderDies, maps
<1>1. StatesDated'
  <2>1. \A g \in Round, r \in Room :
           new_chat_states'[g][r] = IF g = f THEN None ELSE new_chat_states[g][r]
    BY DEF NoStates
  <2> QED BY <2>1 DEF TrueRounds, StatesDated, Dated
<1>2. AnswersTrue'
  BY DEF TrueRounds, AnswersTrue
<1>3. AnswerAtHand'
  BY DEF TrueRounds, AnswerAtHand, Handling
<1> QED BY <1>1, <1>2, <1>3 DEF TrueRounds

LEMMA TrueStep ==
  ASSUME TypeOK, MapsAgree, TrueRounds, Next
  PROVE  TrueRounds'
<1> USE DEF TypeOK
<1>1. ASSUME UNCHANGED <<messages, rounds>>, StatesDated'
      PROVE  TrueRounds'
  BY <1>1 DEF TrueRounds, AnswersTrue, AnswerAtHand, Handling, rounds
<1>2. ASSUME NEW c \in Conn, NEW s \in SubId, NEW r \in Room, Subscribe(c, s, r)
      PROVE  TrueRounds'
  <2>1. Dated(State(Timestamp(messages[r]) + 1, 0))
    BY MessagesAreNat DEF Dated, State, Timestamp
  <2>2. last_chat_states' = [last_chat_states EXCEPT ![r] = State(Timestamp(messages[r]) + 1, 0)]
    BY <1>2 DEF Subscribe, SubscribeChatRoom
  <2>3. StatesDated'
    BY <1>2, <2>1, <2>2 DEF Subscribe, TrueRounds, StatesDated, Dated, rounds
  <2> QED BY <1>1, <1>2, <2>3 DEF Subscribe
<1>3. ASSUME NEW s \in SubId, Unsubscribing(s), UNCHANGED <<messages, rounds>>
      PROVE  TrueRounds'
  <2>1. last_chat_states' = [last_chat_states EXCEPT ![chat_room_by_sub_id[s]] = None]
    BY <1>3 DEF Unsubscribing, UnsubscribeChatRoom
  <2>2. StatesDated'
    BY <1>3, <2>1 DEF TrueRounds, StatesDated, Dated, rounds
  <2> QED BY <1>1, <1>3, <2>2
<1>4. CASE UNCHANGED <<maps, messages, rounds>>
  BY <1>1, <1>4 DEF TrueRounds, StatesDated, Dated, maps, rounds
<1>5. CASE NothingToDiscover
  BY <1>4, <1>5 DEF NothingToDiscover, vars
<1>6. ASSUME NEW r \in Room, NewMessage(r)
      PROVE  TrueRounds'
  <2>1. \A q \in Room : messages'[q] >= messages[q]
    BY <1>6, MessagesAreNat DEF NewMessage
  <2>2. UNCHANGED <<maps, rounds>>
    BY <1>6 DEF NewMessage
  <2>3. \A q \in Room : messages[q] \in Nat /\ messages'[q] \in Nat
    BY <1>6, BoundAssumption DEF NewMessage
  <2>4. StatesDated'
    BY <2>2 DEF TrueRounds, StatesDated, Dated, maps, rounds
  <2>5. AnswersTrue'
    <3> SUFFICES ASSUME NEW f \in Round, NEW k \in 1..Len(inbox[f])
                 PROVE  /\ inbox[f][k].room \in Room
                        /\ inbox[f][k].len <= messages'[inbox[f][k].room]
      BY <2>2 DEF AnswersTrue, rounds
    <3>1. inbox[f][k] \in Answer
      OBVIOUS
    <3>2. inbox[f][k].room \in Room /\ inbox[f][k].len <= messages[inbox[f][k].room]
      BY DEF TrueRounds, AnswersTrue
    <3> QED BY <2>1, <2>3, <3>1, <3>2 DEF Answer
  <2>6. AnswerAtHand'
    <3>1. \A f \in Round : read[f].len \in Nat
      BY DEF Answer
    <3> QED BY <2>1, <2>2, <2>3, <3>1 DEF TrueRounds, AnswerAtHand, Handling, rounds
  <2> QED BY <2>4, <2>5, <2>6 DEF TrueRounds
<1>7. ASSUME NEW f \in Round,
             \/ StartRound(f) \/ SpawnFetches(f) \/ ChannelCloses(f) \/ RoundEnds(f)
             \/ \E r \in Room : FetchFails(f, r)
      PROVE  TrueRounds'
  <2>1. /\ UNCHANGED <<maps, messages, inbox, read, new_chat_states>>
        /\ \A g \in Round : Handling(g)' => Handling(g) /\ forwarder'[g] = forwarder[g]
    BY <1>7 DEF StartRound, SpawnFetches, ChannelCloses, RoundEnds, FetchFails, Handling
  <2> QED BY <2>1 DEF TrueRounds, StatesDated, Dated, AnswersTrue, AnswerAtHand, maps
<1>8. ASSUME NEW f \in Round, NEW r \in Room, FetchAnswers(f, r)
      PROVE  TrueRounds'
  <2>1. PICK n \in Max2(0, messages[r] - Lag)..messages[r] :
           inbox' = [inbox EXCEPT ![f] = Append(@, [room |-> r, len |-> n, index |-> 0])]
    BY <1>8 DEF FetchAnswers
  <2>2. n \in Nat /\ n <= messages[r]
    BY MessagesAreNat, BoundAssumption DEF Max2
  <2>3. UNCHANGED <<maps, messages, forwarder, read, todo, new_chat_states>>
    BY <1>8 DEF FetchAnswers
  <2> DEFINE a == [room |-> r, len |-> n, index |-> 0]
  <2>4. a \in Answer /\ a.room = r /\ a.len = n
    BY <2>2 DEF Answer
  <2> HIDE DEF a
  <2>5. inbox' = [inbox EXCEPT ![f] = Append(inbox[f], a)]
    BY <2>1 DEF a
  <2>6. /\ Len(inbox'[f]) = Len(inbox[f]) + 1 /\ inbox'[f][Len(inbox[f]) + 1] = a
        /\ \A k \in 1..Len(inbox[f]) : inbox'[f][k] = inbox[f][k]
        /\ Len(inbox[f]) \in Nat
    BY <2>4, <2>5
  <2>7. \A k \in 1..Len(inbox'[f]) : inbox'[f][k] = a \/ k \in 1..Len(inbox[f])
    BY <2>6
  <2>8. AnswersTrue'
    <3> SUFFICES ASSUME NEW g \in Round, NEW k \in 1..Len(inbox'[g])
                 PROVE  /\ inbox'[g][k].room \in Room
                        /\ inbox'[g][k].len <= messages[inbox'[g][k].room]
      BY <2>3 DEF AnswersTrue
    <3>1. CASE inbox'[g][k] = a
      BY <2>2, <2>4, <3>1
    <3>2. CASE g = f /\ k \in 1..Len(inbox[f])
      BY <2>6, <3>2 DEF TrueRounds, AnswersTrue
    <3>3. CASE g # f
      BY <2>5, <3>3 DEF TrueRounds, AnswersTrue
    <3> QED BY <2>7, <3>1, <3>2, <3>3
  <2>9. StatesDated' /\ AnswerAtHand'
    BY <2>3 DEF TrueRounds, StatesDated, Dated, AnswerAtHand, Handling, maps
  <2> QED BY <2>8, <2>9 DEF TrueRounds
<1>9. ASSUME NEW f \in Round,
             \/ ReceiveNotChat(f) \/ ReceiveUnderflows(f)
             \/ \E s \in SubId : SendPanics(f, s)
      PROVE  TrueRounds'
  BY <1>9, DiesTrue DEF ReceiveNotChat, ReceiveUnderflows, SendPanics
<1>10. ASSUME NEW f \in Round, Receive(f)
       PROVE  TrueRounds'
  <2>1. /\ forwarder[f] = "receive" /\ inbox[f] # <<>>
        /\ inbox' = [inbox EXCEPT ![f] = Tail(@)]
        /\ UNCHANGED <<maps, messages, todo, new_chat_states>>
    BY <1>10, ReceiveCases DEF TrueRounds
  <2>2. AnswersTrue'
    <3> SUFFICES ASSUME NEW g \in Round, NEW k \in 1..Len(inbox'[g])
                 PROVE  /\ inbox'[g][k].room \in Room
                        /\ inbox'[g][k].len <= messages[inbox'[g][k].room]
      BY <2>1 DEF AnswersTrue
    <3>1. CASE g = f
      <4>1. k + 1 \in 1..Len(inbox[f]) /\ inbox'[g][k] = inbox[f][k + 1]
        BY <2>1, <3>1, HeadOfInbox
      <4> QED BY <4>1 DEF TrueRounds, AnswersTrue
    <3>2. CASE g # f
      BY <2>1, <3>2 DEF TrueRounds, AnswersTrue
    <3> QED BY <3>1, <3>2
  <2>3. AnswerAtHand'
    <3>1. CASE UNCHANGED <<forwarder, read>>
      BY <2>1, <3>1 DEF TrueRounds, AnswerAtHand, Handling
    <3>2. CASE /\ ~ (LastState(Held(f).room).timestamp > Timestamp(Held(f).len))
               /\ read' = [read EXCEPT ![f] = Held(f)]
               /\ forwarder' = [forwarder EXCEPT ![f] = "subscribers"]
      <4>1. /\ Held(f).room \in Room /\ Held(f).len \in Nat
            /\ Held(f).len <= messages[Held(f).room]
            /\ Held(f).index = LastState(Held(f).room).index
        BY <2>1, HeldIs DEF Held, TrueRounds
      <4>2. LastState(Held(f).room) \in ChatState
        BY <4>1, LastStateType
      <4>3. LastState(Held(f).room).timestamp >= Timestamp(LastState(Held(f).room).index)
        BY <4>1 DEF TrueRounds, StatesDated, Dated, LastState, State, Timestamp
      <4>4. Held(f).index <= Held(f).len
        <5>1. /\ LastState(Held(f).room).timestamp \in Nat
              /\ LastState(Held(f).room).index \in Nat
          BY <4>2 DEF ChatState
        <5> QED BY <3>2, <4>1, <4>3, <5>1 DEF Timestamp
      <4>5. \A g \in Round \ {f} : read'[g] = read[g] /\ forwarder'[g] = forwarder[g]
        BY <3>2
      <4>6. read'[f] = Held(f)
        BY <3>2
      <4> QED BY <2>1, <4>1, <4>4, <4>5, <4>6 DEF TrueRounds, AnswerAtHand, Handling
    <3> QED BY <1>10, <3>1, <3>2, ReceiveCases DEF TrueRounds
  <2>4. StatesDated'
    BY <2>1 DEF TrueRounds, StatesDated, Dated, maps
  <2> QED BY <2>2, <2>3, <2>4 DEF TrueRounds
<1>11. ASSUME NEW f \in Round, ReadSubscribers(f)
       PROVE  TrueRounds'
  BY <1>11 DEF ReadSubscribers, TrueRounds, StatesDated, Dated, AnswersTrue, AnswerAtHand,
               Handling, maps
<1>12. ASSUME NEW f \in Round, NEW s \in SubId, Send(f, s)
       PROVE  TrueRounds'
  <2> DEFINE state == State(Timestamp(read[f].len), read[f].len)
  <2>1. UNCHANGED <<maps, messages, forwarder, inbox, read>>
    BY <1>12 DEF Send
  <2>2. Dated(state)
    <3>1. read[f].len \in Nat
      BY DEF Answer
    <3> QED BY <3>1 DEF Dated, State, Timestamp
  <2> HIDE DEF state
  <2>3. \A g \in Round, r \in Room : new_chat_states'[g][r] \in {new_chat_states[g][r], state}
    BY <1>12 DEF Send, state
  <2>4. StatesDated'
    BY <2>1, <2>2, <2>3 DEF TrueRounds, StatesDated, Dated, maps
  <2> QED BY <2>1, <2>4 DEF TrueRounds, AnswersTrue, AnswerAtHand, Handling
<1>13. ASSUME NEW f \in Round, NextAnswer(f)
       PROVE  TrueRounds'
  <2>1. /\ UNCHANGED <<maps, messages, inbox, new_chat_states>>
        /\ \A g \in Round : Handling(g)' => Handling(g) /\ read'[g] = read[g]
    BY <1>13 DEF NextAnswer, Handling
  <2> QED BY <2>1 DEF TrueRounds, StatesDated, Dated, AnswersTrue, AnswerAtHand, maps
<1>14. ASSUME NEW f \in Round, NEW r \in Room, StoreState(f, r)
       PROVE  TrueRounds'
  <2>1. /\ UNCHANGED <<messages, forwarder, inbox, read>>
        /\ \A q \in Room : last_chat_states'[q] \in {last_chat_states[q], new_chat_states[f][q]}
        /\ \A g \in Round, q \in Room : new_chat_states'[g][q] \in {new_chat_states[g][q], None}
    BY <1>14 DEF StoreState
  <2>2. StatesDated'
    BY <2>1 DEF TrueRounds, StatesDated, Dated
  <2> QED BY <2>1, <2>2 DEF TrueRounds, AnswersTrue, AnswerAtHand, Handling
<1> HIDE DEF TypeOK
<1>15. CASE RoundStep
  BY <1>5, <1>6, <1>7, <1>8, <1>9, <1>10, <1>11, <1>12, <1>13, <1>14, <1>15
  DEF RoundStep, Forward
<1> QED BY <1>2, <1>3, <1>4, <1>15, ClientCases

-----------------------------------------------------------------------------
(* No subscriber is behind *)

NoneBehind == NoneBehindAnswer /\ NoneBehindRound /\ NothingSkipped

LEMMA ReachedIs ==
  ASSUME TypeOK, NEW s \in SubId
  PROVE  Reached(s) \in Nat /\ Reached(s) >= joined[s] /\ Reached(s) >= got[s]
BY DEF TypeOK, Reached, Max2

LEMMA LensAndIndexes ==
  ASSUME TypeOK
  PROVE  /\ \A f \in Round : read[f].len \in Nat /\ read[f].index \in Nat
         /\ \A f \in Round, r \in Room :
               new_chat_states[f][r] # None => new_chat_states[f][r].index \in Nat
         /\ \A r \in Room : messages[r] \in Nat /\ LastState(r).index \in Nat
<1>1. \A r \in Room : messages[r] \in Nat /\ LastState(r).index \in Nat
  BY MessagesAreNat, LastStateType DEF ChatState
<1> QED BY <1>1 DEF TypeOK, Answer, ChatState

\* NothingSkipped, for each room of its own.
SkipsNothing(s, r) == chat_room_by_sub_id[s] = r => LastState(r).index <= Reached(s)

EachSkipsNothing == \A s \in SubId, r \in Room : SkipsNothing(s, r)

LEMMA SkippedByRoom ==
  TypeOK => (NothingSkipped <=> EachSkipsNothing)
BY AbsentAssumption DEF TypeOK, NothingSkipped, EachSkipsNothing, SkipsNothing, Reached

\* What is known of the others when nothing changes but the messages, which grow.
LEMMA NoneBehindAlone ==
  ASSUME NoneBehind, UNCHANGED <<maps, history, rounds>>, TypeOK, TypeOK',
         \A r \in Room : messages'[r] >= messages[r]
  PROVE  NoneBehind'
<1>1. NoneBehindAnswer'
  BY DEF NoneBehind, NoneBehindAnswer, Handling, Reached, maps, history, rounds
<1>2. NothingSkipped'
  BY DEF NoneBehind, NothingSkipped, LastState, State, maps, history
<1>3. NoneBehindRound'
  <2> SUFFICES ASSUME NEW f \in Round, NEW r \in Room, new_chat_states[f][r] # None
               PROVE  /\ new_chat_states[f][r].index <= messages'[r]
                      /\ \A s \in SubId : chat_room_by_sub_id[s] = r =>
                            \/ new_chat_states[f][r].index <= Reached(s)
                            \/ forwarder[f] = "send" /\ read[f].room = r /\ s \in todo[f]
    BY DEF NoneBehindRound, Reached, maps, history, rounds
  <2>1. new_chat_states[f][r].index \in Nat /\ messages[r] \in Nat
    BY LensAndIndexes
  <2>2. messages'[r] \in Nat
    BY BoundAssumption DEF TypeOK
  <2> QED BY <2>1, <2>2 DEF NoneBehind, NoneBehindRound
<1> QED BY <1>1, <1>2, <1>3 DEF NoneBehind

\* A new subscriber finds every message there so far.
LEMMA NoneBehindSubscribe ==
  ASSUME TypeOK, TypeOK', Fresh, TrueRounds, NoneBehind,
         NEW c \in Conn, NEW s \in SubId, NEW r \in Room, Subscribe(c, s, r)
  PROVE  NoneBehind'
<1>1. /\ chat_room_by_sub_id' = [chat_room_by_sub_id EXCEPT ![s] = r]
      /\ last_chat_states' = [last_chat_states EXCEPT ![r] = State(Timestamp(messages[r]) + 1, 0)]
      /\ joined' = [joined EXCEPT ![s] = messages[r]]
      /\ got' = got /\ messages' = messages /\ forwarder' = forwarder /\ read' = read
      /\ todo' = todo /\ new_chat_states' = new_chat_states
  BY DEF Subscribe, SubscribeChatRoom, rounds
<1>2. /\ chat_room_by_sub_id'[s] = r
      /\ \A t \in SubId \ {s} : chat_room_by_sub_id'[t] = chat_room_by_sub_id[t]
  BY <1>1 DEF TypeOK
<1>3. /\ Reached(s)' \in Nat /\ Reached(s)' >= messages[r]
      /\ \A t \in SubId \ {s} : Reached(t)' = Reached(t)
  BY <1>1 DEF TypeOK, Reached, Max2
<1>4. NoneBehindAnswer'
  <2> SUFFICES ASSUME NEW f \in Round, NEW t \in SubId,
                      Handling(f), chat_room_by_sub_id'[t] = read[f].room
               PROVE  /\ read[f].index <= Reached(t)'
                      /\ forwarder[f] = "send" /\ t \notin todo[f] => read[f].len <= Reached(t)'
    BY <1>1 DEF NoneBehindAnswer, Handling
  <2>1. CASE t = s
    BY <1>2, <1>3, <2>1, LensAndIndexes DEF TrueRounds, AnswerAtHand
  <2>2. CASE t # s
    BY <1>2, <1>3, <2>2 DEF NoneBehind, NoneBehindAnswer
  <2> QED BY <2>1, <2>2
<1>5. NoneBehindRound'
  <2> SUFFICES ASSUME NEW f \in Round, NEW q \in Room, new_chat_states[f][q] # None,
                      NEW t \in SubId, chat_room_by_sub_id'[t] = q
               PROVE  \/ new_chat_states[f][q].index <= Reached(t)'
                      \/ forwarder[f] = "send" /\ read[f].room = q /\ t \in todo[f]
    BY <1>1 DEF NoneBehind, NoneBehindRound
  <2>1. CASE t = s
    BY <1>2, <1>3, <2>1, LensAndIndexes DEF NoneBehind, NoneBehindRound
  <2>2. CASE t # s
    BY <1>2, <1>3, <2>2 DEF NoneBehind, NoneBehindRound
  <2> QED BY <2>1, <2>2
<1>6. NothingSkipped'
  <2>1. \A q \in Room : LastState(q)'.index = IF q = r THEN 0 ELSE LastState(q).index
    BY <1>1 DEF TypeOK, LastState, State
  <2>0. EachSkipsNothing' => NothingSkipped'
    BY SkippedByRoom, PTL
  <2> SUFFICES ASSUME NEW t \in SubId, NEW q \in Room, chat_room_by_sub_id'[t] = q
               PROVE  LastState(q)'.index <= Reached(t)'
    BY <2>0 DEF EachSkipsNothing, SkipsNothing
  <2>2. Reached(t)' \in Nat
    BY DEF TypeOK, Reached, Max2
  <2>3. CASE q = r
    BY <2>1, <2>2, <2>3
  <2>4. CASE q # r
    <3>1. t # s
      BY <1>2, <2>4
    <3>2. LastState(q).index <= Reached(t)
      BY <1>2, <3>1, SkippedByRoom DEF NoneBehind, EachSkipsNothing, SkipsNothing
    <3> QED BY <1>3, <2>1, <2>4, <3>1, <3>2
  <2> QED BY <2>3, <2>4
<1> QED BY <1>4, <1>5, <1>6 DEF NoneBehind

LEMMA NoneBehindUnsubscribe ==
  ASSUME TypeOK, TypeOK', TrueRounds, NoneBehind,
         NEW s \in SubId, Unsubscribing(s), UNCHANGED <<messages, rounds>>
  PROVE  NoneBehind'
<1> DEFINE r == chat_room_by_sub_id[s]
<1>1. /\ chat_room_by_sub_id' = [chat_room_by_sub_id EXCEPT ![s] = None]
      /\ last_chat_states' = [last_chat_states EXCEPT ![r] = None]
      /\ joined' = joined /\ got' = got /\ messages' = messages /\ forwarder' = forwarder
      /\ read' = read /\ todo' = todo /\ new_chat_states' = new_chat_states
  BY DEF Unsubscribing, UnsubscribeChatRoom, history, rounds
<1>2. /\ \A t \in SubId : chat_room_by_sub_id'[t] \in {None, chat_room_by_sub_id[t]}
      /\ \A t \in SubId : Reached(t)' = Reached(t)
  BY <1>1 DEF TypeOK, Reached
<1>3. NoneBehindAnswer'
  BY <1>1, <1>2, AbsentAssumption
  DEF NoneBehind, NoneBehindAnswer, Handling, TrueRounds, AnswerAtHand
<1>4. NoneBehindRound'
  BY <1>1, <1>2, AbsentAssumption DEF NoneBehind, NoneBehindRound
<1>5. NothingSkipped'
  <2>1. \A q \in Room : LastState(q)'.index = IF q = r THEN 0 ELSE LastState(q).index
    BY <1>1 DEF TypeOK, LastState, State
  <2>0. EachSkipsNothing' => NothingSkipped'
    BY SkippedByRoom, PTL
  <2> SUFFICES ASSUME NEW t \in SubId, NEW q \in Room, chat_room_by_sub_id'[t] = q
               PROVE  LastState(q)'.index <= Reached(t)'
    BY <2>0 DEF EachSkipsNothing, SkipsNothing
  <2>2. chat_room_by_sub_id[t] = q
    BY <1>2, AbsentAssumption
  <2>3. LastState(q).index <= Reached(t)
    BY <2>2, SkippedByRoom DEF NoneBehind, EachSkipsNothing, SkipsNothing
  <2>4. Reached(t) \in Nat
    BY ReachedIs
  <2> QED BY <1>2, <2>1, <2>3, <2>4
<1> QED BY <1>3, <1>4, <1>5 DEF NoneBehind

\* Nothing is known of a round that has ended, however it did.
LEMMA NoneBehindDies ==
  ASSUME TypeOK, NoneBehind, NEW f \in Round, ForwarderDies(f)
  PROVE  NoneBehind'
<1>1. /\ forwarder' = [forwarder EXCEPT ![f] = "off"] /\ messages' = messages
      /\ new_chat_states' = [new_chat_states EXCEPT ![f] = NoStates]
      /\ \A g \in Round \ {f} : /\ forwarder'[g] = forwarder[g] /\ read'[g] = read[g]
                                /\ todo'[g] = todo[g]
                                /\ new_chat_states'[g] = new_chat_states[g]
      /\ UNCHANGED <<maps, history>>
  BY DEF ForwarderDies, TypeOK
<1>2. ~Handling(f)' /\ \A r \in Room : new_chat_states'[f][r] = None
  BY <1>1 DEF TypeOK, Handling, NoStates
<1>3. NoneBehindAnswer'
  BY <1>1, <1>2 DEF NoneBehind, NoneBehindAnswer, Handling, Reached, maps, history
<1>4. NoneBehindRound'
  BY <1>1, <1>2 DEF NoneBehind, NoneBehindRound, Reached, maps, history
<1>5. NothingSkipped'
  BY <1>1 DEF NoneBehind, NothingSkipped, LastState, State, maps, history
<1> QED BY <1>3, <1>4, <1>5 DEF NoneBehind

LEMMA NoneBehindReceive ==
  ASSUME TypeOK, TrueRounds, NoneBehind, NEW f \in Round, Receive(f)
  PROVE  NoneBehind'
<1>1. /\ forwarder[f] = "receive"
      /\ UNCHANGED <<maps, messages, todo, new_chat_states, history>>
      /\ \/ UNCHANGED <<forwarder, read>>
         \/ /\ read' = [read EXCEPT ![f] = Held(f)]
            /\ forwarder' = [forwarder EXCEPT ![f] = "subscribers"]
      /\ Held(f).room \in Room
  BY ReceiveCases, HeldIs DEF TrueRounds, Held
<1>2. NothingSkipped'
  BY <1>1 DEF NoneBehind, NothingSkipped, LastState, State, maps, history
<1>3. NoneBehindRound'
  <2>1. \A g \in Round : forwarder[g] = "send" => forwarder'[g] = "send" /\ read'[g] = read[g]
    BY <1>1 DEF TypeOK
  <2> QED BY <1>1, <2>1 DEF NoneBehind, NoneBehindRound, Reached, maps, history
<1>4. NoneBehindAnswer'
  <2> SUFFICES ASSUME NEW g \in Round, NEW s \in SubId, Handling(g)',
                      chat_room_by_sub_id[s] = read'[g].room
               PROVE  /\ read'[g].index <= Reached(s)
                      /\ forwarder'[g] = "send" /\ s \notin todo[g] =>
                            read'[g].len <= Reached(s)
    BY <1>1 DEF NoneBehindAnswer, Reached, maps, history
  <2>1. CASE forwarder'[g] = forwarder[g] /\ read'[g] = read[g]
    BY <2>1 DEF NoneBehind, NoneBehindAnswer, Handling
  <2>2. CASE g = f /\ read'[f] = Held(f) /\ forwarder'[f] = "subscribers"
    <3>1. Held(f).index = LastState(Held(f).room).index
      BY DEF Held
    <3>2. SkipsNothing(s, Held(f).room)
      BY <1>1, SkippedByRoom DEF NoneBehind, EachSkipsNothing
    <3> QED BY <2>2, <3>1, <3>2 DEF SkipsNothing
  <2> QED BY <1>1, <2>1, <2>2 DEF TypeOK
<1> QED BY <1>2, <1>3, <1>4 DEF NoneBehind

\* The forwarder sends to everyone who subscribes as it reads the subscribers.
LEMMA NoneBehindRead ==
  ASSUME TypeOK, MapsAgree, TrueRounds, NoneBehind, NEW f \in Round, ReadSubscribers(f)
  PROVE  NoneBehind'
<1>1. /\ forwarder[f] = "subscribers" /\ forwarder' = [forwarder EXCEPT ![f] = "send"]
      /\ todo' = [todo EXCEPT ![f] = Subscribers(read[f].room)]
      /\ UNCHANGED <<maps, messages, read, new_chat_states, history>>
      /\ read[f].room \in Room
  BY DEF ReadSubscribers, TrueRounds, AnswerAtHand, Handling
<1>2. NothingSkipped'
  BY <1>1 DEF NoneBehind, NothingSkipped, LastState, State, maps, history
<1>3. NoneBehindRound'
  BY <1>1 DEF TypeOK, NoneBehind, NoneBehindRound, Reached, maps, history
<1>4. \A s \in SubId : chat_room_by_sub_id[s] = read[f].room => s \in Subscribers(read[f].room)
  BY <1>1 DEF MapsAgree
<1>5. NoneBehindAnswer'
  BY <1>1, <1>4 DEF TypeOK, NoneBehind, NoneBehindAnswer, Handling, Reached, maps, history
<1> QED BY <1>2, <1>3, <1>5 DEF NoneBehind

\* A message sent leaves no gap: the answer starts where the subscriber is or before.
LEMMA NoneBehindSend ==
  ASSUME TypeOK, TypeOK', TrueRounds, NoneBehind,
         NEW f \in Round, NEW s \in SubId, Send(f, s)
  PROVE  NoneBehind'
<1> DEFINE a == read[f]
           state == State(Timestamp(a.len), a.len)
<1>1. /\ forwarder[f] = "send" /\ s \in todo[f] /\ a.index <= a.len
      /\ got' = [got EXCEPT ![s] = IF Reached(s) + 1 \in Payload(a) THEN a.len ELSE got[s]]
      /\ new_chat_states' = [new_chat_states EXCEPT ![f][a.room] = state]
      /\ todo' = [todo EXCEPT ![f] = @ \ {s}]
      /\ UNCHANGED <<maps, messages, forwarder, read, joined>>
  BY DEF Send, Reached
<1>2. a.room \in Room /\ a.len <= messages[a.room] /\ a.len \in Nat /\ a.index \in Nat
  BY <1>1, LensAndIndexes DEF TrueRounds, AnswerAtHand, Handling
<1>3. \A t \in SubId : t # s => Reached(t)' = Reached(t)
  BY <1>1 DEF TypeOK, Reached
<1>4. /\ Reached(s)' >= Reached(s)
      /\ a.index <= Reached(s) => Reached(s)' >= a.len
  <2>1. CASE Reached(s) + 1 \in Payload(a)
    BY <1>1, <1>2, <2>1, ReachedIs DEF TypeOK, Payload, Reached, Max2
  <2>2. CASE Reached(s) + 1 \notin Payload(a)
    <3>1. Reached(s)' = Reached(s)
      BY <1>1, <2>2 DEF TypeOK, Reached
    <3>2. Reached(s) \in Nat
      BY ReachedIs
    <3> QED BY <1>2, <2>2, <3>1, <3>2 DEF Payload
  <2> QED BY <2>1, <2>2
<1>5. \A t \in SubId : Reached(t) \in Nat /\ Reached(t)' \in Nat
  BY DEF TypeOK, Reached, Max2
<1>6. \A t \in SubId : Reached(t)' >= Reached(t)
  BY <1>3, <1>4, <1>5
<1>7. \A t \in SubId : chat_room_by_sub_id[t] = a.room =>
         /\ a.index <= Reached(t)
         /\ t \notin todo'[f] => a.len <= Reached(t)'
  <2> SUFFICES ASSUME NEW t \in SubId, chat_room_by_sub_id[t] = a.room
               PROVE  /\ a.index <= Reached(t)
                      /\ t \notin todo'[f] => a.len <= Reached(t)'
    OBVIOUS
  <2>1. /\ a.index <= Reached(t)
        /\ t \notin todo[f] => a.len <= Reached(t)
    BY <1>1 DEF NoneBehind, NoneBehindAnswer, Handling
  <2>2. CASE t = s
    BY <1>4, <2>1, <2>2
  <2>3. CASE t # s
    BY <1>1, <1>3, <2>1, <2>3 DEF TypeOK
  <2> QED BY <2>1, <2>2, <2>3
<1> HIDE DEF a, state
<1>8. NoneBehindAnswer'
  <2> SUFFICES ASSUME NEW g \in Round, NEW t \in SubId, Handling(g),
                      chat_room_by_sub_id[t] = read[g].room
               PROVE  /\ read[g].index <= Reached(t)'
                      /\ forwarder[g] = "send" /\ t \notin todo'[g] => read[g].len <= Reached(t)'
    BY <1>1 DEF NoneBehindAnswer, Handling, maps
  <2>1. read[g].index <= Reached(t) /\ read[g].index \in Nat /\ read[g].len \in Nat
    BY LensAndIndexes DEF NoneBehind, NoneBehindAnswer
  <2>2. read[g].index <= Reached(t)'
    BY <1>5, <1>6, <2>1
  <2>3. CASE g = f
    BY <1>7, <2>2, <2>3 DEF a
  <2>4. CASE g # f
    <3>1. todo'[g] = todo[g]
      BY <1>1, <2>4 DEF TypeOK
    <3>2. forwarder[g] = "send" /\ t \notin todo[g] => read[g].len <= Reached(t)
      BY DEF NoneBehind, NoneBehindAnswer
    <3> QED BY <1>5, <1>6, <2>1, <2>2, <3>1, <3>2
  <2> QED BY <2>3, <2>4
<1>9. NoneBehindRound'
  <2> SUFFICES ASSUME NEW g \in Round, NEW r \in Room, new_chat_states'[g][r] # None
               PROVE  /\ new_chat_states'[g][r].index <= messages[r]
                      /\ \A t \in SubId : chat_room_by_sub_id[t] = r =>
                            \/ new_chat_states'[g][r].index <= Reached(t)'
                            \/ forwarder[g] = "send" /\ read[g].room = r /\ t \in todo'[g]
    BY <1>1 DEF NoneBehindRound, maps
  <2>1. CASE g = f /\ r = a.room
    <3>1. new_chat_states'[g][r] = state /\ state.index = a.len
      BY <1>1, <2>1 DEF TypeOK, state, State
    <3>2. forwarder[g] = "send" /\ read[g].room = r
      BY <1>1, <2>1 DEF a
    <3> QED BY <1>2, <1>7, <2>1, <3>1, <3>2
  <2>2. CASE ~(g = f /\ r = a.room)
    <3>1. new_chat_states'[g][r] = new_chat_states[g][r]
      BY <1>1, <1>2, <2>2 DEF TypeOK
    <3>2. new_chat_states[g][r].index <= messages[r] /\ new_chat_states[g][r].index \in Nat
      BY <3>1, LensAndIndexes DEF NoneBehind, NoneBehindRound
    <3>3. ASSUME NEW t \in SubId, chat_room_by_sub_id[t] = r,
                 ~(new_chat_states[g][r].index <= Reached(t)')
          PROVE  forwarder[g] = "send" /\ read[g].room = r /\ t \in todo'[g]
      <4>1. ~(new_chat_states[g][r].index <= Reached(t))
        BY <1>5, <1>6, <3>2, <3>3
      <4>2. forwarder[g] = "send" /\ read[g].room = r /\ t \in todo[g]
        BY <3>1, <3>3, <4>1 DEF NoneBehind, NoneBehindRound
      <4>3. g # f
        BY <2>2, <4>2 DEF a
      <4>4. todo'[g] = todo[g]
        BY <1>1, <4>3 DEF TypeOK
      <4> QED BY <4>2, <4>4
    <3> QED BY <3>1, <3>2, <3>3
  <2> QED BY <2>1, <2>2
<1>10. NothingSkipped'
  <2>0. EachSkipsNothing' => NothingSkipped'
    BY SkippedByRoom, PTL
  <2> SUFFICES ASSUME NEW t \in SubId, NEW r \in Room, chat_room_by_sub_id'[t] = r
               PROVE  LastState(r)'.index <= Reached(t)'
    BY <2>0 DEF EachSkipsNothing, SkipsNothing
  <2>1. LastState(r)' = LastState(r) /\ chat_room_by_sub_id[t] = r
    BY <1>1 DEF LastState, State, maps
  <2>2. LastState(r).index <= Reached(t)
    BY <2>1, SkippedByRoom DEF NoneBehind, EachSkipsNothing, SkipsNothing
  <2>3. LastState(r).index \in Nat
    BY LensAndIndexes
  <2> QED BY <1>5, <1>6, <2>1, <2>2, <2>3
<1> QED BY <1>8, <1>9, <1>10 DEF NoneBehind

\* A round stores a state only when it has sent every answer to everyone.
LEMMA NoneBehindStore ==
  ASSUME TypeOK, TypeOK', NoneBehind, NEW f \in Round, NEW r \in Room, StoreState(f, r)
  PROVE  NoneBehind'
<1>1. /\ forwarder[f] = "store" /\ new_chat_states[f][r] # None
      /\ last_chat_states' = [last_chat_states EXCEPT ![r] = new_chat_states[f][r]]
      /\ new_chat_states' = [new_chat_states EXCEPT ![f][r] = None]
      /\ UNCHANGED <<chat_room_by_sub_id, messages, forwarder, read, todo, history>>
  BY DEF StoreState
<1>2. NoneBehindAnswer'
  BY <1>1 DEF NoneBehind, NoneBehindAnswer, Handling, Reached, history
<1>3. NoneBehindRound'
  <2>1. \A g \in Round, q \in Room :
           new_chat_states'[g][q] = IF g = f /\ q = r THEN None ELSE new_chat_states[g][q]
    BY <1>1 DEF TypeOK
  <2> QED BY <1>1, <2>1 DEF NoneBehind, NoneBehindRound, Reached, history
<1>4. NothingSkipped'
  <2>0. EachSkipsNothing' => NothingSkipped'
    BY SkippedByRoom, PTL
  <2> SUFFICES ASSUME NEW t \in SubId, NEW q \in Room, chat_room_by_sub_id[t] = q
               PROVE  LastState(q)'.index <= Reached(t)
    BY <1>1, <2>0 DEF EachSkipsNothing, SkipsNothing, Reached, history
  <2>1. CASE q = r
    <3>1. LastState(r)' = new_chat_states[f][r]
      BY <1>1 DEF TypeOK, LastState
    <3>2. new_chat_states[f][r].index <= Reached(t)
      BY <1>1, <2>1 DEF NoneBehind, NoneBehindRound
    <3> QED BY <2>1, <3>1, <3>2
  <2>2. CASE q # r
    <3>1. LastState(q)' = LastState(q)
      BY <1>1, <2>2 DEF TypeOK, LastState, State
    <3> QED BY <3>1, SkippedByRoom DEF NoneBehind, EachSkipsNothing, SkipsNothing
  <2> QED BY <2>1, <2>2
<1> QED BY <1>2, <1>3, <1>4 DEF NoneBehind

LEMMA NoneBehindStep ==
  ASSUME TypeOK, TypeOK', Fresh, MapsAgree, TrueRounds, NoneBehind, Next
  PROVE  NoneBehind'
<1>1. CASE \E c \in Conn, s \in SubId, r \in Room : Subscribe(c, s, r)
  BY <1>1, NoneBehindSubscribe
<1>2. CASE (\E s \in SubId : Unsubscribing(s)) /\ UNCHANGED <<messages, rounds>>
  BY <1>2, NoneBehindUnsubscribe
<1>3. CASE UNCHANGED <<maps, history, messages, rounds>>
  <2>1. \A r \in Room : messages'[r] >= messages[r]
    BY <1>3, MessagesAreNat
  <2> QED BY <1>3, <2>1, NoneBehindAlone
<1>4. CASE NothingToDiscover
  BY <1>3, <1>4 DEF NothingToDiscover, vars
<1>5. ASSUME NEW r \in Room, NewMessage(r)
      PROVE  NoneBehind'
  <2>1. \A q \in Room : messages'[q] >= messages[q]
    BY <1>5, MessagesAreNat DEF NewMessage, TypeOK
  <2> QED BY <1>5, <2>1, NoneBehindAlone DEF NewMessage
<1>6. ASSUME NEW f \in Round,
             \/ StartRound(f) \/ SpawnFetches(f) \/ ChannelCloses(f) \/ RoundEnds(f)
             \/ NextAnswer(f)
             \/ \E r \in Room : FetchAnswers(f, r) \/ FetchFails(f, r)
      PROVE  NoneBehind'
  <2>1. /\ UNCHANGED <<maps, messages, todo, new_chat_states, history>>
        /\ forwarder[f] = "send" => todo[f] = {} \/ (forwarder' = forwarder /\ read' = read)
        /\ Handling(f)' => Handling(f) /\ read' = read /\ forwarder' = forwarder
        /\ \A g \in Round \ {f} : forwarder'[g] = forwarder[g] /\ read'[g] = read[g]
    BY <1>6 DEF StartRound, SpawnFetches, ChannelCloses, RoundEnds, NextAnswer, FetchAnswers,
                FetchFails, Handling, TypeOK
  <2>2. NothingSkipped'
    BY <2>1 DEF NoneBehind, NothingSkipped, LastState, State, maps, history
  <2>3. NoneBehindRound'
    BY <2>1 DEF NoneBehind, NoneBehindRound, Reached, maps, history
  <2>4. NoneBehindAnswer'
    BY <2>1 DEF NoneBehind, NoneBehindAnswer, Handling, Reached, maps, history
  <2> QED BY <2>2, <2>3, <2>4 DEF NoneBehind
<1>7. ASSUME NEW f \in Round,
             \/ ReceiveNotChat(f) \/ ReceiveUnderflows(f)
             \/ \E s \in SubId : SendPanics(f, s)
      PROVE  NoneBehind'
  BY <1>7, NoneBehindDies DEF ReceiveNotChat, ReceiveUnderflows, SendPanics
<1>8. CASE RoundStep
  BY <1>4, <1>5, <1>6, <1>7, <1>8, NoneBehindReceive, NoneBehindRead, NoneBehindSend,
     NoneBehindStore
  DEF RoundStep, Forward
<1> QED BY <1>1, <1>2, <1>3, <1>8, ClientCases

-----------------------------------------------------------------------------
(* The theorems *)

\* The four maps agree and every live handler has noted its subscriptions; and no
\* answer, no state a round is about to store and no state stored for a room is ahead
\* of a subscriber, except of one the forwarder is about to send to.
THEOREM Invariant == Spec => []Inv
<1>1. ASSUME Init PROVE Inv
  <2>1. TypeOK
    BY <1>1, TypeInit
  <2>2. Fresh /\ MapsAgree
    BY <1>1, AbsentAssumption DEF Init, Fresh, MapsAgree, Subscribers
  <2>3. SubscriptionsNoted
    BY <1>1, AbsentAssumption DEF Init, SubscriptionsNoted
  <2>4. StatesDated /\ AnswersTrue /\ AnswerAtHand
    BY <1>1 DEF Init, StatesDated, Dated, NoStates, AnswersTrue, AnswerAtHand, Handling
  <2>5. NoneBehindAnswer /\ NoneBehindRound /\ NothingSkipped
    BY <1>1 DEF Init, NoneBehindAnswer, Handling, NoneBehindRound, NoStates, NothingSkipped
  <2> QED BY <2>1, <2>2, <2>3, <2>4, <2>5 DEF Inv
<1>2. ASSUME Inv, Next PROVE Inv'
  <2>1. TypeOK'
    BY <1>2, TypeStep DEF Inv
  <2>2. Fresh' /\ MapsAgree'
    BY <1>2, MapsStep DEF Inv
  <2>3. SubscriptionsNoted'
    BY <1>2, NotedStep DEF Inv
  <2>4. TrueRounds'
    BY <1>2, TrueStep DEF Inv, TrueRounds
  <2>5. NoneBehind'
    BY <1>2, <2>1, NoneBehindStep DEF Inv, TrueRounds, NoneBehind
  <2> QED BY <2>1, <2>2, <2>3, <2>4, <2>5 DEF Inv, TrueRounds, NoneBehind
<1>3. ASSUME Inv, UNCHANGED vars PROVE Inv'
  <2> USE <1>3 DEF Inv, vars
  <2>1. TypeOK'
    BY DEF TypeOK, maps, clients, rounds, history
  <2>2. Fresh' /\ MapsAgree'
    BY DEF Fresh, MapsAgree, Subscribers, maps, clients
  <2>3. SubscriptionsNoted'
    BY DEF SubscriptionsNoted, Noted, maps, clients
  <2>4. StatesDated' /\ AnswersTrue' /\ AnswerAtHand'
    BY DEF StatesDated, Dated, AnswersTrue, AnswerAtHand, Handling, maps, rounds
  <2>5. NoneBehind'
    <3>1. \A r \in Room : messages'[r] >= messages[r]
      BY MessagesAreNat
    <3> QED BY <2>1, <3>1, NoneBehindAlone DEF NoneBehind
  <2> QED BY <2>1, <2>2, <2>3, <2>4, <2>5 DEF NoneBehind
<1> QED BY <1>1, <1>2, <1>3, PTL DEF Spec

\* The maps, the connections and the rounds have their types (TypeOK).
THEOREM TypeCorrect == Spec => []TypeOK
<1>1. Inv => TypeOK
  BY DEF Inv
<1> QED BY <1>1, Invariant, PTL

\* The four maps of ChatRoomSubscriptionData tell one story (MapsAgree), whoever
\* subscribes and unsubscribes what, and however handlers end.
THEOREM MapsAlwaysAgree == Spec => []MapsAgree
<1>1. Inv => MapsAgree
  BY DEF Inv
<1> QED BY <1>1, Invariant, PTL

\* A handler that reached the end of its clean-up has left no subscription
\* (ClosedLeavesNothing): it had noted every id that still is one.
THEOREM CleanUpIsComplete == Spec => []ClosedLeavesNothing
<1>1. ASSUME Inv PROVE ClosedLeavesNothing
  <2> SUFFICES ASSUME NEW s \in SubId, subscriptions[s] # None
               PROVE  conn[subscriptions[s]] # "closed"
    BY DEF ClosedLeavesNothing
  <2>1. subscriptions[s] \in Conn
    BY <1>1 DEF Inv, TypeOK
  <2> QED BY <1>1, <2>1 DEF Inv, SubscriptionsNoted
<1> QED BY <1>1, Invariant, PTL

\* Whatever the rounds under way store, every answer that waits to be received and is
\* shorter than the state of its room is older than it too, so the timestamps reject it;
\* and an accepted one is long enough for split_off (UnderflowIsRejected).
THEOREM UnderflowRejected == Spec => []UnderflowIsRejected
<1>1. ASSUME Inv PROVE UnderflowIsRejected
  <2>1. ASSUME NEW f \in Round, NEW k \in 1..Len(inbox[f]),
               inbox[f][k].len < LastState(inbox[f][k].room).index
        PROVE  LastState(inbox[f][k].room).timestamp > Timestamp(inbox[f][k].len)
    <3> DEFINE a == inbox[f][k]
               last == LastState(a.room)
    <3>1. a \in Answer
      BY <1>1 DEF Inv, TypeOK
    <3>2. a.room \in Room
      BY <1>1 DEF Inv, AnswersTrue
    <3>3. last.timestamp >= Timestamp(last.index)
      BY <1>1, <3>2 DEF Inv, StatesDated, Dated, LastState, State, Timestamp
    <3>4. last \in ChatState
      BY <1>1, <3>2, LastStateType DEF Inv
    <3>5. a.len \in Nat /\ last.timestamp \in Nat /\ last.index \in Nat
      BY <3>1, <3>4 DEF Answer, ChatState
    <3> QED BY <2>1, <3>3, <3>5 DEF Timestamp
  <2>2. \A f \in Round :
           forwarder[f] \in {"subscribers", "send"} => read[f].index <= read[f].len
    BY <1>1 DEF Inv, AnswerAtHand, Handling
  <2> QED BY <2>1, <2>2 DEF UnderflowIsRejected
<1> QED BY <1>1, Invariant, PTL

\* No message is skipped (NothingSkipped): the state kept for a room never runs
\* ahead of a subscriber, however many rounds of discover_new_chats overlap.
THEOREM NoMessageSkipped == Spec => []NothingSkipped
<1>1. Inv => NothingSkipped
  BY DEF Inv
<1> QED BY <1>1, Invariant, PTL
=============================================================================
