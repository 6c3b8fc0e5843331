--------------------------- MODULE ChatClientProofs ---------------------------
(***************************************************************************)
(* Proofs about ChatClient, for any rooms, friends, messages and bounds.   *)
(***************************************************************************)
EXTENDS ChatClient, FiniteSetTheorems, TLAPS

-----------------------------------------------------------------------------
(* Facts about sequences and the sets of their elements.                   *)

LEMMA AppendSet ==
  ASSUME NEW S, NEW s \in Seq(S), NEW x
  PROVE  ToSet(Append(s, x)) = ToSet(s) \cup {x}
<1>1. \A y \in ToSet(Append(s, x)) : y \in ToSet(s) \cup {x}
  BY DEF ToSet
<1>2. \A y \in ToSet(s) : y \in ToSet(Append(s, x))
  <2>1. \A i \in DOMAIN s : Append(s, x)[i] = s[i] /\ i \in DOMAIN Append(s, x)
    OBVIOUS
  <2> QED BY <2>1 DEF ToSet
<1>3. x \in ToSet(Append(s, x))
  <2>1. /\ Append(s, x)[Len(s) + 1] = x
        /\ Len(s) + 1 \in DOMAIN Append(s, x)
    OBVIOUS
  <2> QED BY <2>1 DEF ToSet
<1> QED BY <1>1, <1>2, <1>3

LEMMA ConcatSet ==
  ASSUME NEW S, NEW s \in Seq(S), NEW t \in Seq(S)
  PROVE  ToSet(s \o t) = ToSet(s) \cup ToSet(t)
<1>1. \A y \in ToSet(s \o t) : y \in ToSet(s) \cup ToSet(t)
  BY DEF ToSet
<1>2. \A y \in ToSet(s) : y \in ToSet(s \o t)
  <2>1. \A i \in DOMAIN s : (s \o t)[i] = s[i] /\ i \in DOMAIN (s \o t)
    OBVIOUS
  <2> QED BY <2>1 DEF ToSet
<1>3. \A y \in ToSet(t) : y \in ToSet(s \o t)
  <2>1. \A i \in DOMAIN t : /\ (s \o t)[Len(s) + i] = t[i]
                            /\ Len(s) + i \in DOMAIN (s \o t)
    OBVIOUS
  <2> QED BY <2>1 DEF ToSet
<1> QED BY <1>1, <1>2, <1>3

LEMMA PrependSet ==
  ASSUME NEW S, NEW s \in Seq(S), NEW x \in S
  PROVE  ToSet(<<x>> \o s) = {x} \cup ToSet(s)
<1> DEFINE head == <<x>>
<1>1. head \in Seq(S)
  OBVIOUS
<1>2. ToSet(head) = {x}
  BY DEF ToSet
<1> HIDE DEF head
<1>3. ToSet(head \o s) = ToSet(head) \cup ToSet(s)
  BY <1>1, ConcatSet
<1> QED BY <1>2, <1>3 DEF head

LEMMA TailSet ==
  ASSUME NEW S, NEW s \in Seq(S), s # <<>>
  PROVE  ToSet(s) = {Head(s)} \cup ToSet(Tail(s))
<1>1. \A i \in DOMAIN s : s[i] = Head(s) \/ (i - 1 \in DOMAIN Tail(s) /\ Tail(s)[i - 1] = s[i])
  OBVIOUS
<1>2. \A i \in DOMAIN Tail(s) : i + 1 \in DOMAIN s /\ Tail(s)[i] = s[i + 1]
  OBVIOUS
<1>3. Head(s) = s[1] /\ 1 \in DOMAIN s
  OBVIOUS
<1> QED BY <1>1, <1>2, <1>3 DEF ToSet

\* A list cut in two keeps its elements.
LEMMA SplitSet ==
  ASSUME NEW S, NEW s \in Seq(S), NEW k \in 0..Len(s)
  PROVE  /\ SubSeq(s, 1, k) \in Seq(S) /\ SubSeq(s, k + 1, Len(s)) \in Seq(S)
         /\ ToSet(s) = ToSet(SubSeq(s, 1, k)) \cup ToSet(SubSeq(s, k + 1, Len(s)))
<1> DEFINE a == SubSeq(s, 1, k)
           b == SubSeq(s, k + 1, Len(s))
<1>1. a \in Seq(S) /\ b \in Seq(S) /\ Len(a) = k /\ Len(b) = Len(s) - k
  OBVIOUS
<1>2. \A i \in 1..k : a[i] = s[i]
  OBVIOUS
<1>3. \A i \in 1..(Len(s) - k) : b[i] = s[k + i]
  OBVIOUS
<1>4. \A i \in DOMAIN s : i \in DOMAIN a \/ i - k \in DOMAIN b
  BY <1>1
<1>5. \A i \in DOMAIN a : i \in DOMAIN s
  BY <1>1
<1>6. \A i \in DOMAIN b : k + i \in DOMAIN s
  BY <1>1
<1>7. /\ \A i \in DOMAIN a : a[i] = s[i]
      /\ \A i \in DOMAIN b : b[i] = s[k + i]
      /\ \A i \in DOMAIN s : i - k \in DOMAIN b => b[i - k] = s[i]
  BY <1>1, <1>2, <1>3
<1>8. \A y \in ToSet(s) : y \in ToSet(a) \/ y \in ToSet(b)
  <2>1. \A i \in DOMAIN s : (\E j \in DOMAIN a : a[j] = s[i]) \/ \E j \in DOMAIN b : b[j] = s[i]
    BY <1>4, <1>7
  <2> HIDE DEF a, b
  <2> QED BY <2>1 DEF ToSet
<1>9. \A y \in ToSet(a) \cup ToSet(b) : y \in ToSet(s)
  <2>1. \A i \in DOMAIN a : \E j \in DOMAIN s : a[i] = s[j]
    BY <1>5, <1>7
  <2>2. \A i \in DOMAIN b : \E j \in DOMAIN s : b[i] = s[j]
    BY <1>6, <1>7
  <2> HIDE DEF a, b
  <2> QED BY <2>1, <2>2 DEF ToSet
<1> QED BY <1>1, <1>8, <1>9

LEMMA SetSequence ==
  ASSUME NEW T \in SUBSET Messages
  PROVE  SetToSeq(T) \in Seq(Messages) /\ ToSet(SetToSeq(T)) \subseteq T
<1>1. IsFiniteSet(T)
  BY FiniteAssumption, FS_Subset DEF Messages
<1>2. PICK f \in [1..Cardinality(T) -> T] : IsInjective(f)
  BY <1>1, FS_CardinalityType DEF ExistsBijection, Bijection, Injection
<1>3. SetToSeq(T) \in [1..Cardinality(T) -> T]
  BY <1>2 DEF SetToSeq
<1>4. Cardinality(T) \in Nat
  BY <1>1, FS_CardinalityType
<1> QED BY <1>3, <1>4 DEF ToSet

-----------------------------------------------------------------------------
(* Type correctness.                                                       *)

LEMMA InitType == Init => TypeOK
<1> SUFFICES ASSUME Init PROVE TypeOK
  OBVIOUS
<1>1. sock \in SockStates /\ reconnectAttempts \in 0..MaxReconnect
  BY BoundAssumption DEF Init, SockStates
<1>2. /\ currentRoom \in Rooms \cup {NULL} /\ target \in Friends \cup {NULL}
      /\ receivedMsgIds \subseteq Messages /\ unread \subseteq Friends
  BY DEF Init
<1>3. shown \in [Messages -> Nat]
  BY DEF Init
<1>4. up \in Seq(Frames) /\ down \in Seq(Messages) /\ queue \in Seq(Messages)
  BY DEF Init
<1>5. posted \in [Logs -> SUBSET Messages] /\ log \in [Logs -> Seq(Messages)]
  BY DEF Init
<1>6. cast \in [Messages -> CastStates]
  BY DEF Init, CastStates
<1>7. timer \in BOOLEAN /\ listed \in BOOLEAN
  BY DEF Init
<1> QED
  BY <1>1, <1>2, <1>3, <1>4, <1>5, <1>6, <1>7 DEF Init, TypeOK

\* The types, with a room to read the history of.
Control == TypeOK /\ (srvPc = "history" => roomOf \in Rooms)

\* What a list holds was posted there.
LogInv == \A c \in Logs : ToSet(log[c]) \subseteq posted[c]

\* Nothing is under way but between an open page and its session.
SilentInv == sock # "open" => up = <<>> /\ down = <<>>

Typed == Control /\ LogInv /\ SilentInv

\* A read returns messages of the list, and so does every part of it.
LEMMA RecentType ==
  ASSUME TypeOK, NEW c \in Logs, NEW k \in 0..Len(Recent(c))
  PROVE  /\ SubSeq(Recent(c), 1, k) \in Seq(Messages)
         /\ ToSet(SubSeq(Recent(c), 1, k)) \subseteq ToSet(log[c])
<1>1. log[c] \in Seq(Messages)
  BY DEF TypeOK
<1> DEFINE n == Len(log[c])
           first == IF n > Limit THEN n - Limit + 1 ELSE 1
<1>2. n \in Nat /\ first \in 1..(n + 1)
  BY <1>1, LimitAssumption
<1>3. Recent(c) = SubSeq(log[c], first, n)
  BY DEF Recent
<1> HIDE DEF first
<1>4. /\ Recent(c) \in Seq(Messages)
      /\ \A i \in 1..Len(Recent(c)) : first + i - 1 \in 1..n /\ Recent(c)[i] = log[c][first + i - 1]
  BY <1>1, <1>2, <1>3
<1>5. /\ SubSeq(Recent(c), 1, k) \in Seq(Messages)
      /\ ToSet(SubSeq(Recent(c), 1, k)) \subseteq ToSet(Recent(c))
  BY <1>4, SplitSet
<1>6. ToSet(Recent(c)) \subseteq ToSet(log[c])
  <2>1. DOMAIN Recent(c) = 1..Len(Recent(c)) /\ DOMAIN log[c] = 1..n
    BY <1>1, <1>4
  <2> QED BY <1>4, <2>1 DEF ToSet
<1> QED BY <1>5, <1>6

LEMMA ReplayType ==
  ASSUME TypeOK, NEW c \in Conversations, NEW k \in 0..Len(Recent(c)), Replay(c, k)
  PROVE  down' \in Seq(Messages) /\ missed' \subseteq Messages
<1>1. log[c] \in Seq(Messages)
  BY DEF TypeOK, Logs
<1>2. SubSeq(Recent(c), 1, k) \in Seq(Messages)
  BY RecentType DEF Logs
<1>3. ToSet(log[c]) \subseteq Messages
  BY <1>1 DEF ToSet
<1> QED BY <1>2, <1>3 DEF TypeOK, Replay, Reply

LEMMA BrokenType ==
  ASSUME TypeOK, Broken
  PROVE  /\ down' \in Seq(Messages) /\ queue' \in Seq(Messages)
         /\ cast' \in [Messages -> CastStates]
         /\ loaded' = FALSE /\ missed' = {}
         /\ UNCHANGED <<srvVars, posted, log, sent, switchHist>>
<1>1. PICK due \in SUBSET {m \in Messages : cast[m] = "due" /\ Private(m)} :
        queue' = SetToSeq(due) \o queue
  BY DEF Broken
<1>2. SetToSeq(due) \in Seq(Messages)
  BY SetSequence
<1>3. queue' \in Seq(Messages)
  BY <1>1, <1>2 DEF TypeOK
<1>4. cast' \in [Messages -> CastStates]
  BY DEF TypeOK, Broken, CastStates
<1> QED BY <1>3, <1>4 DEF Broken

\* A new session is sent a part of the offline queue.
LEMMA WelcomeType ==
  ASSUME TypeOK, Welcome
  PROVE  down' \in Seq(Messages) /\ ToSet(down') \subseteq ToSet(queue)
<1>1. PICK i \in 0..Len(queue), j \in 0..Len(queue) : down' = SubSeq(queue, i + 1, j)
  BY DEF Welcome
<1>2. queue \in Seq(Messages)
  BY DEF TypeOK
<1>3. /\ down' \in Seq(Messages)
      /\ \A k \in DOMAIN down' : i + k \in DOMAIN queue /\ down'[k] = queue[i + k]
  BY <1>1, <1>2
<1> QED BY <1>3 DEF ToSet

LEMMA PushType ==
  ASSUME TypeOK, NEW c \in Logs, NEW m \in Messages, Push(c, m)
  PROVE  /\ posted' \in [Logs -> SUBSET Messages]
         /\ log' \in [Logs -> Seq(Messages)]
<1>1. Append(log[c], m) \in Seq(Messages)
  BY DEF TypeOK
<1> QED BY <1>1 DEF TypeOK, Push

LEMMA RequestType ==
  ASSUME TypeOK, NEW frame \in Frames, Request(frame)
  PROVE  up' \in Seq(Frames) /\ loaded' \in BOOLEAN
<1>1. Append(up, frame) \in Seq(Frames)
  BY DEF TypeOK
<1> QED BY <1>1 DEF TypeOK, Request

LEMMA ReplyType ==
  ASSUME TypeOK, NEW msgs \in Seq(Messages), Reply(msgs)
  PROVE  down' \in Seq(Messages)
BY DEF TypeOK, Reply

LEMMA ClearType == ClearView => /\ receivedMsgIds' = {}
                                /\ shown' \in [Messages -> Nat]
  BY DEF ClearView

LEMMA OnCloseType ==
  ASSUME TypeOK, OnClose
  PROVE  /\ sock' = "closed" /\ reconnectAttempts' \in 0..MaxReconnect
         /\ timer' \in BOOLEAN /\ listed' \in BOOLEAN
<1>1. reconnectAttempts' \in 0..MaxReconnect
  <2>1. reconnectAttempts' \in {reconnectAttempts, reconnectAttempts + 1}
        /\ (reconnectAttempts' # reconnectAttempts => reconnectAttempts < MaxReconnect)
    BY DEF OnClose
  <2> QED BY <2>1, BoundAssumption DEF TypeOK
<1>2. timer' \in {TRUE, timer} /\ listed' = listed
  BY DEF OnClose
<1> QED BY <1>1, <1>2 DEF OnClose, TypeOK

\* A taken frame has the fields of its type.
LEMMA TakeType ==
  ASSUME TypeOK, NEW type, Take(type)
  PROVE  /\ up' \in Seq(Frames) /\ up # <<>> /\ up' = Tail(up) /\ srvPc = "idle"
         /\ Head(up) \in Frames /\ Head(up).type = type
         /\ type = "SWITCH_ROOM" => Head(up).roomId \in Rooms
         /\ type = "LOAD_PRIVATE_HISTORY" => Head(up).msgReceiver \in Friends
         /\ type = "CHAT" => Head(up).msgid \in Mine
         /\ type = "PRIVATE" => Head(up).msgid \in Mine /\ Head(up).msgReceiver \in Friends
<1>1. up \in Seq(Frames) /\ up # <<>> /\ Head(up).type = type /\ up' = Tail(up) /\ srvPc = "idle"
  BY DEF TypeOK, Take
<1>2. Head(up) \in Frames /\ Tail(up) \in Seq(Frames)
  BY <1>1
<1> QED BY <1>1, <1>2 DEF Frames

LEMMA ControlStep == ASSUME Control, [Next]_vars PROVE Control'
<1> USE RoomAssumption, BoundAssumption
<1> USE DEF Control, sockVars, viewVars, srvVars, storeVars, switchHist
<1>0. TypeOK
  OBVIOUS
<1>1. CASE LoadRooms
  BY <1>1 DEF LoadRooms, TypeOK, SockStates
<1>2. CASE Opened
  <2>1. /\ sock' \in SockStates /\ reconnectAttempts' \in 0..MaxReconnect
        /\ UNCHANGED <<timer, listed, target, unread, cast>>
    BY <1>2 DEF Opened, SockStates
  <2>2. currentRoom' \in Rooms \cup {NULL}
    BY <1>0, <1>2 DEF Opened, TypeOK
  <2>3. receivedMsgIds' \subseteq Messages /\ shown' \in [Messages -> Nat]
    BY <1>0, <1>2, ClearType DEF Opened, TypeOK
  <2>4. up' \in Seq(Frames) /\ loaded' \in BOOLEAN
    <3>1. <<>> \in Seq(Frames) /\ <<[type |-> "SWITCH_ROOM", roomId |-> FirstRoom]>> \in Seq(Frames)
      BY DEF Frames
    <3> QED BY <1>0, <1>2, <3>1 DEF Opened, TypeOK
  <2>5. /\ roomOf' = NULL /\ memberOf' = {} /\ srvPc' = "idle" /\ Welcome
        /\ cut' = FALSE /\ missed' = {} /\ before' = {}
        /\ UNCHANGED <<posted, log, queue, sent, unseen>>
    BY <1>2 DEF Opened, NewSession
  <2>6. down' \in Seq(Messages)
    BY <1>0, <2>5, WelcomeType
  <2> QED BY <1>0, <2>1, <2>2, <2>3, <2>4, <2>5, <2>6 DEF TypeOK
<1>3. CASE Refused
  BY <1>3, OnCloseType DEF Refused, TypeOK, SockStates
<1>4. CASE Drop
  <2>1. up' \in Seq(Frames) /\ unseen' \subseteq Messages
    BY <1>4 DEF Drop, TypeOK
  <2> QED BY <1>4, <2>1, BrokenType, OnCloseType DEF Drop, TypeOK, SockStates
<1>5. CASE Reconnect
  BY <1>5 DEF Reconnect, TypeOK, SockStates
<1>6. CASE Logout
  <2>1. /\ sock' \in SockStates /\ reconnectAttempts' \in 0..MaxReconnect
        /\ currentRoom' = NULL /\ target' = NULL /\ unread' = {} /\ up' = <<>>
    BY <1>6 DEF Logout, SockStates
  <2>4. timer' \in BOOLEAN /\ listed' \in BOOLEAN
    BY <1>6 DEF Logout
  <2>2. receivedMsgIds' = {} /\ shown' \in [Messages -> Nat]
    BY <1>6, ClearType DEF Logout
  <2>3. up' \in Seq(Frames)
    BY <2>1
  <2> QED BY <1>0, <1>6, <2>1, <2>2, <2>3, <2>4, BrokenType DEF Logout, TypeOK
<1>7. ASSUME NEW r \in Rooms, SwitchRoom(r) PROVE Control'
  <2>1. [type |-> "SWITCH_ROOM", roomId |-> r] \in Frames
    BY DEF Frames
  <2>2. up' \in Seq(Frames) /\ loaded' \in BOOLEAN
    BY <1>0, <1>7, <2>1, RequestType DEF SwitchRoom
  <2> QED BY <1>7, <2>2, ClearType DEF SwitchRoom, TypeOK
<1>8. ASSUME NEW f \in Friends, SelectPrivateChat(f) PROVE Control'
  <2>1. [type |-> "LOAD_PRIVATE_HISTORY", msgReceiver |-> f] \in Frames
    BY DEF Frames
  <2>2. up' \in Seq(Frames) /\ loaded' \in BOOLEAN
    BY <1>0, <1>8, <2>1, RequestType DEF SelectPrivateChat
  <2>3. unseen' \subseteq Messages
    BY <1>8 DEF SelectPrivateChat, Answered, TypeOK
  <2> QED BY <1>8, <2>2, <2>3, ClearType DEF SelectPrivateChat, TypeOK
<1>9. ASSUME NEW m \in Mine, SendMsg(m) PROVE Control'
  <2> DEFINE frame == IF target # NULL
                        THEN [type |-> "PRIVATE", msgid |-> m, msgReceiver |-> target]
                        ELSE [type |-> "CHAT", msgid |-> m, roomId |-> currentRoom]
  <2>1. frame \in Frames
    BY DEF Frames, TypeOK
  <2>2. Append(up, frame) \in Seq(Frames)
    BY <2>1 DEF TypeOK
  <2>3. up' = Append(up, frame) /\ sent' = sent \cup {m}
    BY <1>9 DEF SendMsg
  <2>4. sent' \subseteq Messages
    BY <2>3 DEF TypeOK, Messages
  <2>5. up' \in Seq(Frames)
    BY <2>2, <2>3
  <2> QED BY <1>9, <2>4, <2>5 DEF SendMsg, TypeOK
<1>10. CASE HandleMessage
  <2>1. /\ Head(down) \in Messages /\ Tail(down) \in Seq(Messages)
    BY <1>10 DEF HandleMessage, TypeOK
  <2>2. /\ receivedMsgIds' \subseteq Messages
        /\ unread' \subseteq Friends /\ unseen' \subseteq Messages
        /\ down' \in Seq(Messages)
    BY <1>10, <2>1 DEF HandleMessage, TypeOK
  <2>3. shown' \in [Messages -> Nat]
    <3>1. shown' \in {shown, [shown EXCEPT ![Head(down)] = @ + 1]}
      BY <1>10 DEF HandleMessage
    <3> QED BY <2>1, <3>1 DEF TypeOK
  <2> QED BY <1>10, <2>2, <2>3 DEF HandleMessage, TypeOK
<1>11. CASE HandleSwitch
  <2>1. up' \in Seq(Frames) /\ Head(up).roomId \in Rooms
    BY <1>0, <1>11, TakeType DEF HandleSwitch
  <2>2. cast' \in [Messages -> CastStates]
    BY <1>11 DEF HandleSwitch, TypeOK, CastStates
  <2>3. roomOf' \in Rooms /\ memberOf' \subseteq Rooms
    BY <1>11, <2>1 DEF HandleSwitch, MovedTo, TypeOK
  <2>4. before' \subseteq Messages
    BY <1>11 DEF HandleSwitch, Posted
  <2> QED BY <1>11, <2>1, <2>2, <2>3, <2>4 DEF HandleSwitch, TypeOK
<1>12. CASE HandleSwitchFault
  <2>1. up' \in Seq(Frames)
    BY <1>0, <1>12, TakeType DEF HandleSwitchFault
  <2>2. cast' \in [Messages -> CastStates]
    BY <1>12 DEF HandleSwitchFault, TypeOK, CastStates
  <2> QED BY <1>12, <2>1, <2>2 DEF HandleSwitchFault, TypeOK
<1>13. CASE HandleHistory
  <2>1. roomOf \in Conversations
    BY <1>13 DEF HandleHistory, Conversations
  <2>2. down' \in Seq(Messages) /\ missed' \subseteq Messages
    BY <1>0, <1>13, <2>1, ReplayType DEF HandleHistory
  <2> QED BY <1>13, <2>2 DEF HandleHistory, TypeOK
<1>14. CASE HandleLoad
  <2>1. up' \in Seq(Frames) /\ Head(up).msgReceiver \in Conversations
    BY <1>0, <1>14, TakeType DEF HandleLoad, Conversations
  <2>2. /\ down' \in Seq(Messages) /\ missed' \subseteq Messages
        /\ unseen' \subseteq Messages
    BY <1>0, <1>14, <2>1, ReplayType DEF HandleLoad, Answered, TypeOK
  <2> QED BY <1>14, <2>1, <2>2 DEF HandleLoad, TypeOK
<1>15. CASE HandleChat
  <2>1. up' \in Seq(Frames) /\ Head(up).msgid \in Messages
    BY <1>0, <1>15, TakeType DEF HandleChat, Messages
  <2>2. roomOf \in Logs /\ <<Head(up).msgid>> \in Seq(Messages)
    BY <2>1 DEF TypeOK, Logs, Conversations
  <2>3. posted' \in [Logs -> SUBSET Messages] /\ log' \in [Logs -> Seq(Messages)]
    BY <1>0, <1>15, <2>1, <2>2, PushType DEF HandleChat
  <2>4. down' \in Seq(Messages) /\ missed' \subseteq Messages
    BY <1>0, <1>15, <2>1, <2>2, ReplyType DEF HandleChat, TypeOK
  <2> QED BY <1>15, <2>1, <2>3, <2>4 DEF HandleChat, TypeOK
<1>16. CASE HandlePrivate
  <2>1. /\ up' \in Seq(Frames) /\ Head(up).msgid \in Messages
        /\ Head(up).msgReceiver \in Logs
    BY <1>0, <1>16, TakeType DEF HandlePrivate, Messages, Logs, Conversations
  <2>2. <<Head(up).msgid>> \in Seq(Messages)
    BY <2>1
  <2>3. posted' \in [Logs -> SUBSET Messages] /\ log' \in [Logs -> Seq(Messages)]
    BY <1>0, <1>16, <2>1, PushType DEF HandlePrivate
  <2>4. down' \in Seq(Messages) /\ missed' \subseteq Messages
    BY <1>0, <1>16, <2>1, <2>2, ReplyType DEF HandlePrivate, TypeOK
  <2> QED BY <1>16, <2>1, <2>3, <2>4 DEF HandlePrivate, TypeOK
<1>17. ASSUME NEW m \in Theirs, NEW r \in Rooms, OtherChat(m, r) PROVE Control'
  <2>1. m \in Messages /\ r \in Logs
    BY DEF Messages, Logs, Conversations
  <2>2. posted' \in [Logs -> SUBSET Messages] /\ log' \in [Logs -> Seq(Messages)]
    BY <1>0, <1>17, <2>1, PushType DEF OtherChat
  <2>3. cast' \in [Messages -> CastStates]
    BY <1>17 DEF OtherChat, TypeOK, CastStates
  <2> QED BY <1>17, <2>1, <2>2, <2>3 DEF OtherChat, TypeOK
<1>18. ASSUME NEW m \in Theirs, NEW f \in Friends, FriendPrivate(m, f) PROVE Control'
  <2>1. m \in Messages /\ f \in Logs /\ <<m>> \in Seq(Messages)
    BY DEF Messages, Logs, Conversations
  <2>2. posted' \in [Logs -> SUBSET Messages] /\ log' \in [Logs -> Seq(Messages)]
    BY <1>0, <1>18, <2>1, PushType DEF FriendPrivate
  <2>3. cast' \in [Messages -> CastStates]
    BY <1>18, <2>1 DEF FriendPrivate, TypeOK, CastStates
  <2>4. queue' \in Seq(Messages)
    <3>1. <<m>> \o queue \in Seq(Messages)
      BY <2>1 DEF TypeOK
    <3>2. queue' \in {queue, <<m>> \o queue}
      BY <1>18 DEF FriendPrivate
    <3> QED BY <3>1, <3>2 DEF TypeOK
  <2> QED BY <1>18, <2>1, <2>2, <2>3, <2>4 DEF FriendPrivate, TypeOK
<1>19. ASSUME NEW m \in Theirs, CastReaches(m) \/ CastPasses(m) \/ CastFails(m)
       PROVE  Control'
  <2>1. m \in Messages /\ <<m>> \in Seq(Messages)
    BY DEF Messages
  <2>2. /\ cast' \in [Messages -> CastStates]
        /\ down' \in Seq(Messages) /\ missed' \subseteq Messages
    BY <1>0, <1>19, <2>1, ReplyType
       DEF CastReaches, CastPasses, CastFails, TypeOK, CastStates
  <2> QED BY <1>19, <2>2 DEF CastReaches, CastPasses, CastFails, TypeOK
<1>20. CASE UNCHANGED vars
  BY <1>20 DEF vars, TypeOK
<1> QED
  BY <1>1, <1>2, <1>3, <1>4, <1>5, <1>6, <1>7, <1>8, <1>9, <1>10, <1>11, <1>12,
     <1>13, <1>14, <1>15, <1>16, <1>17, <1>18, <1>19, <1>20 DEF Next

LEMMA LogStep == ASSUME Control, LogInv, [Next]_vars PROVE LogInv'
<1> USE DEF storeVars
<1>0. TypeOK /\ NULL \in Logs /\ Rooms \subseteq Logs /\ Friends \subseteq Logs
  BY DEF Control, Logs, Conversations
<1>1. CASE UNCHANGED <<posted, log>>
  BY <1>1 DEF LogInv
<1>2. ASSUME NEW c \in Logs, NEW m \in Messages, Push(c, m) PROVE LogInv'
  <2>1. log[c] \in Seq(Messages)
    BY <1>0 DEF TypeOK
  <2>2. \A d \in Logs : posted'[d] = IF d = c THEN posted[d] \cup {m} ELSE posted[d]
    BY <1>0, <1>2 DEF TypeOK, Push
  <2>3. \A d \in Logs : log'[d] = log[d] \/ (d = c /\ log'[d] = Append(log[c], m))
    BY <1>0, <1>2 DEF TypeOK, Push
  <2>4. ToSet(Append(log[c], m)) = ToSet(log[c]) \cup {m}
    BY <2>1, AppendSet
  <2> QED BY <2>2, <2>3, <2>4 DEF LogInv
<1>3. CASE HandleChat
  <2>1. Take("CHAT") /\ Push(roomOf, Head(up).msgid) /\ roomOf \in Logs
    BY <1>0, <1>3 DEF HandleChat, TypeOK
  <2> QED BY <1>0, <1>2, <2>1, TakeType DEF Messages
<1>4. CASE HandlePrivate
  <2>1. Take("PRIVATE") /\ Push(Head(up).msgReceiver, Head(up).msgid)
    BY <1>4 DEF HandlePrivate
  <2> QED BY <1>0, <1>2, <2>1, TakeType DEF Messages
<1>5. ASSUME NEW m \in Theirs,
             (\E r \in Rooms : OtherChat(m, r)) \/ \E f \in Friends : FriendPrivate(m, f)
      PROVE  LogInv'
  BY <1>0, <1>2, <1>5 DEF OtherChat, FriendPrivate, Messages
<1>6. CASE \/ LoadRooms \/ Opened \/ Refused \/ Drop \/ Reconnect \/ Logout
           \/ HandleMessage \/ HandleSwitch \/ HandleSwitchFault \/ HandleHistory \/ HandleLoad
           \/ (\E r \in Rooms : SwitchRoom(r)) \/ (\E f \in Friends : SelectPrivateChat(f))
           \/ (\E m \in Mine : SendMsg(m))
           \/ (\E m \in Theirs : CastReaches(m) \/ CastPasses(m) \/ CastFails(m))
           \/ UNCHANGED vars
  <2>1. UNCHANGED <<posted, log>>
    BY <1>6 DEF LoadRooms, Opened, NewSession, Refused, Drop, Broken, Reconnect, Logout,
       HandleMessage, HandleSwitch, HandleSwitchFault, HandleHistory, HandleLoad,
       SwitchRoom, SelectPrivateChat, SendMsg, CastReaches, CastPasses, CastFails, vars
  <2> QED BY <1>1, <2>1
<1> QED BY <1>3, <1>4, <1>5, <1>6 DEF Next

LEMMA SilentStep == ASSUME Control, SilentInv, [Next]_vars PROVE SilentInv'
<1> USE DEF sockVars, viewVars, storeVars, SilentInv
<1>1. CASE LoadRooms \/ Refused \/ Reconnect
  BY <1>1 DEF LoadRooms, Refused, Reconnect, OnClose
<1>2. CASE Opened \/ HandleMessage \/ \E m \in Mine : SendMsg(m)
  BY <1>2 DEF Opened, HandleMessage, SendMsg
<1>3. CASE Drop \/ Logout
  BY <1>3 DEF Drop, Logout, Broken
<1>4. ASSUME (\E r \in Rooms : SwitchRoom(r)) \/ \E f \in Friends : SelectPrivateChat(f)
      PROVE  SilentInv'
  BY <1>4 DEF SwitchRoom, SelectPrivateChat, Request
<1>5. CASE HandleSwitch \/ HandleSwitchFault \/ HandleLoad \/ HandleChat \/ HandlePrivate
  <2>1. up # <<>> /\ UNCHANGED sock
    BY <1>5 DEF HandleSwitch, HandleSwitchFault, HandleLoad, HandleChat, HandlePrivate, Take
  <2> QED BY <2>1
<1>6. CASE HandleHistory
  BY <1>6 DEF HandleHistory, Replay, Reply
<1>7. ASSUME NEW m \in Theirs,
             \/ \E r \in Rooms : OtherChat(m, r)
             \/ \E f \in Friends : FriendPrivate(m, f)
             \/ CastReaches(m) \/ CastPasses(m) \/ CastFails(m)
      PROVE  SilentInv'
  BY <1>7 DEF OtherChat, FriendPrivate, CastReaches, CastPasses, CastFails, Reply
<1>8. CASE UNCHANGED vars
  BY <1>8 DEF vars
<1> QED BY <1>1, <1>2, <1>3, <1>4, <1>5, <1>6, <1>7, <1>8 DEF Next

LEMMA TypedStep == ASSUME Typed, [Next]_vars PROVE Typed'
  BY ControlStep, LogStep, SilentStep DEF Typed

LEMMA TypedInit == Init => Typed
  BY InitType DEF Init, Typed, Control, LogInv, SilentInv, ToSet

\* The page's and the session's variables have their types in every state.
THEOREM ClientTypeCorrect == Spec => []TypeOK
<1>1. Typed => TypeOK
  BY DEF Typed, Control, Control
<1> QED BY <1>1, TypedInit, TypedStep, PTL DEF Spec

-----------------------------------------------------------------------------
(* A view shows no message twice.                                          *)

\* What is on the screen has an id that was seen since the view was cleared.
RenderInv == /\ NoDoubleRender
             /\ \A m \in Messages : shown[m] > 0 => m \in receivedMsgIds

LEMMA ClearRenders == ClearView => RenderInv'
  BY DEF ClearView, RenderInv, NoDoubleRender

LEMMA RenderStep == ASSUME TypeOK, RenderInv, [Next]_vars PROVE RenderInv'
<1> USE DEF viewVars
<1>1. CASE UNCHANGED <<shown, receivedMsgIds>>
  BY <1>1 DEF RenderInv, NoDoubleRender
<1>2. CASE ClearView
  BY <1>2, ClearRenders
<1>3. CASE HandleMessage
  <2>1. receivedMsgIds' = receivedMsgIds \cup {Head(down)}
    BY <1>3 DEF HandleMessage
  <2>2. CASE Head(down) \in receivedMsgIds
    <3>1. shown' = shown
      BY <1>3, <2>2 DEF HandleMessage
    <3> QED BY <2>1, <3>1 DEF RenderInv, NoDoubleRender
  <2>3. CASE Head(down) \notin receivedMsgIds
    <3>1. shown' \in {shown, [shown EXCEPT ![Head(down)] = @ + 1]}
      BY <1>3, <2>3 DEF HandleMessage
    <3>2. \A m \in Messages \ {Head(down)} : shown'[m] = shown[m]
      BY <3>1 DEF TypeOK
    <3>3. ASSUME Head(down) \in Messages PROVE shown'[Head(down)] \in {0, 1}
      <4>1. shown[Head(down)] = 0
        BY <2>3, <3>3 DEF RenderInv, TypeOK
      <4> QED BY <3>1, <3>3, <4>1 DEF TypeOK
    <3> QED BY <2>1, <3>2, <3>3 DEF RenderInv, NoDoubleRender
  <2> QED BY <2>2, <2>3
<1> QED
  BY <1>1, <1>2, <1>3
     DEF Next, LoadRooms, Opened, Refused, Drop, Reconnect, Logout, SwitchRoom,
         SelectPrivateChat, SendMsg, HandleSwitch, HandleSwitchFault,
         HandleHistory, HandleLoad, HandleChat, HandlePrivate, OtherChat,
         FriendPrivate, CastReaches, CastPasses, CastFails, vars

\* However often a message comes (live, with a history, from the offline queue),
\* the view shows it once: receivedMsgIds and #messages are cleared together.
THEOREM ShownOnce == Spec => []NoDoubleRender
<1>1. Init => RenderInv
  BY DEF Init, RenderInv, NoDoubleRender
<1>2. Typed => TypeOK
  BY DEF Typed, Control, Control
<1>3. RenderInv => NoDoubleRender
  BY DEF RenderInv
<1> QED
  BY <1>1, <1>2, <1>3, TypedInit, TypedStep, RenderStep, PTL DEF Spec

-----------------------------------------------------------------------------
(* Private messages got in another view.                                   *)

\* A message that was seen and not shown is counted as unread, until the view of
\* its friend forgets what it has seen and asks for the history.
NoticeInv ==
  /\ PrivateIsNoticed
  /\ \A m \in unseen : m \in receivedMsgIds => \E f \in Friends : In(m, f) /\ f \in unread

\* What was posted stays posted.
LEMMA PushKeeps ==
  ASSUME TypeOK, NEW c \in Logs, NEW x \in Messages, Push(c, x)
  PROVE  \A m, d : In(m, d) /\ d \in Logs => In(m, d)'
BY DEF TypeOK, In, Push

\* A step that keeps what is unseen, unread, seen and under way to the page, and
\* takes no request for a private history.
LEMMA NoticeKept ==
  ASSUME NoticeInv, unseen' \subseteq unseen, receivedMsgIds' \subseteq receivedMsgIds,
         unread \subseteq unread',
         ToSet(down) \subseteq ToSet(down'),
         \A m \in Messages, f \in Friends : In(m, f) => In(m, f)',
         unseen \subseteq Messages,
         \A x \in ToSet(up) : x \in ToSet(up') \/ x.type # "LOAD_PRIVATE_HISTORY"
  PROVE  NoticeInv'
<1> SUFFICES ASSUME NEW m \in unseen'
             PROVE  /\ m \in receivedMsgIds' => \E f \in Friends : In(m, f)' /\ f \in unread'
                    /\ \/ m \in ToSet(down')
                       \/ \E f \in Friends : /\ In(m, f)'
                            /\ \/ f \in unread'
                               \/ [type |-> "LOAD_PRIVATE_HISTORY", msgReceiver |-> f]
                                    \in ToSet(up')
  BY DEF NoticeInv, PrivateIsNoticed
<1>1. m \in unseen /\ m \in Messages
  OBVIOUS
<1>2. m \in receivedMsgIds' => \E f \in Friends : In(m, f)' /\ f \in unread'
  BY <1>1 DEF NoticeInv
<1>3. CASE m \in ToSet(down)
  BY <1>2, <1>3
<1>4. ASSUME NEW f \in Friends, In(m, f), f \in unread
      PROVE  In(m, f)' /\ f \in unread'
  BY <1>1, <1>4
<1>5. ASSUME NEW f \in Friends, In(m, f),
             [type |-> "LOAD_PRIVATE_HISTORY", msgReceiver |-> f] \in ToSet(up)
      PROVE  In(m, f)' /\ [type |-> "LOAD_PRIVATE_HISTORY", msgReceiver |-> f] \in ToSet(up')
  BY <1>1, <1>5
<1> QED BY <1>1, <1>2, <1>3, <1>4, <1>5 DEF NoticeInv, PrivateIsNoticed

LEMMA NoticeStep == ASSUME Typed, NoticeInv, [Next]_vars PROVE NoticeInv'
<1> USE DEF sockVars, viewVars, srvVars, storeVars
<1>0. TypeOK /\ unseen \subseteq Messages
  BY DEF Typed, Control, TypeOK
<1>a. ToSet(<<>>) = {}
  BY DEF ToSet
<1>b. ASSUME UNCHANGED <<posted, log>> PROVE \A m, d : In(m, d) => In(m, d)'
  BY <1>b DEF In
<1>c. ASSUME NEW type, Take(type)
      PROVE  \A x \in ToSet(up) : x \in ToSet(up') \/ x.type = type
  <2>1. up \in Seq(Frames) /\ up # <<>> /\ up' = Tail(up) /\ Head(up).type = type
    BY <1>0, <1>c, TakeType DEF TypeOK
  <2> QED BY <2>1, TailSet
<1>d. ASSUME NEW msgs \in Seq(Messages), Reply(msgs) PROVE ToSet(down) \subseteq ToSet(down')
  <2>1. down \in Seq(Messages)
    BY <1>0 DEF TypeOK
  <2> QED BY <1>d, <2>1, ConcatSet DEF Reply
<1>e. ASSUME NEW c \in Logs, NEW x \in Messages, Push(c, x)
      PROVE  \A m \in Messages, f \in Friends : In(m, f) => In(m, f)'
  BY <1>0, <1>e, PushKeeps DEF Logs, Conversations
<1>1. CASE LoadRooms \/ Refused \/ Reconnect
  <2>1. UNCHANGED <<unseen, unread, receivedMsgIds, up, down, posted, log>>
    BY <1>1 DEF LoadRooms, Refused, Reconnect
  <2> QED BY <1>0, <1>b, <2>1, NoticeKept
<1>2. CASE Opened
  <2>1. sock # "open" /\ UNCHANGED <<unseen, unread, posted, log>>
        /\ (receivedMsgIds' = {} \/ receivedMsgIds' = receivedMsgIds)
    BY <1>2 DEF Opened, NewSession, ClearView
  <2>2. up = <<>> /\ down = <<>>
    BY <2>1 DEF Typed, SilentInv
  <2>3. \A m \in unseen : \E f \in Friends : In(m, f) /\ f \in unread
    BY <1>a, <2>2 DEF NoticeInv, PrivateIsNoticed
  <2>4. \A m, d : In(m, d) => In(m, d)'
    BY <1>b, <2>1
  <2> QED BY <2>1, <2>3, <2>4 DEF NoticeInv, PrivateIsNoticed
<1>3. CASE Drop
  <2>1. /\ UNCHANGED <<posted, log, unread, receivedMsgIds>>
        /\ unseen' = {m \in unseen : \E f \in unread : In(m, f)}
    BY <1>3 DEF Drop, Broken
  <2>2. \A m \in unseen' : \E f \in Friends : In(m, f)' /\ f \in unread'
    BY <1>0, <1>b, <2>1 DEF TypeOK
  <2> QED BY <2>2 DEF NoticeInv, PrivateIsNoticed
<1>4. CASE Logout
  <2>1. unseen' = {}
    BY <1>4 DEF Logout
  <2> QED BY <2>1 DEF NoticeInv, PrivateIsNoticed
<1>5. ASSUME NEW r \in Rooms, SwitchRoom(r) PROVE NoticeInv'
  <2> DEFINE frame == [type |-> "SWITCH_ROOM", roomId |-> r]
  <2>1. ToSet(up) \subseteq ToSet(up')
    <3>1. frame \in Frames /\ up \in Seq(Frames)
      BY <1>0 DEF Frames, TypeOK
    <3>2. up' \in {up, Append(up, frame)}
      BY <1>5 DEF SwitchRoom, Request
    <3> HIDE DEF frame
    <3> QED BY <3>1, <3>2, AppendSet
  <2>2. /\ UNCHANGED <<unseen, unread, down, posted, log>> /\ receivedMsgIds' = {}
    BY <1>5 DEF SwitchRoom, ClearView
  <2> QED BY <1>0, <1>b, <2>1, <2>2, NoticeKept
<1>6. ASSUME NEW f \in Friends, SelectPrivateChat(f) PROVE NoticeInv'
  <2> DEFINE frame == [type |-> "LOAD_PRIVATE_HISTORY", msgReceiver |-> f]
  <2>1. /\ UNCHANGED <<down, posted, log>> /\ receivedMsgIds' = {}
        /\ unread' = unread \ {f}
    BY <1>6 DEF SelectPrivateChat, ClearView
  <2>2. CASE sock # "open"
    <3>1. up = <<>> /\ down = <<>>
      BY <2>2 DEF Typed, SilentInv
    <3>2. \A m \in unseen' : m \in unseen /\ ~In(m, f)
      BY <1>6, <2>2 DEF SelectPrivateChat, Answered
    <3>3. \A m \in unseen' : \E g \in Friends : In(m, g) /\ g \in unread'
      BY <1>a, <2>1, <3>1, <3>2 DEF NoticeInv, PrivateIsNoticed
    <3>4. \A m \in unseen' : \E g \in Friends : In(m, g)' /\ g \in unread'
      BY <1>b, <2>1, <3>3
    <3> QED BY <2>1, <3>4 DEF NoticeInv, PrivateIsNoticed
  <2>3. CASE sock = "open"
    <3>1. ToSet(up') = ToSet(up) \cup {frame}
      <4>1. frame \in Frames /\ up \in Seq(Frames)
        BY <1>0 DEF Frames, TypeOK
      <4>2. up' = Append(up, frame)
        BY <1>6, <2>3 DEF SelectPrivateChat, Request
      <4> QED BY <4>1, <4>2, AppendSet
    <3>2. unseen' = unseen /\ \A m, d : In(m, d)' <=> In(m, d)
      BY <1>6, <2>1, <2>3 DEF In, SelectPrivateChat
    <3> HIDE DEF frame
    <3>3. PrivateIsNoticed'
      <4> SUFFICES ASSUME NEW m \in unseen', m \notin ToSet(down')
                   PROVE  \E g \in Friends : /\ In(m, g)'
                            /\ \/ g \in unread'
                               \/ [type |-> "LOAD_PRIVATE_HISTORY", msgReceiver |-> g]
                                    \in ToSet(up')
        BY DEF PrivateIsNoticed
      <4>1. m \in unseen /\ m \notin ToSet(down)
        BY <2>1, <3>2
      <4>2. PICK g \in Friends : /\ In(m, g)
              /\ \/ g \in unread
                 \/ [type |-> "LOAD_PRIVATE_HISTORY", msgReceiver |-> g] \in ToSet(up)
        BY <4>1 DEF NoticeInv, PrivateIsNoticed
      <4>3. CASE g = f
        BY <3>1, <3>2, <4>2, <4>3 DEF frame
      <4>4. CASE g # f
        BY <2>1, <3>1, <3>2, <4>2, <4>4
      <4> QED BY <4>3, <4>4
    <3> QED BY <2>1, <3>3 DEF NoticeInv
  <2> QED BY <2>2, <2>3
<1>7. ASSUME NEW m \in Mine, SendMsg(m) PROVE NoticeInv'
  <2> DEFINE frame == IF target # NULL
                        THEN [type |-> "PRIVATE", msgid |-> m, msgReceiver |-> target]
                        ELSE [type |-> "CHAT", msgid |-> m, roomId |-> currentRoom]
  <2>1. ToSet(up) \subseteq ToSet(up')
    <3>1. frame \in Frames /\ up \in Seq(Frames)
      BY <1>0 DEF Frames, TypeOK
    <3>2. up' = Append(up, frame)
      BY <1>7 DEF SendMsg
    <3> HIDE DEF frame
    <3> QED BY <3>1, <3>2, AppendSet
  <2>2. UNCHANGED <<unseen, unread, down, posted, log, receivedMsgIds>>
    BY <1>7 DEF SendMsg
  <2> QED BY <1>0, <1>b, <2>1, <2>2, NoticeKept
<1>8. CASE HandleMessage
  <2>1. /\ down \in Seq(Messages) /\ down # <<>> /\ down' = Tail(down)
        /\ receivedMsgIds' = receivedMsgIds \cup {Head(down)}
        /\ UNCHANGED <<sock, up, posted, log>> /\ sock = "open"
    BY <1>0, <1>8 DEF HandleMessage, TypeOK
  <2>2. ToSet(down) = {Head(down)} \cup ToSet(down')
    BY <2>1, TailSet
  <2>3. \A m, d : In(m, d)' <=> In(m, d)
    BY <2>1 DEF In
  <2>4. CASE Head(down) \in receivedMsgIds
    <3>1. UNCHANGED <<unread, unseen, receivedMsgIds>>
      BY <1>8, <2>1, <2>4 DEF HandleMessage
    <3> QED BY <2>1, <2>2, <2>3, <2>4, <3>1 DEF NoticeInv, PrivateIsNoticed
  <2>5. CASE /\ Head(down) \notin receivedMsgIds
             /\ Private(Head(down)) /\ (target = NULL \/ ~In(Head(down), target))
    <3>1. /\ unread' = unread \cup {f \in Friends : In(Head(down), f)}
          /\ unseen' = unseen \cup {Head(down)}
      BY <1>8, <2>5 DEF HandleMessage
    <3>2. \E f \in Friends : In(Head(down), f) /\ f \in unread'
      BY <2>5, <3>1 DEF Private
    <3> QED BY <2>1, <2>2, <2>3, <3>1, <3>2 DEF NoticeInv, PrivateIsNoticed
  <2>6. CASE /\ Head(down) \notin receivedMsgIds
             /\ ~(Private(Head(down)) /\ (target = NULL \/ ~In(Head(down), target)))
    <3>1. unread' = unread /\ unseen' = unseen \ {Head(down)}
      BY <1>8, <2>6 DEF HandleMessage
    <3> QED BY <2>1, <2>2, <2>3, <3>1 DEF NoticeInv, PrivateIsNoticed
  <2> QED BY <2>4, <2>5, <2>6
<1>9. CASE HandleSwitch
  BY <1>0, <1>9, <1>b, <1>c, NoticeKept DEF HandleSwitch, NoticeInv
<1>10. CASE HandleSwitchFault
  BY <1>0, <1>10, <1>b, <1>c, NoticeKept DEF HandleSwitchFault, NoticeInv
<1>11. CASE HandleHistory
  <2>1. PICK k \in 0..Len(Recent(roomOf)) : Replay(roomOf, k)
    BY <1>11 DEF HandleHistory
  <2>2. roomOf \in Logs
    BY <1>0 DEF TypeOK, Logs, Conversations
  <2>3. ToSet(down) \subseteq ToSet(down')
    BY <1>0, <1>d, <2>1, <2>2, RecentType DEF Replay
  <2>4. UNCHANGED <<receivedMsgIds, unread, up, posted, log, unseen>>
    BY <1>11 DEF HandleHistory
  <2> QED BY <1>0, <1>b, <2>3, <2>4, NoticeKept
<1>12. CASE HandleLoad
  <2> DEFINE f == Head(up).msgReceiver
  <2>1. /\ up \in Seq(Frames) /\ up # <<>> /\ up' = Tail(up) /\ f \in Friends
        /\ Head(up) \in Frames /\ Head(up).type = "LOAD_PRIVATE_HISTORY"
        /\ UNCHANGED <<receivedMsgIds, unread, posted, log>>
    BY <1>0, <1>12, TakeType DEF HandleLoad, TypeOK
  <2>2. /\ Head(up) = [type |-> "LOAD_PRIVATE_HISTORY", msgReceiver |-> f]
        /\ sock = "open"
    BY <2>1 DEF Frames, Typed, Control, SilentInv
  <2> HIDE DEF f
  <2>3. PICK k \in 0..Len(Recent(f)) :
          Replay(f, k) /\ Answered(f, ToSet(SubSeq(Recent(f), 1, k)))
    BY <1>12 DEF HandleLoad, f
  <2> DEFINE first == SubSeq(Recent(f), 1, k)
  <2>4. first \in Seq(Messages)
    BY <1>0, <2>1, RecentType DEF Logs, Conversations
  <2>5. Reply(first) /\ unseen' = {m \in unseen : In(m, f) => m \in ToSet(first)}
    BY <2>3 DEF Replay, Answered
  <2> HIDE DEF first
  <2>6. ToSet(down) \cup ToSet(first) \subseteq ToSet(down')
    <3>1. down \in Seq(Messages)
      BY <1>0 DEF TypeOK
    <3> QED BY <2>2, <2>4, <2>5, <3>1, ConcatSet DEF Reply
  <2>7. ToSet(up) = {Head(up)} \cup ToSet(up')
    BY <2>1, TailSet
  <2>8. \A m, d : In(m, d)' <=> In(m, d)
    BY <2>1 DEF In
  <2>9. PrivateIsNoticed'
    <3> SUFFICES ASSUME NEW m \in unseen', m \notin ToSet(down')
                 PROVE  \E g \in Friends : /\ In(m, g)'
                          /\ \/ g \in unread'
                             \/ [type |-> "LOAD_PRIVATE_HISTORY", msgReceiver |-> g]
                                  \in ToSet(up')
      BY DEF PrivateIsNoticed
    <3>1. m \in unseen /\ m \notin ToSet(down) /\ ~In(m, f)
      BY <2>5, <2>6
    <3>2. PICK g \in Friends : /\ In(m, g)
            /\ \/ g \in unread
               \/ [type |-> "LOAD_PRIVATE_HISTORY", msgReceiver |-> g] \in ToSet(up)
      BY <3>1 DEF NoticeInv, PrivateIsNoticed
    <3>3. [type |-> "LOAD_PRIVATE_HISTORY", msgReceiver |-> g] # Head(up)
      BY <2>2, <3>1, <3>2
    <3> QED BY <2>1, <2>7, <2>8, <3>2, <3>3
  <2> QED BY <2>1, <2>5, <2>8, <2>9 DEF NoticeInv
<1>13. CASE HandleChat
  <2>1. /\ roomOf \in Logs /\ Head(up).msgid \in Messages
        /\ <<Head(up).msgid>> \in Seq(Messages)
    BY <1>0, <1>13, TakeType DEF HandleChat, Messages, Logs, Conversations, TypeOK
  <2>2. ToSet(down) \subseteq ToSet(down')
    BY <1>13, <1>d, <2>1 DEF HandleChat
  <2>3. UNCHANGED <<sock, receivedMsgIds, unread, unseen>>
    BY <1>13 DEF HandleChat
  <2>4. \A x \in ToSet(up) : x \in ToSet(up') \/ x.type # "LOAD_PRIVATE_HISTORY"
    BY <1>13, <1>c DEF HandleChat
  <2>5. \A m \in Messages, f \in Friends : In(m, f) => In(m, f)'
    BY <1>13, <1>e, <2>1 DEF HandleChat
  <2> QED BY <1>0, <2>2, <2>3, <2>4, <2>5, NoticeKept DEF NoticeInv
<1>14. CASE HandlePrivate
  <2>1. /\ Head(up).msgReceiver \in Logs /\ Head(up).msgid \in Messages
        /\ <<Head(up).msgid>> \in Seq(Messages)
    BY <1>0, <1>14, TakeType DEF HandlePrivate, Messages, Logs, Conversations
  <2>2. ToSet(down) \subseteq ToSet(down')
    BY <1>14, <1>d, <2>1 DEF HandlePrivate
  <2>3. UNCHANGED <<sock, receivedMsgIds, unread, unseen>>
    BY <1>14 DEF HandlePrivate
  <2>4. \A x \in ToSet(up) : x \in ToSet(up') \/ x.type # "LOAD_PRIVATE_HISTORY"
    BY <1>14, <1>c DEF HandlePrivate
  <2>5. \A m \in Messages, f \in Friends : In(m, f) => In(m, f)'
    BY <1>14, <1>e, <2>1 DEF HandlePrivate
  <2> QED BY <1>0, <2>2, <2>3, <2>4, <2>5, NoticeKept DEF NoticeInv
<1>15. ASSUME NEW m \in Theirs, NEW c \in Conversations,
              (c \in Rooms /\ OtherChat(m, c)) \/ (c \in Friends /\ FriendPrivate(m, c))
       PROVE  NoticeInv'
  <2>1. m \in Messages /\ c \in Logs /\ Push(c, m)
    BY <1>15 DEF OtherChat, FriendPrivate, Messages, Logs
  <2>2. \A x \in Messages, f \in Friends : In(x, f) => In(x, f)'
    BY <1>e, <2>1
  <2>3. UNCHANGED <<sock, receivedMsgIds, unread, unseen, up, down>>
    BY <1>15 DEF OtherChat, FriendPrivate
  <2> QED BY <1>0, <2>2, <2>3, NoticeKept DEF NoticeInv
<1>16. ASSUME NEW m \in Theirs, CastReaches(m) \/ CastPasses(m) \/ CastFails(m)
       PROVE  NoticeInv'
  <2>1. <<m>> \in Seq(Messages)
    BY DEF Messages
  <2>2. ToSet(down) \subseteq ToSet(down')
    BY <1>16, <1>d, <2>1 DEF CastReaches, CastPasses, CastFails
  <2>3. UNCHANGED <<sock, receivedMsgIds, unread, unseen, up, posted, log>>
    BY <1>16 DEF CastReaches, CastPasses, CastFails
  <2> QED BY <1>0, <1>b, <2>2, <2>3, NoticeKept DEF NoticeInv
<1>17. CASE UNCHANGED vars
  BY <1>0, <1>17, <1>b, NoticeKept DEF vars, NoticeInv
<1> QED
  BY <1>1, <1>2, <1>3, <1>4, <1>5, <1>6, <1>7, <1>8, <1>9, <1>10, <1>11,
     <1>12, <1>13, <1>14, <1>15, <1>16, <1>17 DEF Next, Conversations

\* A private message that came while another view was open is counted as unread
\* until the click on the friend, and then asked for or on its way until it is
\* shown, saved or not and across reconnects; what a click failed to bring is let
\* go, see PrivateIsNoticed.
THEOREM PrivateMessagesAreNoticed == Spec => []PrivateIsNoticed
<1>1. Init => NoticeInv
  BY DEF Init, NoticeInv, PrivateIsNoticed
<1>2. NoticeInv => PrivateIsNoticed
  BY DEF NoticeInv
<1> QED
  BY <1>1, <1>2, TypedInit, TypedStep, NoticeStep, PTL DEF Spec

-----------------------------------------------------------------------------
(* The room of what is typed.                                              *)

\* No SWITCH_ROOM from the a-th to the b-th of these frames.
NoSwitch(q, a, b) == \A k \in DOMAIN q : k >= a /\ k <= b => q[k].type # "SWITCH_ROOM"

\* A CHAT frame names the room that the last SWITCH_ROOM before it asks for, and
\* the room of the session when there is none; so does the page.
PostInv ==
  /\ \A i \in DOMAIN up : up[i].type = "CHAT" /\ NoSwitch(up, 1, i) =>
       roomOf = NULL \/ cut \/ up[i].roomId = roomOf
  /\ \A i, j \in DOMAIN up :
       /\ up[i].type = "CHAT" /\ up[j].type = "SWITCH_ROOM"
       /\ j < i /\ NoSwitch(up, j + 1, i)
       => up[i].roomId = up[j].roomId
  /\ sock = "open" /\ NoSwitch(up, 1, Len(up)) => roomOf = NULL \/ cut \/ currentRoom = roomOf
  /\ sock = "open" => \A j \in DOMAIN up :
       up[j].type = "SWITCH_ROOM" /\ NoSwitch(up, j + 1, Len(up)) => currentRoom = up[j].roomId

\* The page sends a frame.
LEMMA PostAppend ==
  ASSUME TypeOK, PostInv, NEW frame \in Frames, up' = Append(up, frame),
         sock = "open", UNCHANGED <<sock, roomOf, cut>>,
         frame.type = "SWITCH_ROOM" => currentRoom' = frame.roomId,
         frame.type # "SWITCH_ROOM" => currentRoom' = currentRoom,
         frame.type = "CHAT" => frame.roomId = currentRoom
  PROVE  PostInv'
<1> DEFINE n == Len(up)
<1>1. /\ n \in Nat /\ DOMAIN up = 1..n /\ DOMAIN up' = 1..(n + 1) /\ Len(up') = n + 1
      /\ \A i \in 1..n : up'[i] = up[i]
      /\ up'[n + 1] = frame
  BY DEF TypeOK
<1> HIDE DEF n
<1>2. \A a, b \in Nat : b <= n => (NoSwitch(up', a, b) <=> NoSwitch(up, a, b))
  BY <1>1 DEF NoSwitch
<1>3. \A a \in Nat : a <= n + 1 /\ NoSwitch(up', a, n + 1) => frame.type # "SWITCH_ROOM" /\ NoSwitch(up, a, n)
  BY <1>1 DEF NoSwitch
<1>4. \A i \in DOMAIN up' : up'[i].type = "CHAT" /\ NoSwitch(up', 1, i) =>
        roomOf = NULL \/ cut \/ up'[i].roomId = roomOf
  <2> SUFFICES ASSUME NEW i \in DOMAIN up', up'[i].type = "CHAT", NoSwitch(up', 1, i)
               PROVE  roomOf = NULL \/ cut \/ up'[i].roomId = roomOf
    OBVIOUS
  <2>1. CASE i \in 1..n
    BY <1>1, <1>2, <2>1 DEF PostInv
  <2>2. CASE i = n + 1
    BY <1>1, <1>3, <2>2 DEF PostInv, n
  <2> QED BY <1>1, <2>1, <2>2
<1>5. \A i, j \in DOMAIN up' :
        /\ up'[i].type = "CHAT" /\ up'[j].type = "SWITCH_ROOM"
        /\ j < i /\ NoSwitch(up', j + 1, i)
        => up'[i].roomId = up'[j].roomId
  <2> SUFFICES ASSUME NEW i \in DOMAIN up', NEW j \in DOMAIN up',
                      up'[i].type = "CHAT", up'[j].type = "SWITCH_ROOM",
                      j < i, NoSwitch(up', j + 1, i)
               PROVE  up'[i].roomId = up'[j].roomId
    OBVIOUS
  <2>1. CASE i \in 1..n
    BY <1>1, <1>2, <2>1 DEF PostInv
  <2>2. CASE i = n + 1
    BY <1>1, <1>3, <2>2 DEF PostInv, n
  <2> QED BY <1>1, <2>1, <2>2
<1>6. NoSwitch(up', 1, Len(up')) => roomOf = NULL \/ cut \/ currentRoom' = roomOf
  BY <1>1, <1>3 DEF PostInv, n
<1>7. \A j \in DOMAIN up' :
        up'[j].type = "SWITCH_ROOM" /\ NoSwitch(up', j + 1, Len(up')) => currentRoom' = up'[j].roomId
  <2> SUFFICES ASSUME NEW j \in DOMAIN up', up'[j].type = "SWITCH_ROOM",
                      NoSwitch(up', j + 1, n + 1)
               PROVE  currentRoom' = up'[j].roomId
    BY <1>1
  <2>1. CASE j \in 1..n
    BY <1>1, <1>3, <2>1 DEF PostInv, n
  <2>2. CASE j = n + 1
    BY <1>1, <2>2
  <2> QED BY <1>1, <2>1, <2>2
<1> QED BY <1>4, <1>5, <1>6, <1>7, <1>1 DEF PostInv

\* The server takes a frame: another one, or a switch that it carries out or not.
LEMMA PostTake ==
  ASSUME TypeOK, PostInv, up # <<>>, up' = Tail(up), UNCHANGED <<sock, currentRoom>>,
         \/ Head(up).type # "SWITCH_ROOM" /\ UNCHANGED <<roomOf, cut>>
         \/ Head(up).type = "SWITCH_ROOM" /\ roomOf' = Head(up).roomId
         \/ cut'
  PROVE  PostInv'
<1> DEFINE n == Len(up)
<1>1. /\ n \in Nat /\ n >= 1 /\ DOMAIN up = 1..n /\ DOMAIN up' = 1..(n - 1)
      /\ Len(up') = n - 1 /\ Head(up) = up[1]
      /\ \A i \in 1..(n - 1) : up'[i] = up[i + 1]
  BY DEF TypeOK
<1> HIDE DEF n
<1>2. \A a, b \in Nat : a >= 1 => (NoSwitch(up', a, b) <=> NoSwitch(up, a + 1, b + 1))
  <2> SUFFICES ASSUME NEW a \in Nat, NEW b \in Nat, a >= 1
               PROVE  NoSwitch(up', a, b) <=> NoSwitch(up, a + 1, b + 1)
    OBVIOUS
  <2>1. ASSUME NoSwitch(up', a, b), NEW k \in DOMAIN up, k >= a + 1, k <= b + 1
        PROVE  up[k].type # "SWITCH_ROOM"
    <3>1. k - 1 \in DOMAIN up' /\ k - 1 >= a /\ k - 1 <= b /\ up'[k - 1] = up[k]
      BY <1>1, <2>1
    <3> QED BY <2>1, <3>1 DEF NoSwitch
  <2>2. ASSUME NoSwitch(up, a + 1, b + 1), NEW k \in DOMAIN up', k >= a, k <= b
        PROVE  up'[k].type # "SWITCH_ROOM"
    <3>1. k + 1 \in DOMAIN up /\ k + 1 >= a + 1 /\ k + 1 <= b + 1 /\ up'[k] = up[k + 1]
      BY <1>1, <2>2
    <3> QED BY <2>2, <3>1 DEF NoSwitch
  <2> QED BY <2>1, <2>2 DEF NoSwitch
<1>3. \A b \in Nat : Head(up).type # "SWITCH_ROOM" /\ NoSwitch(up, 2, b) => NoSwitch(up, 1, b)
  BY <1>1 DEF NoSwitch
<1>4. \A i \in DOMAIN up' : up'[i].type = "CHAT" /\ NoSwitch(up', 1, i) =>
        roomOf' = NULL \/ cut' \/ up'[i].roomId = roomOf'
  <2> SUFFICES ASSUME NEW i \in DOMAIN up', up'[i].type = "CHAT", NoSwitch(up', 1, i), ~cut'
               PROVE  roomOf' = NULL \/ up'[i].roomId = roomOf'
    OBVIOUS
  <2>0. i \in Nat /\ i >= 1 /\ i + 1 \in DOMAIN up /\ up'[i] = up[i + 1]
    BY <1>1
  <2>1. up[i + 1].type = "CHAT" /\ NoSwitch(up, 1 + 1, i + 1)
    BY <1>2, <2>0
  <2>2. CASE Head(up).type # "SWITCH_ROOM" /\ UNCHANGED <<roomOf, cut>>
    <3>1. NoSwitch(up, 1, i + 1)
      BY <1>3, <2>0, <2>1, <2>2
    <3> QED BY <2>0, <2>1, <2>2, <3>1 DEF PostInv
  <2>3. CASE Head(up).type = "SWITCH_ROOM" /\ roomOf' = Head(up).roomId
    <3>1. 1 \in DOMAIN up /\ 1 < i + 1 /\ NoSwitch(up, 1 + 1, i + 1)
      BY <1>1, <2>0, <2>1
    <3>2. up[i + 1].roomId = up[1].roomId
      BY <1>1, <2>0, <2>1, <2>3, <3>1 DEF PostInv
    <3> QED BY <1>1, <2>0, <2>1, <2>3, <3>2
  <2> QED BY <2>2, <2>3
<1>5. \A i, j \in DOMAIN up' :
        /\ up'[i].type = "CHAT" /\ up'[j].type = "SWITCH_ROOM"
        /\ j < i /\ NoSwitch(up', j + 1, i)
        => up'[i].roomId = up'[j].roomId
  <2> SUFFICES ASSUME NEW i \in DOMAIN up', NEW j \in DOMAIN up',
                      up'[i].type = "CHAT", up'[j].type = "SWITCH_ROOM",
                      j < i, NoSwitch(up', j + 1, i)
               PROVE  up'[i].roomId = up'[j].roomId
    OBVIOUS
  <2>1. NoSwitch(up, (j + 1) + 1, i + 1)
    BY <1>1, <1>2
  <2>2. /\ i + 1 \in DOMAIN up /\ j + 1 \in DOMAIN up /\ j + 1 < i + 1
        /\ up'[i] = up[i + 1] /\ up'[j] = up[j + 1]
    BY <1>1
  <2> QED BY <2>1, <2>2 DEF PostInv
<1>6. sock = "open" /\ NoSwitch(up', 1, n - 1) => roomOf' = NULL \/ cut' \/ currentRoom = roomOf'
  <2> SUFFICES ASSUME sock = "open", NoSwitch(up', 1, n - 1), ~cut'
               PROVE  roomOf' = NULL \/ currentRoom = roomOf'
    OBVIOUS
  <2>1. NoSwitch(up, 2, n)
    BY <1>1, <1>2
  <2>2. CASE Head(up).type # "SWITCH_ROOM" /\ UNCHANGED <<roomOf, cut>>
    BY <1>1, <1>3, <2>1, <2>2 DEF PostInv, n
  <2>3. CASE Head(up).type = "SWITCH_ROOM" /\ roomOf' = Head(up).roomId
    <3>1. 1 \in DOMAIN up /\ NoSwitch(up, 1 + 1, Len(up))
      BY <1>1, <2>1 DEF n
    <3> QED BY <1>1, <2>3, <3>1 DEF PostInv
  <2> QED BY <2>2, <2>3
<1>7. sock = "open" => \A j \in DOMAIN up' :
        up'[j].type = "SWITCH_ROOM" /\ NoSwitch(up', j + 1, n - 1) => currentRoom = up'[j].roomId
  <2> SUFFICES ASSUME sock = "open", NEW j \in DOMAIN up', up'[j].type = "SWITCH_ROOM",
                      NoSwitch(up', j + 1, n - 1)
               PROVE  currentRoom = up'[j].roomId
    OBVIOUS
  <2>1. j + 1 \in DOMAIN up /\ up'[j] = up[j + 1] /\ j + 1 \in Nat /\ j + 1 >= 1
    BY <1>1
  <2>2. NoSwitch(up, (j + 1) + 1, (n - 1) + 1)
    BY <1>1, <1>2, <2>1
  <2>3. NoSwitch(up, (j + 1) + 1, Len(up))
    BY <1>1, <2>2 DEF n
  <2> QED BY <2>1, <2>3 DEF PostInv
<1> QED BY <1>1, <1>4, <1>5, <1>6, <1>7 DEF PostInv

LEMMA PostStep == ASSUME Typed, PostInv, [Next]_vars PROVE PostInv'
<1> USE DEF sockVars, viewVars, srvVars, storeVars, switchHist
<1>0. TypeOK
  BY DEF Typed, Control, Control
<1>a. ASSUME UNCHANGED <<up, roomOf, cut>>,
             sock' = "open" => sock = "open" /\ currentRoom' = currentRoom
      PROVE  PostInv'
  BY <1>a DEF PostInv, NoSwitch
<1>b. ASSUME NEW type, Take(type), type # "SWITCH_ROOM",
             UNCHANGED <<sock, currentRoom, roomOf, cut>>
      PROVE  PostInv'
  BY <1>0, <1>b, TakeType, PostTake
<1>1. CASE LoadRooms \/ Refused \/ Reconnect
  BY <1>1, <1>a DEF LoadRooms, Refused, OnClose, Reconnect
<1>2. CASE Opened
  <2> DEFINE frame == [type |-> "SWITCH_ROOM", roomId |-> FirstRoom]
  <2>1. roomOf' = NULL
    BY <1>2 DEF Opened, NewSession
  <2>2. up' = <<>> \/ (up' = <<frame>> /\ currentRoom' = FirstRoom)
    BY <1>2 DEF Opened
  <2>3. CASE up' = <<>>
    BY <2>1, <2>3 DEF PostInv
  <2>4. CASE up' = <<frame>> /\ currentRoom' = FirstRoom
    <3>1. DOMAIN up' = {1} /\ up'[1].type = "SWITCH_ROOM" /\ up'[1].roomId = FirstRoom
      BY <2>4
    <3> QED BY <2>1, <2>4, <3>1 DEF PostInv
  <2> QED BY <2>2, <2>3, <2>4
<1>3. CASE Drop \/ Logout
  <2>1. up' = <<>> /\ sock' \in {"closed", "gone"}
    BY <1>3 DEF Drop, OnClose, Logout
  <2> QED BY <2>1 DEF PostInv
<1>4. ASSUME NEW r \in Rooms, SwitchRoom(r) PROVE PostInv'
  <2> DEFINE frame == [type |-> "SWITCH_ROOM", roomId |-> r]
  <2>1. CASE sock = "open"
    <3>1. frame \in Frames /\ frame.type = "SWITCH_ROOM" /\ frame.roomId = r
      BY DEF Frames
    <3>2. up' = Append(up, frame) /\ currentRoom' = r /\ UNCHANGED <<sock, roomOf, cut>>
      BY <1>4, <2>1 DEF SwitchRoom, Request
    <3> HIDE DEF frame
    <3> QED BY <1>0, <2>1, <3>1, <3>2, PostAppend
  <2>2. CASE sock # "open"
    BY <1>4, <1>a, <2>2 DEF SwitchRoom, Request
  <2> QED BY <2>1, <2>2
<1>5. ASSUME NEW f \in Friends, SelectPrivateChat(f) PROVE PostInv'
  <2> DEFINE frame == [type |-> "LOAD_PRIVATE_HISTORY", msgReceiver |-> f]
  <2>1. CASE sock = "open"
    <3>1. frame \in Frames /\ frame.type = "LOAD_PRIVATE_HISTORY"
      BY DEF Frames
    <3>2. up' = Append(up, frame) /\ UNCHANGED <<sock, roomOf, cut, currentRoom>>
      BY <1>5, <2>1 DEF SelectPrivateChat, Request
    <3> HIDE DEF frame
    <3> QED BY <1>0, <2>1, <3>1, <3>2, PostAppend
  <2>2. CASE sock # "open"
    BY <1>5, <1>a, <2>2 DEF SelectPrivateChat, Request
  <2> QED BY <2>1, <2>2
<1>6. ASSUME NEW m \in Mine, SendMsg(m) PROVE PostInv'
  <2> DEFINE frame == IF target # NULL
                        THEN [type |-> "PRIVATE", msgid |-> m, msgReceiver |-> target]
                        ELSE [type |-> "CHAT", msgid |-> m, roomId |-> currentRoom]
  <2>1. /\ frame \in Frames /\ frame.type # "SWITCH_ROOM"
        /\ frame.type = "CHAT" => frame.roomId = currentRoom
    BY <1>0 DEF Frames, TypeOK
  <2>2. /\ up' = Append(up, frame) /\ sock = "open"
        /\ UNCHANGED <<sock, roomOf, cut, currentRoom>>
    BY <1>6 DEF SendMsg
  <2> HIDE DEF frame
  <2> QED BY <1>0, <2>1, <2>2, PostAppend
<1>7. CASE HandleMessage \/ HandleHistory
  BY <1>7, <1>a DEF HandleMessage, HandleHistory
<1>8. CASE HandleSwitch
  <2>1. Take("SWITCH_ROOM")
    BY <1>8 DEF HandleSwitch
  <2>2. /\ up # <<>> /\ up' = Tail(up) /\ Head(up).type = "SWITCH_ROOM"
    BY <1>0, <2>1, TakeType
  <2>3. roomOf' = Head(up).roomId /\ UNCHANGED <<sock, currentRoom>>
    BY <1>8 DEF HandleSwitch
  <2> QED BY <1>0, <2>2, <2>3, PostTake
<1>9. CASE HandleSwitchFault
  <2>1. Take("SWITCH_ROOM")
    BY <1>9 DEF HandleSwitchFault
  <2>2. /\ up # <<>> /\ up' = Tail(up) /\ Head(up).type = "SWITCH_ROOM"
    BY <1>0, <2>1, TakeType
  <2>3. cut' /\ UNCHANGED <<sock, currentRoom>>
    BY <1>9 DEF HandleSwitchFault
  <2> QED BY <1>0, <2>2, <2>3, PostTake
<1>10. CASE HandleLoad \/ HandleChat \/ HandlePrivate
  BY <1>10, <1>b DEF HandleLoad, HandleChat, HandlePrivate
<1>11. ASSUME NEW m \in Theirs,
              \/ \E r \in Rooms : OtherChat(m, r)
              \/ \E f \in Friends : FriendPrivate(m, f)
              \/ CastReaches(m) \/ CastPasses(m) \/ CastFails(m)
       PROVE  PostInv'
  BY <1>11, <1>a DEF OtherChat, FriendPrivate, CastReaches, CastPasses, CastFails
<1>12. CASE UNCHANGED vars
  BY <1>12, <1>a DEF vars
<1> QED
  BY <1>1, <1>2, <1>3, <1>4, <1>5, <1>6, <1>7, <1>8, <1>9, <1>10, <1>11,
     <1>12 DEF Next

\* A typed message goes to the room it was typed under, or to none.
THEOREM TypedRoomIsPostedRoom == Spec => PostedWhereTyped
<1> DEFINE Posts == \A m \in Mine, r \in Rooms :
                      In(m, r)' /\ ~In(m, r) => Head(up).roomId = r \/ cut
<1>1. Typed /\ PostInv /\ [Next]_vars => [Posts]_vars
  <2> SUFFICES ASSUME Typed, PostInv, Next, NEW m \in Mine, NEW r \in Rooms,
                      In(m, r)', ~In(m, r)
               PROVE  Head(up).roomId = r \/ cut
    BY DEF Posts
  <2> USE DEF sockVars, viewVars, srvVars, storeVars, switchHist
  <2>0. TypeOK /\ r \in Logs /\ r \notin Friends /\ r # NULL /\ m \notin Theirs
    BY RoomAssumption, DisjointAssumption DEF Typed, Control, Logs, Conversations
  <2>1. posted' # posted
    BY DEF In
  <2>2. ASSUME NEW c \in Logs, NEW x \in Messages, Push(c, x) PROVE c = r /\ x = m
    BY <2>0, <2>2 DEF Push, In, TypeOK
  <2>3. CASE HandleChat
    <3>1. Take("CHAT") /\ Push(roomOf, Head(up).msgid)
      BY <2>3 DEF HandleChat
    <3>2. /\ up # <<>> /\ Head(up).type = "CHAT" /\ Head(up).msgid \in Messages
          /\ roomOf \in Logs
      BY <2>0, <3>1, TakeType DEF Messages, TypeOK, Logs, Conversations
    <3>3. roomOf = r
      BY <2>2, <3>1, <3>2
    <3>4. 1 \in DOMAIN up /\ Head(up) = up[1]
      BY <2>0, <3>2 DEF TypeOK
    <3>5. NoSwitch(up, 1, 1)
      BY <2>0, <3>2, <3>4 DEF NoSwitch, TypeOK
    <3> QED BY <2>0, <3>2, <3>3, <3>4, <3>5 DEF PostInv
  <2>4. CASE HandlePrivate
    <3>1. Take("PRIVATE") /\ Push(Head(up).msgReceiver, Head(up).msgid)
      BY <2>4 DEF HandlePrivate
    <3>2. Head(up).msgReceiver \in Friends /\ Head(up).msgid \in Messages
      BY <2>0, <3>1, TakeType DEF Messages
    <3> QED BY <2>0, <2>2, <3>1, <3>2 DEF Logs, Conversations
  <2>5. ASSUME NEW x \in Theirs, NEW c \in Conversations, OtherChat(x, c) \/ FriendPrivate(x, c)
        PROVE  FALSE
    BY <2>0, <2>2, <2>5 DEF OtherChat, FriendPrivate, Messages, Logs
  <2> QED
    BY <2>1, <2>3, <2>4, <2>5
       DEF Next, LoadRooms, Opened, NewSession, Refused, Drop, Broken, Reconnect, Logout,
           SwitchRoom, SelectPrivateChat, SendMsg, HandleMessage, HandleSwitch,
           HandleSwitchFault, HandleHistory, HandleLoad, CastReaches, CastPasses,
           CastFails, Conversations
<1>2. Init => PostInv
  BY DEF Init, PostInv
<1> QED
  BY <1>1, <1>2, TypedInit, TypedStep, PostStep, PTL DEF Spec, PostedWhereTyped

-----------------------------------------------------------------------------
(* Rooms do not mix.                                                       *)

\* The session is in a room, and its last switch was not cut short.
Settled == ~cut /\ roomOf # NULL

IsPosted(m) == \E c \in Logs : In(m, c)

\* A message of the room the session is in, or one that was there before.
OfRoom(m) == m \in before \/ In(m, roomOf)

\* The session is in no room set but that of its room, a broadcast that is due to
\* come is one of that room, and whatever comes to the page or is on the screen
\* was posted at some time: before the last switch or in the room it led to.
MixInv ==
  /\ \A r \in memberOf : r = roomOf
  /\ \A m \in Messages :
       /\ cast[m] = "due" => sock = "open" /\ (Private(m) \/ In(m, roomOf))
       /\ cast[m] = "late" => sock = "open" /\ m \in before
  /\ \A m \in Messages :
       m \in ToSet(down) \cup ToSet(queue) \cup before \/ shown[m] > 0 => IsPosted(m)
  /\ Settled => \A m \in ToSet(down) : Private(m) \/ OfRoom(m)
  /\ Settled /\ target = NULL => \A m \in Messages : shown[m] > 0 => OfRoom(m)

\* A step that leaves the session's room as it is.
LEMMA MixKept ==
  ASSUME Typed, MixInv, UNCHANGED <<roomOf, memberOf, before, cut>>,
         \A m \in Messages, c \in Logs : In(m, c) => In(m, c)',
         \A m \in ToSet(down') :
           m \in ToSet(down) \/ (m \in Messages /\ (Private(m)' \/ OfRoom(m)')),
         \A m \in Messages : shown'[m] > 0 =>
           /\ target' = target
           /\ shown[m] > 0 \/ (m \in ToSet(down) /\ (target = NULL => ~Private(m))),
         \A m \in ToSet(queue') : m \in ToSet(queue) \/ (m \in Messages => IsPosted(m)'),
         \A m \in Messages :
           /\ cast'[m] = "due" =>
                \/ cast[m] = "due" /\ sock' = sock
                \/ sock' = "open" /\ (Private(m)' \/ In(m, roomOf)')
           /\ cast'[m] = "late" => cast[m] = "late" /\ sock' = sock
  PROVE  MixInv'
<1>0. /\ roomOf \in Logs /\ Friends \subseteq Logs /\ ToSet(down) \subseteq Messages
  BY DEF Typed, Control, TypeOK, Logs, Conversations, ToSet
<1>1. \A m \in Messages : /\ Private(m) => Private(m)'
                          /\ OfRoom(m) => OfRoom(m)'
                          /\ IsPosted(m) => IsPosted(m)'
  BY <1>0 DEF Private, OfRoom, IsPosted
<1>2. Settled' => Settled
  BY DEF Settled
<1>3. \A r \in memberOf' : r = roomOf'
  BY DEF MixInv
<1>4. \A m \in Messages :
        /\ cast'[m] = "due" => sock' = "open" /\ (Private(m)' \/ In(m, roomOf)')
        /\ cast'[m] = "late" => sock' = "open" /\ m \in before'
  BY <1>0, <1>1 DEF MixInv
<1>5. \A m \in Messages : Private(m)' => IsPosted(m)'
  BY <1>0 DEF Private, IsPosted
<1>6. \A m \in Messages : In(m, roomOf)' => IsPosted(m)'
  BY <1>0 DEF IsPosted
<1>7. \A m \in Messages : m \in before \/ m \in ToSet(down) \/ m \in ToSet(queue) \/ shown[m] > 0
                            => IsPosted(m)'
  BY <1>1 DEF MixInv
<1>8. \A m \in Messages :
        m \in ToSet(down') \cup ToSet(queue') \cup before' \/ shown'[m] > 0 => IsPosted(m)'
  BY <1>5, <1>6, <1>7 DEF OfRoom
<1>9. Settled' => \A m \in ToSet(down') : Private(m)' \/ OfRoom(m)'
  BY <1>0, <1>1, <1>2 DEF MixInv
<1>10. Settled' /\ target' = NULL => \A m \in Messages : shown'[m] > 0 => OfRoom(m)'
  BY <1>1, <1>2 DEF MixInv
<1> QED BY <1>3, <1>4, <1>8, <1>9, <1>10 DEF MixInv

LEMMA ReplySet ==
  ASSUME TypeOK, NEW msgs \in Seq(Messages), Reply(msgs)
  PROVE  ToSet(down') \subseteq ToSet(down) \cup ToSet(msgs)
<1>1. down \in Seq(Messages) /\ down' \in {down, down \o msgs}
  BY DEF TypeOK, Reply
<1> QED BY <1>1, ConcatSet

LEMMA BrokenMix ==
  ASSUME Typed, MixInv, Broken, sock' # "open", UNCHANGED roomOf
  PROVE  /\ ToSet(down') = {} /\ UNCHANGED <<memberOf, before, cut, posted, log>>
         /\ \A m \in Messages : cast'[m] # "due" /\ cast'[m] # "late"
         /\ \A m \in Messages : m \in ToSet(queue') => IsPosted(m)'
<1>0. TypeOK
  BY DEF Typed, Control
<1>1. ToSet(down') = {} /\ UNCHANGED <<memberOf, before, cut, posted, log>>
  BY DEF Broken, srvVars, switchHist, ToSet
<1>2. \A m \in Messages : cast'[m] # "due" /\ cast'[m] # "late"
  BY DEF Broken
<1>3. PICK due \in SUBSET {m \in Messages : cast[m] = "due" /\ Private(m)} :
        queue' = SetToSeq(due) \o queue
  BY DEF Broken
<1>4. \A m \in due : IsPosted(m)
  BY DEF IsPosted, Private, Logs, Conversations
<1>5. ToSet(queue') \subseteq due \cup ToSet(queue)
  <2>1. SetToSeq(due) \in Seq(Messages) /\ ToSet(SetToSeq(due)) \subseteq due
    BY <1>3, SetSequence
  <2>2. queue \in Seq(Messages)
    BY <1>0 DEF TypeOK
  <2>3. ToSet(SetToSeq(due) \o queue) = ToSet(SetToSeq(due)) \cup ToSet(queue)
    BY <2>1, <2>2, ConcatSet
  <2> QED BY <1>3, <2>1, <2>3
<1>6. \A m \in Messages : m \in ToSet(queue') => IsPosted(m)
  BY <1>4, <1>5 DEF MixInv
<1>7. \A m : IsPosted(m)' <=> IsPosted(m)
  BY <1>1 DEF IsPosted, In
<1> QED BY <1>1, <1>2, <1>6, <1>7

LEMMA MixStep == ASSUME Typed, MixInv, [Next]_vars PROVE MixInv'
<1> USE DEF sockVars, viewVars, srvVars, storeVars, switchHist
<1>0. TypeOK
  BY DEF Typed, Control, Control
<1>a. ASSUME UNCHANGED <<posted, log>> PROVE \A m, c : In(m, c) => In(m, c)'
  BY <1>a DEF In
<1>b. ASSUME NEW c \in Logs, NEW x \in Messages, Push(c, x)
      PROVE  (\A m \in Messages, d \in Logs : In(m, d) => In(m, d)') /\ In(x, c)'
  <2>1. In(x, c)'
    BY <1>0, <1>b DEF TypeOK, Push, In
  <2> QED BY <1>0, <1>b, <2>1, PushKeeps
<1>1. CASE LoadRooms \/ Refused \/ Reconnect
  <2>1. /\ UNCHANGED <<up, down, roomOf, memberOf, posted, log, queue, cast, before, cut, target, shown>>
        /\ sock # "open"
    BY <1>1 DEF LoadRooms, Refused, Reconnect
  <2>2. \A m \in Messages : cast'[m] # "due" /\ cast'[m] # "late"
    BY <2>1 DEF MixInv
  <2> QED BY <1>a, <2>1, <2>2, MixKept
<1>2. CASE Opened
  <2>1. /\ roomOf' = NULL /\ memberOf' = {} /\ Welcome /\ sock # "open" /\ before' = {}
        /\ UNCHANGED <<posted, log, queue, cast>>
        /\ \A m \in Messages : shown'[m] > 0 => shown[m] > 0
    BY <1>0, <1>2 DEF Opened, NewSession, ClearView, TypeOK
  <2>2. \A m : IsPosted(m)' <=> IsPosted(m)
    BY <2>1 DEF IsPosted, In
  <2>3. \A m \in Messages : cast'[m] # "due" /\ cast'[m] # "late"
    BY <2>1 DEF MixInv
  <2>4. ~ Settled'
    BY <2>1 DEF Settled
  <2>5. \A m \in Messages :
          m \in ToSet(down') \cup ToSet(queue') \cup before' \/ shown'[m] > 0 => IsPosted(m)'
    BY <1>0, <2>1, <2>2, WelcomeType DEF MixInv
  <2> QED BY <2>1, <2>3, <2>4, <2>5 DEF MixInv
<1>3. CASE Drop \/ Logout
  <2>1. Broken /\ sock' # "open" /\ UNCHANGED roomOf
    BY <1>3 DEF Drop, Logout, OnClose, Broken
  <2>2. \A m \in Messages : shown'[m] > 0 => target' = target /\ shown[m] > 0
    BY <1>0, <1>3 DEF Drop, Logout, ClearView, TypeOK
  <2>3. /\ ToSet(down') = {} /\ UNCHANGED <<memberOf, before, cut, posted, log>>
        /\ \A m \in Messages : cast'[m] # "due" /\ cast'[m] # "late"
        /\ \A m \in Messages : m \in ToSet(queue') => IsPosted(m)'
    BY <2>1, BrokenMix
  <2>4. \A m : (IsPosted(m)' <=> IsPosted(m)) /\ (OfRoom(m)' <=> OfRoom(m))
    BY <2>1, <2>3 DEF IsPosted, OfRoom, In
  <2>5. Settled' => Settled
    BY <2>1, <2>3 DEF Settled
  <2>6. \A m \in Messages :
          m \in ToSet(down') \cup ToSet(queue') \cup before' \/ shown'[m] > 0 => IsPosted(m)'
    BY <2>2, <2>3, <2>4 DEF MixInv
  <2>7. Settled' /\ target' = NULL => \A m \in Messages : shown'[m] > 0 => OfRoom(m)'
    BY <2>2, <2>4, <2>5 DEF MixInv
  <2> QED BY <2>1, <2>3, <2>6, <2>7 DEF MixInv
<1>4. ASSUME (\E r \in Rooms : SwitchRoom(r)) \/ \E f \in Friends : SelectPrivateChat(f)
      PROVE  MixInv'
  <2>1. /\ UNCHANGED <<sock, down, roomOf, memberOf, posted, log, queue, cast, before, cut>>
        /\ \A m \in Messages : shown'[m] = 0
    BY <1>4 DEF SwitchRoom, SelectPrivateChat, ClearView
  <2>2. \A m \in Messages : ~(shown'[m] > 0)
    BY <2>1
  <2> QED BY <1>a, <2>1, <2>2, MixKept
<1>5. ASSUME NEW m \in Mine, SendMsg(m) PROVE MixInv'
  <2>1. UNCHANGED <<sock, down, roomOf, memberOf, posted, log, queue, cast, before, cut, target, shown>>
    BY <1>5 DEF SendMsg
  <2> QED BY <1>a, <2>1, MixKept
<1>6. CASE HandleMessage
  <2>1. /\ UNCHANGED <<sock, up, roomOf, memberOf, posted, log, queue, cast, before, cut, target>>
        /\ down \in Seq(Messages) /\ down # <<>> /\ down' = Tail(down)
    BY <1>0, <1>6 DEF HandleMessage, TypeOK
  <2>2. ToSet(down) = {Head(down)} \cup ToSet(down')
    BY <2>1, TailSet
  <2>3. \A x \in Messages : shown'[x] > 0 =>
          shown[x] > 0 \/ (x = Head(down) /\ (target = NULL => ~Private(x)))
    <3>1. CASE shown' = shown
      BY <3>1
    <3>2. CASE shown' # shown
      <4>1. /\ shown' = [shown EXCEPT ![Head(down)] = @ + 1]
            /\ target = NULL => ~Private(Head(down))
        BY <1>6, <3>2 DEF HandleMessage
      <4> QED BY <1>0, <4>1 DEF TypeOK
    <3> QED BY <3>1, <3>2
  <2> QED BY <1>a, <2>1, <2>2, <2>3, MixKept
<1>7. CASE HandleSwitch
  <2>1. /\ roomOf' = Head(up).roomId /\ memberOf' = MovedTo(Head(up).roomId)
        /\ before' = Posted /\ UNCHANGED <<sock, down, posted, log, queue, shown>>
    BY <1>7 DEF HandleSwitch
  <2>2. PICK late \in SUBSET {m \in Messages : cast[m] = "due" /\ In(m, roomOf)} :
          cast' = [m \in Messages |->
            IF m \in late THEN "late"
            ELSE IF cast[m] = "due" /\ In(m, roomOf) THEN "may"
            ELSE cast[m]]
    BY <1>7 DEF HandleSwitch
  <2>3. \A m : (In(m, roomOf) => IsPosted(m)) /\ (Private(m) => IsPosted(m))
    BY <1>0 DEF TypeOK, IsPosted, Private, Logs, Conversations
  <2>4. \A m : (IsPosted(m)' <=> IsPosted(m)) /\ (Private(m)' <=> Private(m))
    BY <2>1 DEF IsPosted, Private, In
  <2>5. \A m \in Messages : (m \in before' <=> IsPosted(m)) /\ (m \in before' => OfRoom(m)')
    BY <2>1 DEF Posted, IsPosted, OfRoom
  <2>6. \A r \in memberOf' : r = roomOf'
    BY <2>1 DEF MovedTo, MixInv
  <2>7. \A m \in Messages :
          /\ cast'[m] = "due" => cast[m] = "due" /\ ~In(m, roomOf)
          /\ cast'[m] = "late" => cast[m] \in {"due", "late"}
    BY <2>2
  <2>8. \A m \in Messages :
          /\ cast'[m] = "due" => sock' = "open" /\ Private(m)'
          /\ cast'[m] = "late" => sock' = "open" /\ IsPosted(m)
    BY <2>1, <2>3, <2>4, <2>7 DEF MixInv
  <2>9. \A m \in Messages :
          m \in ToSet(down') \cup ToSet(queue') \cup before' \/ shown'[m] > 0 =>
            IsPosted(m)' /\ OfRoom(m)'
    BY <2>1, <2>4, <2>5 DEF MixInv
  <2>10. ToSet(down') \subseteq Messages
    BY <1>0, <2>1 DEF TypeOK, ToSet
  <2> QED BY <2>5, <2>6, <2>8, <2>9, <2>10 DEF MixInv
<1>8. CASE HandleSwitchFault
  <2>1. /\ memberOf' = memberOf \ {roomOf} /\ cut'
        /\ UNCHANGED <<sock, down, posted, log, queue, shown, roomOf, before>>
        /\ \A m \in Messages : cast'[m] \in {"due", "late"} => cast'[m] = cast[m]
    BY <1>8 DEF HandleSwitchFault
  <2>2. ~ Settled'
    BY <2>1 DEF Settled
  <2>3. \A m : (IsPosted(m)' <=> IsPosted(m)) /\ (Private(m)' <=> Private(m))
    BY <2>1 DEF IsPosted, Private, In
  <2>4. \A m : In(m, roomOf)' <=> In(m, roomOf)
    BY <2>1 DEF In
  <2>5. \A r \in memberOf' : r = roomOf'
    BY <2>1 DEF MixInv
  <2>6. \A m \in Messages :
          /\ cast'[m] = "due" => sock' = "open" /\ (Private(m)' \/ In(m, roomOf)')
          /\ cast'[m] = "late" => sock' = "open" /\ m \in before'
    BY <2>1, <2>3, <2>4 DEF MixInv
  <2>7. \A m \in Messages :
          m \in ToSet(down') \cup ToSet(queue') \cup before' \/ shown'[m] > 0 => IsPosted(m)'
    BY <2>1, <2>3 DEF MixInv
  <2> QED BY <2>2, <2>5, <2>6, <2>7 DEF MixInv
<1>9. CASE HandleHistory
  <2>1. PICK k \in 0..Len(Recent(roomOf)) : Replay(roomOf, k)
    BY <1>9 DEF HandleHistory
  <2>2. roomOf \in Logs
    BY <1>0 DEF TypeOK, Logs, Conversations
  <2>3. ToSet(down') \subseteq ToSet(down) \cup ToSet(log[roomOf])
    BY <1>0, <2>1, <2>2, RecentType, ReplySet DEF Replay
  <2>4. UNCHANGED <<sock, roomOf, memberOf, posted, log, queue, cast, before, cut, target, shown>>
    BY <1>9 DEF HandleHistory
  <2>5. \A m \in ToSet(log[roomOf]) : m \in Messages /\ OfRoom(m)'
    BY <1>0, <2>2, <2>4 DEF Typed, LogInv, TypeOK, OfRoom, In
  <2> QED BY <1>a, <2>3, <2>4, <2>5, MixKept
<1>10. CASE HandleLoad
  <2> DEFINE f == Head(up).msgReceiver
  <2>1. Take("LOAD_PRIVATE_HISTORY") /\ f \in Friends
    BY <1>0, <1>10, TakeType DEF HandleLoad
  <2>2. PICK k \in 0..Len(Recent(f)) : Replay(f, k)
    BY <1>10 DEF HandleLoad
  <2> HIDE DEF f
  <2>3. f \in Logs
    BY <2>1 DEF Logs, Conversations
  <2>4. ToSet(down') \subseteq ToSet(down) \cup ToSet(log[f])
    BY <1>0, <2>2, <2>3, RecentType, ReplySet DEF Replay
  <2>5. UNCHANGED <<sock, roomOf, memberOf, posted, log, queue, cast, before, cut, target, shown>>
    BY <1>10 DEF HandleLoad
  <2>6. \A m \in ToSet(log[f]) : m \in Messages /\ Private(m)'
    BY <1>0, <2>1, <2>3, <2>5 DEF Typed, LogInv, TypeOK, Private, In
  <2> QED BY <1>a, <2>4, <2>5, <2>6, MixKept
<1>11. CASE HandleChat
  <2>0. PICK m : m = Head(up).msgid
    OBVIOUS
  <2>1. Take("CHAT") /\ m \in Messages /\ Push(roomOf, m) /\ roomOf \in Logs
    BY <1>0, <1>11, <2>0, TakeType DEF HandleChat, Messages, TypeOK, Logs, Conversations
  <2>2. UNCHANGED down \/ Reply(<<m>>)
    BY <1>11, <2>0 DEF HandleChat
  <2>3. UNCHANGED <<sock, roomOf, memberOf, queue, cast, before, cut, target, shown>>
    BY <1>11 DEF HandleChat
  <2>4. (\A x \in Messages, d \in Logs : In(x, d) => In(x, d)') /\ OfRoom(m)'
    <3>1. (\A x \in Messages, d \in Logs : In(x, d) => In(x, d)') /\ m \in posted'[roomOf]
      BY <1>b, <2>1 DEF In
    <3> QED BY <2>3, <3>1 DEF OfRoom, In
  <2>5. ToSet(down') \subseteq ToSet(down) \cup {m}
    <3>1. <<m>> \in Seq(Messages) /\ ToSet(<<m>>) = {m}
      BY <2>1 DEF ToSet
    <3> QED BY <1>0, <2>2, <3>1, ReplySet
  <2> QED BY <2>1, <2>3, <2>4, <2>5, MixKept
<1>12. CASE HandlePrivate
  <2>0. PICK m, f : m = Head(up).msgid /\ f = Head(up).msgReceiver
    OBVIOUS
  <2>1. Take("PRIVATE") /\ m \in Messages /\ Push(f, m) /\ f \in Friends /\ f \in Logs
    BY <1>0, <1>12, <2>0, TakeType DEF HandlePrivate, Messages, Logs, Conversations
  <2>2. UNCHANGED down \/ Reply(<<m>>)
    BY <1>12, <2>0 DEF HandlePrivate
  <2>3. UNCHANGED <<sock, roomOf, memberOf, queue, cast, before, cut, target, shown>>
    BY <1>12 DEF HandlePrivate
  <2>4. (\A x \in Messages, d \in Logs : In(x, d) => In(x, d)') /\ Private(m)'
    BY <1>b, <2>1 DEF Private
  <2>5. ToSet(down') \subseteq ToSet(down) \cup {m}
    <3>1. <<m>> \in Seq(Messages) /\ ToSet(<<m>>) = {m}
      BY <2>1 DEF ToSet
    <3> QED BY <1>0, <2>2, <3>1, ReplySet
  <2> QED BY <2>1, <2>3, <2>4, <2>5, MixKept
<1>13. ASSUME NEW m \in Theirs, NEW r \in Rooms, OtherChat(m, r) PROVE MixInv'
  <2>1. m \in Messages /\ r \in Logs /\ Push(r, m)
    BY <1>13 DEF OtherChat, Messages, Logs, Conversations
  <2>2. /\ UNCHANGED <<sock, up, down, roomOf, memberOf, queue, before, cut, target, shown>>
        /\ cast' = [cast EXCEPT ![m] = IF sock = "open" /\ r \in memberOf THEN "due" ELSE "may"]
    BY <1>13 DEF OtherChat
  <2>3. (\A x \in Messages, d \in Logs : In(x, d) => In(x, d)') /\ m \in posted'[r]
    BY <1>b, <2>1 DEF In
  <2>4. cast'[m] = "due" => sock' = "open" /\ In(m, roomOf)'
    BY <1>0, <2>1, <2>2, <2>3 DEF MixInv, In, TypeOK
  <2>5. cast'[m] # "late" /\ \A x \in Messages \ {m} : cast'[x] = cast[x]
    BY <1>0, <2>1, <2>2 DEF TypeOK
  <2> QED BY <2>2, <2>3, <2>4, <2>5, MixKept
<1>14. ASSUME NEW m \in Theirs, NEW f \in Friends, FriendPrivate(m, f) PROVE MixInv'
  <2>1. m \in Messages /\ f \in Logs /\ Push(f, m)
    BY <1>14 DEF FriendPrivate, Messages, Logs, Conversations
  <2>2. /\ UNCHANGED <<sock, up, down, roomOf, memberOf, before, cut, target, shown>>
        /\ \/ sock = "open" /\ cast' = [cast EXCEPT ![m] = "due"] /\ UNCHANGED queue
           \/ queue' \in {queue, <<m>> \o queue} /\ UNCHANGED cast
    BY <1>14 DEF FriendPrivate
  <2>3. /\ \A x \in Messages, d \in Logs : In(x, d) => In(x, d)'
        /\ In(m, f)'
    BY <1>b, <2>1
  <2>4. Private(m)' /\ IsPosted(m)'
    BY <2>1, <2>3 DEF Private, IsPosted
  <2>5. ToSet(queue') \subseteq ToSet(queue) \cup {m}
    <3>1. queue \in Seq(Messages)
      BY <1>0 DEF TypeOK
    <3>2. ToSet(<<m>> \o queue) = {m} \cup ToSet(queue)
      BY <2>1, <3>1, PrependSet
    <3> QED BY <2>2, <3>2
  <2>6. /\ cast'[m] = cast[m] \/ (cast'[m] = "due" /\ sock' = "open")
        /\ \A x \in Messages \ {m} : cast'[x] = cast[x]
    BY <1>0, <2>1, <2>2 DEF TypeOK
  <2> QED BY <2>2, <2>3, <2>4, <2>5, <2>6, MixKept
<1>15. ASSUME NEW m \in Theirs, CastReaches(m) PROVE MixInv'
  <2>1. /\ UNCHANGED <<sock, up, roomOf, memberOf, posted, log, queue, before, cut, target, shown>>
        /\ cast' = [cast EXCEPT ![m] = "none"] /\ Reply(<<m>>)
        /\ cast[m] \in {"due", "late"} \/ \E r \in memberOf : In(m, r)
    BY <1>15 DEF CastReaches
  <2>2. m \in Messages /\ <<m>> \in Seq(Messages) /\ ToSet(<<m>>) = {m}
    BY DEF Messages, ToSet
  <2>3. Private(m) \/ OfRoom(m)
    BY <2>1, <2>2 DEF MixInv, OfRoom
  <2>4. Private(m)' \/ OfRoom(m)'
    BY <2>1, <2>3 DEF Private, OfRoom, In
  <2>5. ToSet(down') \subseteq ToSet(down) \cup {m}
    BY <1>0, <2>1, <2>2, ReplySet
  <2>6. cast'[m] = "none" /\ \A x \in Messages \ {m} : cast'[x] = cast[x]
    BY <1>0, <2>1, <2>2 DEF TypeOK
  <2> QED BY <1>a, <2>1, <2>2, <2>4, <2>5, <2>6, MixKept
<1>16. ASSUME NEW m \in Theirs, CastPasses(m) \/ CastFails(m) PROVE MixInv'
  <2>1. /\ UNCHANGED <<sock, up, down, roomOf, memberOf, posted, log, queue, before, cut, target, shown>>
        /\ cast' = [cast EXCEPT ![m] = "none"]
    BY <1>16 DEF CastPasses, CastFails
  <2>2. cast'[m] = "none" /\ \A x \in Messages \ {m} : cast'[x] = cast[x]
    BY <1>0, <2>1 DEF TypeOK, Messages
  <2> QED BY <1>a, <2>1, <2>2, MixKept
<1>17. CASE UNCHANGED vars
  BY <1>17, <1>a, MixKept DEF vars
<1> QED
  BY <1>1, <1>2, <1>3, <1>4, <1>5, <1>6, <1>7, <1>8, <1>9, <1>10, <1>11, <1>12,
     <1>13, <1>14, <1>15, <1>16, <1>17 DEF Next

\* However fast the user changes rooms, and whichever broadcasts are still under
\* way, the room shown gets nothing that is newly said in another.
THEOREM RoomsAreKeptApart == Spec => []RoomsDoNotMix
<1>1. Init => MixInv
  BY DEF Init, MixInv, Settled, ToSet
<1>2. Typed /\ MixInv => RoomsDoNotMix
  <2> SUFFICES ASSUME Typed, MixInv, target = NULL, currentRoom # NULL,
                      currentRoom = roomOf, ~cut,
                      \A i \in DOMAIN up : up[i].type # "SWITCH_ROOM",
                      NEW m \in Messages, shown[m] > 0
               PROVE  m \in before \/ In(m, currentRoom)
    BY DEF RoomsDoNotMix
  <2>1. Settled
    BY DEF Settled, ToSet
  <2> QED BY <2>1 DEF MixInv, OfRoom
<1> QED
  BY <1>1, <1>2, TypedInit, TypedStep, MixStep, PTL DEF Spec
-----------------------------------------------------------------------------
(* Each message is said once and is in one conversation.                   *)

\* A frame that carries a message.
Says(frame) == frame.type \in {"CHAT", "PRIVATE"}

\* A message under way to the server was not posted yet and is in no other frame,
\* a posted one belongs to one conversation: what a view has seen never turns up
\* elsewhere.
OnceInv ==
  /\ \A m \in Messages : IsPosted(m) => m \in sent
  /\ \A i \in DOMAIN up : Says(up[i]) => up[i].msgid \in sent /\ ~IsPosted(up[i].msgid)
  /\ \A i, j \in DOMAIN up :
       Says(up[i]) /\ Says(up[j]) /\ up[i].msgid = up[j].msgid => i = j
  /\ \A m \in Messages, c, d \in Logs : In(m, c) /\ In(m, d) => c = d

\* A push adds the message to that log and changes nothing else.
LEMMA PushAdds ==
  ASSUME TypeOK, NEW c \in Logs, NEW x \in Messages, Push(c, x)
  PROVE  /\ \A m : \A d \in Logs : In(m, d)' <=> In(m, d) \/ (m = x /\ d = c)
         /\ \A m : IsPosted(m)' <=> IsPosted(m) \/ m = x
<1>1. \A m : \A d \in Logs : In(m, d)' <=> In(m, d) \/ (m = x /\ d = c)
  BY DEF TypeOK, Push, In
<1> QED BY <1>1 DEF IsPosted

\* Steps that push nothing and send no message.
LEMMA OnceKept ==
  ASSUME TypeOK, OnceInv, UNCHANGED <<posted, log, sent>>,
         \/ up' = up \/ up' = <<>>
         \/ up # <<>> /\ up' = Tail(up)
         \/ \E frame \in Frames : ~Says(frame) /\ up' = Append(up, frame)
  PROVE  OnceInv'
<1>1. \A m, c : In(m, c)' <=> In(m, c)
  BY DEF In
<1>2. \A m : IsPosted(m)' <=> IsPosted(m)
  BY <1>1 DEF IsPosted
<1>3. up \in Seq(Frames)
  BY DEF TypeOK
<1>4. CASE up' = up \/ up' = <<>>
  BY <1>1, <1>2, <1>4 DEF OnceInv
<1>5. CASE up # <<>> /\ up' = Tail(up)
  <2>1. \A i \in DOMAIN up' : i + 1 \in DOMAIN up /\ i \in Nat /\ up'[i] = up[i + 1]
    BY <1>3, <1>5
  <2> QED BY <1>1, <1>2, <2>1 DEF OnceInv
<1>6. ASSUME NEW frame \in Frames, ~Says(frame), up' = Append(up, frame)
      PROVE  OnceInv'
  <2>1. \A i \in DOMAIN up' : Says(up'[i]) => i \in DOMAIN up /\ up'[i] = up[i]
    BY <1>3, <1>6
  <2> QED BY <1>1, <1>2, <2>1 DEF OnceInv
<1> QED BY <1>4, <1>5, <1>6

\* A message that nobody has sent is pushed.
LEMMA OncePush ==
  ASSUME TypeOK, OnceInv, NEW m \in Messages, m \notin sent, sent' = sent \cup {m},
         NEW c \in Logs, Push(c, m), UNCHANGED up
  PROVE  OnceInv'
<1>1. ~IsPosted(m) /\ \A d \in Logs : ~In(m, d)
  BY DEF OnceInv, IsPosted
<1>2. /\ \A x : \A d \in Logs : In(x, d)' <=> In(x, d) \/ (x = m /\ d = c)
      /\ \A x : IsPosted(x)' <=> IsPosted(x) \/ x = m
  BY PushAdds
<1>3. \A i \in DOMAIN up : Says(up[i]) => up[i].msgid # m
  BY DEF OnceInv
<1> QED BY <1>1, <1>2, <1>3 DEF OnceInv

\* The server takes a frame and posts its message.
LEMMA OncePosted ==
  ASSUME TypeOK, OnceInv, up # <<>>, up' = Tail(up), UNCHANGED sent, Says(Head(up)),
         NEW c \in Logs, Head(up).msgid \in Messages, Push(c, Head(up).msgid)
  PROVE  OnceInv'
<1> DEFINE m == Head(up).msgid
<1>0. up \in Seq(Frames) /\ Head(up) = up[1] /\ 1 \in DOMAIN up
  BY DEF TypeOK
<1>1. m \in sent /\ ~IsPosted(m) /\ \A d \in Logs : ~In(m, d)
  BY <1>0 DEF OnceInv, IsPosted
<1>2. \A i \in DOMAIN up' : i + 1 \in DOMAIN up /\ i \in Nat \ {0} /\ up'[i] = up[i + 1]
  BY <1>0
<1>3. \A i \in DOMAIN up' : Says(up'[i]) => up'[i].msgid # m
  <2> SUFFICES ASSUME NEW i \in DOMAIN up', Says(up'[i]), up'[i].msgid = m
               PROVE  FALSE
    OBVIOUS
  <2>1. i + 1 = 1
    BY <1>0, <1>2 DEF OnceInv
  <2> QED BY <1>2, <2>1
<1> HIDE DEF m
<1>4. /\ \A x : \A d \in Logs : In(x, d)' <=> In(x, d) \/ (x = m /\ d = c)
      /\ \A x : IsPosted(x)' <=> IsPosted(x) \/ x = m
  BY PushAdds DEF m
<1>5. \A i \in DOMAIN up' : (Says(up[i]) => up[i].msgid \in sent /\ ~IsPosted(up[i].msgid))'
  BY <1>2, <1>3, <1>4 DEF OnceInv
<1>6. \A i, j \in DOMAIN up' :
        Says(up'[i]) /\ Says(up'[j]) /\ up'[i].msgid = up'[j].msgid => i = j
  <2> SUFFICES ASSUME NEW i \in DOMAIN up', NEW j \in DOMAIN up',
                      Says(up'[i]), Says(up'[j]), up'[i].msgid = up'[j].msgid
               PROVE  i = j
    OBVIOUS
  <2>1. i + 1 = j + 1
    BY <1>2 DEF OnceInv
  <2> QED BY <1>2, <2>1
<1>7. \A x \in Messages : IsPosted(x)' => x \in sent'
  BY <1>1, <1>4 DEF OnceInv
<1>8. \A x \in Messages, a, b \in Logs : In(x, a)' /\ In(x, b)' => a = b
  BY <1>1, <1>4 DEF OnceInv
<1> QED BY <1>5, <1>6, <1>7, <1>8 DEF OnceInv

LEMMA OnceStep == ASSUME Typed, OnceInv, [Next]_vars PROVE OnceInv'
<1> USE DEF sockVars, viewVars, srvVars, storeVars, switchHist
<1>0. TypeOK
  BY DEF Typed, Control, Control
<1>1. CASE \/ LoadRooms \/ Opened \/ Refused \/ Drop \/ Reconnect \/ Logout \/ HandleMessage
           \/ HandleHistory \/ UNCHANGED vars
  <2>1. /\ UNCHANGED <<posted, log, sent>>
        /\ \/ up' = up \/ up' = <<>>
           \/ up' = <<[type |-> "SWITCH_ROOM", roomId |-> FirstRoom]>>
    BY <1>1 DEF LoadRooms, Opened, NewSession, Refused, Drop, Broken, Reconnect, Logout,
       HandleMessage, HandleHistory, vars
  <2>2. CASE up' = up \/ up' = <<>>
    BY <1>0, <2>1, <2>2, OnceKept
  <2>3. CASE up' = <<[type |-> "SWITCH_ROOM", roomId |-> FirstRoom]>>
    <3>1. \A i \in DOMAIN up' : ~Says(up'[i])
      BY <2>3 DEF Says
    <3>2. \A m, c : In(m, c)' <=> In(m, c)
      BY <2>1 DEF In
    <3>3. \A m : IsPosted(m)' <=> IsPosted(m)
      BY <3>2 DEF IsPosted
    <3> QED BY <2>1, <3>1, <3>2, <3>3 DEF OnceInv
  <2> QED BY <2>1, <2>2, <2>3
<1>2. ASSUME (\E r \in Rooms : SwitchRoom(r)) \/ \E f \in Friends : SelectPrivateChat(f)
      PROVE  OnceInv'
  <2>1. UNCHANGED <<posted, log, sent>>
    BY <1>2 DEF SwitchRoom, SelectPrivateChat
  <2>2. PICK frame \in Frames : ~Says(frame) /\ Request(frame)
    <3>1. \A r \in Rooms : /\ [type |-> "SWITCH_ROOM", roomId |-> r] \in Frames
                           /\ ~Says([type |-> "SWITCH_ROOM", roomId |-> r])
      BY DEF Frames, Says
    <3>2. \A f \in Friends : /\ [type |-> "LOAD_PRIVATE_HISTORY", msgReceiver |-> f] \in Frames
                             /\ ~Says([type |-> "LOAD_PRIVATE_HISTORY", msgReceiver |-> f])
      BY DEF Frames, Says
    <3> QED BY <1>2, <3>1, <3>2 DEF SwitchRoom, SelectPrivateChat
  <2>3. up' = up \/ up' = Append(up, frame)
    BY <2>2 DEF Request
  <2> QED BY <1>0, <2>1, <2>2, <2>3, OnceKept
<1>3. ASSUME NEW m \in Mine, SendMsg(m) PROVE OnceInv'
  <2> DEFINE frame == IF target # NULL
                        THEN [type |-> "PRIVATE", msgid |-> m, msgReceiver |-> target]
                        ELSE [type |-> "CHAT", msgid |-> m, roomId |-> currentRoom]
  <2>1. frame.msgid = m
    OBVIOUS
  <2>2. /\ up \in Seq(Frames) /\ up' = Append(up, frame) /\ UNCHANGED <<posted, log>>
        /\ m \in Messages /\ m \notin sent /\ sent' = sent \cup {m}
    BY <1>0, <1>3 DEF SendMsg, TypeOK, Messages
  <2> HIDE DEF frame
  <2>3. /\ \A i \in DOMAIN up : i \in DOMAIN up' /\ up'[i] = up[i]
        /\ \A i \in DOMAIN up' : i \in DOMAIN up \/ (i = Len(up) + 1 /\ up'[i] = frame)
    BY <2>2
  <2>4. (\A x, c : In(x, c)' <=> In(x, c)) /\ \A x : IsPosted(x)' <=> IsPosted(x)
    BY <2>2 DEF In, IsPosted
  <2>5. ~IsPosted(m) /\ \A i \in DOMAIN up : Says(up[i]) => up[i].msgid # m
    BY <2>2 DEF OnceInv
  <2>6. \A i \in DOMAIN up' : (Says(up[i]) => up[i].msgid \in sent /\ ~IsPosted(up[i].msgid))'
    BY <2>1, <2>2, <2>3, <2>4, <2>5 DEF OnceInv
  <2>7. \A i, j \in DOMAIN up' :
          Says(up'[i]) /\ Says(up'[j]) /\ up'[i].msgid = up'[j].msgid => i = j
    BY <2>1, <2>3, <2>5 DEF OnceInv
  <2> QED BY <2>2, <2>4, <2>6, <2>7 DEF OnceInv
<1>4. CASE HandleSwitch \/ HandleSwitchFault \/ HandleLoad
  <2>1. \E type : Take(type)
    BY <1>4 DEF HandleSwitch, HandleSwitchFault, HandleLoad
  <2>2. up # <<>> /\ up' = Tail(up)
    BY <2>1 DEF Take
  <2>3. UNCHANGED <<posted, log, sent>>
    BY <1>4 DEF HandleSwitch, HandleSwitchFault, HandleLoad
  <2> QED BY <1>0, <2>2, <2>3, OnceKept
<1>5. CASE HandleChat \/ HandlePrivate
  <2>1. \/ Take("CHAT") /\ Push(roomOf, Head(up).msgid)
        \/ Take("PRIVATE") /\ Push(Head(up).msgReceiver, Head(up).msgid)
    BY <1>5 DEF HandleChat, HandlePrivate
  <2>2. PICK c \in Logs : Push(c, Head(up).msgid)
    BY <1>0, <2>1, TakeType DEF TypeOK, Logs, Conversations
  <2>3. /\ up # <<>> /\ up' = Tail(up) /\ Says(Head(up)) /\ Head(up).msgid \in Messages
        /\ UNCHANGED sent
    BY <1>0, <1>5, <2>1, TakeType DEF HandleChat, HandlePrivate, Says, Messages
  <2> QED BY <1>0, <2>2, <2>3, OncePosted
<1>6. ASSUME NEW m \in Theirs,
             (\E r \in Rooms : OtherChat(m, r)) \/ \E f \in Friends : FriendPrivate(m, f)
      PROVE  OnceInv'
  <2>1. PICK c \in Logs : Push(c, m)
    BY <1>6 DEF OtherChat, FriendPrivate, Logs, Conversations
  <2>2. m \in Messages /\ m \notin sent /\ sent' = sent \cup {m} /\ UNCHANGED up
    BY <1>6 DEF OtherChat, FriendPrivate, Messages
  <2> QED BY <1>0, <2>1, <2>2, OncePush
<1>7. ASSUME NEW m \in Theirs, CastReaches(m) \/ CastPasses(m) \/ CastFails(m)
      PROVE  OnceInv'
  <2>1. UNCHANGED <<posted, log, sent, up>>
    BY <1>7 DEF CastReaches, CastPasses, CastFails
  <2> QED BY <1>0, <2>1, OnceKept
<1> QED BY <1>1, <1>2, <1>3, <1>4, <1>5, <1>6, <1>7 DEF Next

-----------------------------------------------------------------------------
(* A requested view is whole.                                              *)

\* What was seen since the view was cleared is on the screen if it belongs there.
SeenInv == \A m \in receivedMsgIds : IsPosted(m) /\ (In(m, View) => shown[m] > 0)

\* What the server takes from a frame was not posted before.
LEMMA TakeUnposted ==
  ASSUME TypeOK, OnceInv, NEW type \in {"CHAT", "PRIVATE"}, Take(type)
  PROVE  ~IsPosted(Head(up).msgid)
<1>1. Head(up).type = type /\ Head(up) = up[1] /\ 1 \in DOMAIN up
  BY TakeType DEF TypeOK
<1> QED BY <1>1 DEF OnceInv, Says

\* A message that is pushed was posted nowhere before.
LEMMA PushedIsNew ==
  ASSUME Typed, OnceInv, Next, posted' # posted
  PROVE  \E c \in Logs, x \in Messages :
           /\ ~IsPosted(x) /\ Push(c, x)
           /\ \/ Take("CHAT") /\ HandleChat /\ c = roomOf /\ x = Head(up).msgid
              \/ Take("PRIVATE") /\ HandlePrivate /\ c = Head(up).msgReceiver /\ x = Head(up).msgid
              \/ x \in Theirs /\ c \in Rooms /\ OtherChat(x, c)
              \/ x \in Theirs /\ c \in Friends /\ FriendPrivate(x, c)
<1> USE DEF sockVars, viewVars, srvVars, storeVars, switchHist
<1>0. TypeOK /\ Rooms \subseteq Logs /\ Friends \subseteq Logs
  BY DEF Typed, Control, Logs, Conversations
<1>1. CASE HandleChat
  <2>1. Take("CHAT") /\ Push(roomOf, Head(up).msgid)
    BY <1>1 DEF HandleChat
  <2>2. Head(up).msgid \in Messages /\ roomOf \in Logs
    BY <1>0, <2>1, TakeType DEF Messages, TypeOK, Logs, Conversations
  <2> QED BY <1>0, <1>1, <2>1, <2>2, TakeUnposted
<1>2. CASE HandlePrivate
  <2>1. Take("PRIVATE") /\ Push(Head(up).msgReceiver, Head(up).msgid)
    BY <1>2 DEF HandlePrivate
  <2>2. Head(up).msgid \in Messages /\ Head(up).msgReceiver \in Logs
    BY <1>0, <2>1, TakeType DEF Messages
  <2> QED BY <1>0, <1>2, <2>1, <2>2, TakeUnposted
<1>3. ASSUME NEW m \in Theirs, NEW r \in Rooms, OtherChat(m, r)
      PROVE  m \in Messages /\ ~IsPosted(m) /\ Push(r, m)
  BY <1>3 DEF OtherChat, Messages, OnceInv
<1>4. ASSUME NEW m \in Theirs, NEW f \in Friends, FriendPrivate(m, f)
      PROVE  m \in Messages /\ ~IsPosted(m) /\ Push(f, m)
  BY <1>4 DEF FriendPrivate, Messages, OnceInv
<1>5. CASE \/ LoadRooms \/ Opened \/ Refused \/ Drop \/ Reconnect \/ Logout
           \/ HandleMessage \/ HandleSwitch \/ HandleSwitchFault \/ HandleHistory \/ HandleLoad
           \/ (\E r \in Rooms : SwitchRoom(r)) \/ (\E f \in Friends : SelectPrivateChat(f))
           \/ (\E m \in Mine : SendMsg(m))
           \/ (\E m \in Theirs : CastReaches(m) \/ CastPasses(m) \/ CastFails(m))
  <2>1. UNCHANGED <<posted, log>>
    BY <1>5 DEF LoadRooms, Opened, NewSession, Refused, Drop, Broken, Reconnect, Logout,
       HandleMessage, HandleSwitch, HandleSwitchFault, HandleHistory, HandleLoad,
       SwitchRoom, SelectPrivateChat, SendMsg, CastReaches, CastPasses, CastFails
  <2> QED BY <2>1
<1>6. ASSUME NEW m \in Theirs, NEW r \in Rooms, OtherChat(m, r)
      PROVE  \E c \in Logs, x \in Messages :
               ~IsPosted(x) /\ Push(c, x) /\ x \in Theirs /\ c \in Rooms /\ OtherChat(x, c)
  BY <1>0, <1>3, <1>6
<1>7. ASSUME NEW m \in Theirs, NEW f \in Friends, FriendPrivate(m, f)
      PROVE  \E c \in Logs, x \in Messages :
               ~IsPosted(x) /\ Push(c, x) /\ x \in Theirs /\ c \in Friends /\ FriendPrivate(x, c)
  BY <1>0, <1>4, <1>7
<1> QED BY <1>1, <1>2, <1>5, <1>6, <1>7 DEF Next

\* A message of the open conversation that comes first is put on the screen.
LEMMA MessageShows ==
  ASSUME Typed, OnceInv, SeenInv, HandleMessage, In(Head(down), View)
  PROVE  shown'[Head(down)] > 0
<1> USE RoomAssumption, DisjointAssumption
<1> DEFINE m == Head(down)
<1>1. m \in Messages /\ shown \in [Messages -> Nat]
  BY DEF HandleMessage, Typed, Control, TypeOK
<1>2. CASE m \in receivedMsgIds
  BY <1>2 DEF HandleMessage, SeenInv
<1>3. CASE m \notin receivedMsgIds /\ ~(Private(m) /\ (target = NULL \/ ~In(m, target)))
  <2>1. shown' = [shown EXCEPT ![m] = @ + 1]
    BY <1>3 DEF HandleMessage
  <2> QED BY <1>1, <2>1
<1>4. ~(Private(m) /\ (target = NULL \/ ~In(m, target)))
  <2>1. target # NULL => In(m, target)
    BY DEF View
  <2>2. ASSUME target = NULL, NEW f \in Friends, In(m, f) PROVE FALSE
    <3>1. In(m, currentRoom) /\ currentRoom \in Rooms \cup {NULL}
      BY <2>2 DEF View, Typed, Control, TypeOK
    <3>2. f = currentRoom
      BY <1>1, <2>2, <3>1 DEF OnceInv, Logs, Conversations
    <3> QED BY <2>2, <3>1, <3>2
  <2> QED BY <2>1, <2>2 DEF Private
<1> QED BY <1>2, <1>3, <1>4

LEMMA SeenStep ==
  ASSUME Typed, MixInv, OnceInv, SeenInv, [Next]_vars
  PROVE  SeenInv'
<1> USE DEF sockVars, viewVars, srvVars, storeVars, switchHist
<1>0. TypeOK
  BY DEF Typed, Control, Control
<1>1. CASE receivedMsgIds' = {}
  BY <1>1 DEF SeenInv
<1>2. CASE UNCHANGED <<receivedMsgIds, shown, target, currentRoom, posted>>
  <2>1. \A m : (In(m, View)' <=> In(m, View)) /\ (IsPosted(m)' <=> IsPosted(m))
    BY <1>2 DEF In, View, IsPosted
  <2> QED BY <1>2, <2>1 DEF SeenInv
<1>3. CASE Next /\ posted' # posted
  <2>1. PICK c \in Logs, x \in Messages : ~IsPosted(x) /\ Push(c, x)
    BY <1>3, PushedIsNew
  <2>2. UNCHANGED <<receivedMsgIds, shown, target, currentRoom>>
    BY <1>3, PushedIsNew DEF HandleChat, HandlePrivate, OtherChat, FriendPrivate
  <2>3. View \in Logs /\ View' = View
    BY <1>0, <2>2 DEF View, TypeOK, Logs, Conversations
  <2>4. \A m : /\ In(m, View)' <=> In(m, View) \/ (m = x /\ View = c)
               /\ IsPosted(m)' <=> IsPosted(m) \/ m = x
    <3>1. /\ \A m : \A d \in Logs : In(m, d)' <=> In(m, d) \/ (m = x /\ d = c)
          /\ \A m : IsPosted(m)' <=> IsPosted(m) \/ m = x
      BY <1>0, <2>1, PushAdds
    <3>2. \A m : In(m, View)' <=> m \in posted'[View]
      BY <2>3 DEF In
    <3> QED BY <2>3, <3>1, <3>2 DEF In
  <2> QED BY <2>1, <2>2, <2>4 DEF SeenInv
<1>4. CASE HandleMessage
  <2>1. /\ receivedMsgIds' = receivedMsgIds \cup {Head(down)}
        /\ UNCHANGED <<target, currentRoom, posted, log>>
        /\ Head(down) \in Messages /\ Head(down) \in ToSet(down)
    BY <1>0, <1>4 DEF HandleMessage, TypeOK, ToSet
  <2>2. IsPosted(Head(down))
    BY <2>1 DEF MixInv
  <2>3. \A m : (In(m, View)' <=> In(m, View)) /\ (IsPosted(m)' <=> IsPosted(m))
    BY <2>1 DEF In, View, IsPosted
  <2>4. \A m \in receivedMsgIds : shown[m] > 0 => shown'[m] > 0
    <3>1. shown' = shown \/ shown' = [shown EXCEPT ![Head(down)] = @ + 1]
      BY <1>4 DEF HandleMessage
    <3>2. shown \in [Messages -> Nat] /\ receivedMsgIds \subseteq Messages
      BY <1>0 DEF TypeOK
    <3>3. \A m \in Messages : shown'[m] = shown[m] \/ shown'[m] = shown[m] + 1
      BY <3>1, <3>2
    <3>4. \A m \in Messages : shown[m] > 0 => shown'[m] > 0
      BY <3>2, <3>3
    <3> QED BY <3>2, <3>4
  <2>5. In(Head(down), View) => shown'[Head(down)] > 0
    BY <1>4, MessageShows
  <2> QED BY <2>1, <2>2, <2>3, <2>4, <2>5 DEF SeenInv
<1>5. CASE Next /\ ~HandleMessage /\ UNCHANGED posted
  <2>1. receivedMsgIds' = {} \/ UNCHANGED <<receivedMsgIds, shown, target, currentRoom>>
    BY <1>5 DEF Next, LoadRooms, Opened, Refused, Drop, Reconnect, Logout, ClearView,
       HandleSwitch, HandleSwitchFault, HandleHistory, HandleLoad, HandleChat, HandlePrivate,
       SwitchRoom, SelectPrivateChat, SendMsg, OtherChat, FriendPrivate,
       CastReaches, CastPasses, CastFails
  <2> QED BY <1>1, <1>2, <1>5, <2>1
<1>6. CASE UNCHANGED vars
  BY <1>2, <1>6 DEF vars
<1> QED BY <1>3, <1>4, <1>5, <1>6

\* A frame that asks for the messages of a conversation, and the one that asks for
\* those of the open one.
Asks(frame) == frame.type \in {"SWITCH_ROOM", "LOAD_PRIVATE_HISTORY"}

Asked ==
  IF target # NULL THEN [type |-> "LOAD_PRIVATE_HISTORY", msgReceiver |-> target]
  ELSE [type |-> "SWITCH_ROOM", roomId |-> currentRoom]

\* The server has not taken all of the page's requests.
Pending == \E i \in DOMAIN up : Asks(up[i])

\* The i-th frame is the page's last request.
LastAsk(i) == Asks(up[i]) /\ \A j \in DOMAIN up : j > i => ~Asks(up[j])

\* The last request is the one for the open view; once it is taken, the session is
\* in the room of a room's view, or about to send its history.
AskInv ==
  /\ loaded => sock = "open" /\ (target = NULL => currentRoom \in Rooms)
  /\ ~cut /\ roomOf # NULL => roomOf \in memberOf
  /\ loaded => \A i \in DOMAIN up : LastAsk(i) => up[i] = Asked
  /\ loaded /\ ~Pending =>
       /\ target = NULL => cut \/ roomOf = currentRoom
       /\ srvPc = "history" => target = NULL /\ ~cut

\* What an appended frame makes of the requests.
LEMMA AskAppend ==
  ASSUME TypeOK, NEW frame \in Frames, up' = Append(up, frame)
  PROVE  /\ Asks(frame) => Pending' /\ \A i \in DOMAIN up' : LastAsk(i)' => up'[i] = frame
         /\ ~Asks(frame) => /\ Pending' <=> Pending
                            /\ \A i \in DOMAIN up' : LastAsk(i)' =>
                                 i \in DOMAIN up /\ LastAsk(i) /\ up'[i] = up[i]
<1> DEFINE n == Len(up)
<1>1. /\ n \in Nat /\ DOMAIN up = 1..n /\ DOMAIN up' = 1..(n + 1)
      /\ \A i \in 1..n : up'[i] = up[i]
      /\ up'[n + 1] = frame
  BY DEF TypeOK
<1> HIDE DEF n
<1>2. CASE Asks(frame)
  <2>1. \A i \in DOMAIN up' : i # n + 1 => n + 1 > i
    BY <1>1
  <2>2. n + 1 \in DOMAIN up' /\ Asks(up'[n + 1])
    BY <1>1, <1>2
  <2>3. ASSUME NEW i \in DOMAIN up', LastAsk(i)' PROVE i = n + 1
    <3>1. \A j \in DOMAIN up' : j > i => ~Asks(up'[j])
      BY <2>3 DEF LastAsk
    <3> QED BY <2>1, <2>2, <3>1
  <2> QED BY <1>1, <1>2, <2>2, <2>3 DEF Pending
<1>3. CASE ~Asks(frame)
  <2>1. Pending' <=> Pending
    BY <1>1, <1>3 DEF Pending
  <2>2. ASSUME NEW i \in DOMAIN up', LastAsk(i)'
        PROVE  i \in DOMAIN up /\ LastAsk(i) /\ up'[i] = up[i]
    <3>1. Asks(up'[i]) /\ \A j \in DOMAIN up' : j > i => ~Asks(up'[j])
      BY <2>2 DEF LastAsk
    <3>2. i \in DOMAIN up /\ up'[i] = up[i]
      BY <1>1, <1>3, <3>1
    <3>3. \A j \in DOMAIN up : j > i => ~Asks(up[j])
      BY <1>1, <3>1
    <3> QED BY <3>1, <3>2, <3>3 DEF LastAsk
  <2> QED BY <1>3, <2>1, <2>2
<1> QED BY <1>2, <1>3

\* What a taken frame makes of the requests.
LEMMA AskTake ==
  ASSUME TypeOK, up # <<>>, up' = Tail(up)
  PROVE  /\ ~Asks(Head(up)) => (Pending' <=> Pending)
         /\ Asks(Head(up)) /\ ~Pending' => 1 \in DOMAIN up /\ up[1] = Head(up) /\ LastAsk(1)
         /\ \A i \in DOMAIN up' : LastAsk(i)' =>
              i + 1 \in DOMAIN up /\ LastAsk(i + 1) /\ up'[i] = up[i + 1]
<1> DEFINE n == Len(up)
<1>1. /\ n \in Nat /\ n >= 1 /\ DOMAIN up = 1..n /\ DOMAIN up' = 1..(n - 1)
      /\ Head(up) = up[1]
      /\ \A i \in 1..(n - 1) : up'[i] = up[i + 1]
  BY DEF TypeOK
<1> HIDE DEF n
<1>2. \A j \in DOMAIN up : j = 1 \/ (j - 1 \in DOMAIN up' /\ up'[j - 1] = up[j])
  BY <1>1
<1>3. \A i \in DOMAIN up' : i + 1 \in DOMAIN up /\ up'[i] = up[i + 1] /\ i \in Nat
  BY <1>1
<1>4. ~Asks(Head(up)) => (Pending' <=> Pending)
  BY <1>1, <1>2, <1>3 DEF Pending
<1>5. Asks(Head(up)) /\ ~Pending' => 1 \in DOMAIN up /\ up[1] = Head(up) /\ LastAsk(1)
  <2> SUFFICES ASSUME Asks(Head(up)), ~Pending'
               PROVE  1 \in DOMAIN up /\ up[1] = Head(up) /\ LastAsk(1)
    OBVIOUS
  <2>2. \A i \in DOMAIN up' : ~Asks(up'[i])
    BY DEF Pending
  <2>3. \A j \in DOMAIN up : j > 1 => j # 1
    BY <1>1
  <2>1. \A j \in DOMAIN up : j > 1 => ~Asks(up[j])
    BY <1>2, <2>2, <2>3
  <2> QED BY <1>1, <2>1 DEF LastAsk
<1>6. ASSUME NEW i \in DOMAIN up', LastAsk(i)' PROVE LastAsk(i + 1)
  <2>1. Asks(up'[i]) /\ \A j \in DOMAIN up' : j > i => ~Asks(up'[j])
    BY <1>6 DEF LastAsk
  <2>2. \A j \in DOMAIN up : j > i + 1 => j - 1 \in DOMAIN up' /\ j - 1 > i /\ up'[j - 1] = up[j]
    BY <1>1, <1>3
  <2>3. \A j \in DOMAIN up : j > i + 1 => ~Asks(up[j])
    BY <2>1, <2>2
  <2> QED BY <1>3, <2>1, <2>3 DEF LastAsk
<1> QED BY <1>3, <1>4, <1>5, <1>6

\* The last request that is taken is the one for the open view.
LEMMA TakeLastAsk ==
  ASSUME TypeOK, AskInv, loaded, NEW type, Take(type),
         type \in {"SWITCH_ROOM", "LOAD_PRIVATE_HISTORY"}, ~Pending'
  PROVE  Head(up) = Asked
<1>1. up # <<>> /\ up' = Tail(up) /\ Asks(Head(up))
  BY TakeType DEF Asks
<1>2. 1 \in DOMAIN up /\ up[1] = Head(up) /\ LastAsk(1)
  BY <1>1, AskTake
<1> QED BY <1>2 DEF AskInv

LEMMA AskStep == ASSUME Typed, AskInv, [Next]_vars PROVE AskInv'
<1> USE DEF sockVars, viewVars, srvVars, storeVars, switchHist
<1> USE RoomAssumption
<1>0. TypeOK
  BY DEF Typed, Control, Control
<1>a. ASSUME UNCHANGED up
      PROVE  (Pending' <=> Pending) /\ \A i : LastAsk(i)' <=> LastAsk(i)
  BY <1>a DEF Pending, LastAsk
<1>b. ASSUME UNCHANGED <<target, currentRoom>> PROVE Asked' = Asked
  BY <1>b DEF Asked
<1>1. CASE UNCHANGED <<sock, loaded, up, target, currentRoom, roomOf, memberOf, cut>>
           /\ (srvPc' = srvPc \/ srvPc' = "idle")
  BY <1>1, <1>a, <1>b DEF AskInv
<1>2. CASE \/ LoadRooms \/ Refused \/ Drop \/ Reconnect \/ Logout
  <2>1. ~loaded' /\ UNCHANGED <<roomOf, memberOf, cut>>
    BY <1>2 DEF LoadRooms, Refused, Drop, Broken, Reconnect, Logout, AskInv
  <2> QED BY <2>1 DEF AskInv
<1>3. CASE Opened
  <2>1. roomOf' = NULL /\ sock' = "open" /\ ~loaded
    BY <1>3 DEF Opened, NewSession, AskInv
  <2>2. CASE ~loaded'
    BY <2>1, <2>2 DEF AskInv
  <2>3. CASE loaded'
    <3>1. /\ target' = NULL /\ currentRoom' = FirstRoom
          /\ up' = <<[type |-> "SWITCH_ROOM", roomId |-> FirstRoom]>>
      BY <1>3, <2>1, <2>3 DEF Opened
    <3>2. DOMAIN up' = {1} /\ up'[1] = [type |-> "SWITCH_ROOM", roomId |-> FirstRoom]
      BY <3>1
    <3>3. Pending' /\ Asked' = [type |-> "SWITCH_ROOM", roomId |-> FirstRoom]
      BY <3>1, <3>2 DEF Pending, Asks, Asked
    <3> QED BY <2>1, <3>1, <3>2, <3>3 DEF AskInv
  <2> QED BY <2>2, <2>3
<1>4. ASSUME (\E r \in Rooms : SwitchRoom(r)) \/ \E f \in Friends : SelectPrivateChat(f)
      PROVE  AskInv'
  <2>1. UNCHANGED <<sock, roomOf, memberOf, cut>>
    BY <1>4 DEF SwitchRoom, SelectPrivateChat
  <2>2. /\ Request(Asked') /\ Asked' \in Frames /\ Asks(Asked')
        /\ target' = NULL => currentRoom' \in Rooms
    <3>1. ASSUME NEW r \in Rooms, SwitchRoom(r)
          PROVE  /\ Asked' = [type |-> "SWITCH_ROOM", roomId |-> r] /\ Request(Asked')
                 /\ currentRoom' \in Rooms
      BY <3>1 DEF SwitchRoom, Asked
    <3>2. ASSUME NEW f \in Friends, SelectPrivateChat(f)
          PROVE  /\ Asked' = [type |-> "LOAD_PRIVATE_HISTORY", msgReceiver |-> f]
                 /\ Request(Asked') /\ target' # NULL
      BY <3>2 DEF SelectPrivateChat, Asked
    <3> QED BY <1>4, <3>1, <3>2 DEF Frames, Asks
  <2>3. CASE sock # "open"
    BY <2>1, <2>2, <2>3 DEF AskInv, Request
  <2>4. CASE sock = "open"
    <3>0. PICK frame \in Frames : frame = Asked'
      BY <2>2
    <3>1. up' = Append(up, frame) /\ Asks(frame)
      BY <2>2, <2>4, <3>0 DEF Request
    <3>2. Pending' /\ \A i \in DOMAIN up' : LastAsk(i)' => up'[i] = frame
      BY <1>0, <3>1, AskAppend
    <3> QED BY <2>1, <2>2, <2>4, <3>0, <3>2 DEF AskInv
  <2> QED BY <2>3, <2>4
<1>5. ASSUME NEW m \in Mine, SendMsg(m) PROVE AskInv'
  <2> DEFINE frame == IF target # NULL
                        THEN [type |-> "PRIVATE", msgid |-> m, msgReceiver |-> target]
                        ELSE [type |-> "CHAT", msgid |-> m, roomId |-> currentRoom]
  <2>1. frame \in Frames /\ ~Asks(frame)
    BY <1>0 DEF Frames, TypeOK, Asks
  <2>2. /\ up' = Append(up, frame)
        /\ UNCHANGED <<sock, loaded, target, currentRoom, roomOf, memberOf, srvPc, cut>>
    BY <1>5 DEF SendMsg
  <2> HIDE DEF frame
  <2>3. /\ Pending' <=> Pending
        /\ \A i \in DOMAIN up' : LastAsk(i)' => i \in DOMAIN up /\ LastAsk(i) /\ up'[i] = up[i]
    BY <1>0, <2>1, <2>2, AskAppend
  <2> QED BY <1>b, <2>2, <2>3 DEF AskInv
<1>6. ASSUME NEW type, Take(type)
      PROVE  /\ type \notin {"SWITCH_ROOM", "LOAD_PRIVATE_HISTORY"} => (Pending' <=> Pending)
             /\ loaded /\ UNCHANGED <<target, currentRoom>> /\ AskInv =>
                  \A i \in DOMAIN up' : LastAsk(i)' => up'[i] = Asked'
             /\ srvPc = "idle"
  <2>1. up # <<>> /\ up' = Tail(up) /\ Head(up).type = type /\ srvPc = "idle"
    BY <1>0, <1>6, TakeType
  <2>2. \A i \in DOMAIN up' : LastAsk(i)' =>
          i + 1 \in DOMAIN up /\ LastAsk(i + 1) /\ up'[i] = up[i + 1]
    BY <1>0, <2>1, AskTake
  <2>3. ~Asks(Head(up)) => (Pending' <=> Pending)
    BY <1>0, <2>1, AskTake
  <2>4. type \notin {"SWITCH_ROOM", "LOAD_PRIVATE_HISTORY"} => (Pending' <=> Pending)
    BY <2>1, <2>3 DEF Asks
  <2> QED BY <1>b, <2>1, <2>2, <2>4 DEF AskInv
<1>7. CASE HandleChat \/ HandlePrivate
  <2>1. PICK type \in {"CHAT", "PRIVATE"} : Take(type)
    BY <1>7 DEF HandleChat, HandlePrivate
  <2>2. UNCHANGED <<sock, loaded, target, currentRoom, roomOf, memberOf, srvPc, cut>>
    BY <1>7 DEF HandleChat, HandlePrivate
  <2> QED BY <1>6, <2>1, <2>2 DEF AskInv
<1>8. CASE HandleSwitch
  <2>1. /\ Take("SWITCH_ROOM") /\ roomOf' = Head(up).roomId /\ memberOf' = MovedTo(roomOf')
        /\ UNCHANGED <<sock, loaded, target, currentRoom>> /\ ~cut'
    BY <1>8 DEF HandleSwitch
  <2>2. loaded /\ ~Pending' => target = NULL /\ roomOf' = currentRoom
    <3>1. loaded /\ ~Pending' => Head(up) = Asked
      BY <1>0, <2>1, TakeLastAsk
    <3>2. Head(up).type = "SWITCH_ROOM"
      BY <1>0, <2>1, TakeType
    <3> QED BY <2>1, <3>1, <3>2 DEF Asked
  <2>3. roomOf' \in memberOf'
    BY <2>1 DEF MovedTo
  <2> QED BY <1>6, <2>1, <2>2, <2>3 DEF AskInv
<1>9. CASE HandleSwitchFault
  <2>1. /\ Take("SWITCH_ROOM") /\ cut'
        /\ UNCHANGED <<sock, loaded, target, currentRoom, srvPc>>
    BY <1>9 DEF HandleSwitchFault
  <2> QED BY <1>6, <2>1 DEF AskInv
<1>10. CASE HandleLoad
  <2>1. /\ Take("LOAD_PRIVATE_HISTORY")
        /\ UNCHANGED <<sock, loaded, target, currentRoom, roomOf, memberOf, srvPc, cut>>
    BY <1>10 DEF HandleLoad
  <2>2. loaded /\ ~Pending' => target # NULL
    <3>1. loaded /\ ~Pending' => Head(up) = Asked
      BY <1>0, <2>1, TakeLastAsk
    <3>2. Head(up).type = "LOAD_PRIVATE_HISTORY"
      BY <1>0, <2>1, TakeType
    <3> QED BY <3>1, <3>2 DEF Asked
  <2> QED BY <1>6, <2>1, <2>2 DEF AskInv
<1>11. CASE \/ HandleMessage \/ HandleHistory \/ UNCHANGED vars
            \/ \E m \in Theirs : \/ \E r \in Rooms : OtherChat(m, r)
                                 \/ \E f \in Friends : FriendPrivate(m, f)
                                 \/ CastReaches(m) \/ CastPasses(m) \/ CastFails(m)
  <2>1. /\ UNCHANGED <<sock, loaded, up, target, currentRoom, roomOf, memberOf, cut>>
        /\ srvPc' = srvPc \/ srvPc' = "idle"
    BY <1>11 DEF HandleMessage, HandleHistory, OtherChat, FriendPrivate, CastReaches,
       CastPasses, CastFails, vars
  <2> QED BY <1>1, <2>1
<1> QED BY <1>2, <1>3, <1>4, <1>5, <1>7, <1>8, <1>9, <1>10, <1>11 DEF Next

\* Everything the page asked for on this connection has been answered.
AllAnswered == loaded /\ ~Pending /\ srvPc = "idle" /\ (target = NULL => ~cut)

\* A message is on the screen, on its way to the page, or lost to it.
Reached(m) ==
  \/ m \in missed \/ shown[m] > 0
  \/ m \in ToSet(down) \/ cast[m] \in {"due", "late"}

\* m is in the list of the conversation c.
Saved(m, c) == m \in ToSet(log[c])

WholeInv == AllAnswered => \A m \in Messages : Saved(m, View) => Reached(m)

\* A step of a view that stays as it is, which lets no message of it slip.
LEMMA WholeKept ==
  ASSUME WholeInv, AllAnswered' => AllAnswered, UNCHANGED <<target, currentRoom>>,
         \A m \in Messages : Saved(m, View) /\ Reached(m) => Reached(m)',
         \A m \in Messages : Saved(m, View)' => Saved(m, View) \/ (AllAnswered => Reached(m)')
  PROVE  WholeInv'
BY DEF WholeInv

\* A reply to an open page adds the messages to what is on its way.
LEMMA ReplyReaches ==
  ASSUME TypeOK, sock = "open", NEW msgs \in Seq(Messages), Reply(msgs)
  PROVE  ToSet(down') = ToSet(down) \cup ToSet(msgs)
<1>1. down' = down \o msgs /\ down \in Seq(Messages)
  BY DEF Reply, TypeOK
<1> QED BY <1>1, ConcatSet

\* A history that is sent to its end or not accounts for the whole list.
LEMMA ReplayReaches ==
  ASSUME Typed, sock = "open", NEW c \in Conversations, NEW k \in 0..Len(Recent(c)),
         Replay(c, k), UNCHANGED log
  PROVE  \A m \in Messages : Saved(m, c)' => m \in missed' \/ m \in ToSet(down')
<1> DEFINE msgs == SubSeq(Recent(c), 1, k)
<1>0. TypeOK /\ c \in Logs
  BY DEF Typed, Control, Logs
<1>1. msgs \in Seq(Messages)
  BY <1>0, RecentType
<1>2. Reply(msgs) /\ missed' = ToSet(log[c]) \ ToSet(msgs)
  BY DEF Replay
<1> HIDE DEF msgs
<1>3. ToSet(down') = ToSet(down) \cup ToSet(msgs)
  BY <1>0, <1>1, <1>2, ReplyReaches
<1> QED BY <1>2, <1>3 DEF Saved

\* What a push makes of the lists.
LEMMA PushSaves ==
  ASSUME TypeOK, NEW c \in Logs, NEW x \in Messages, Push(c, x)
  PROVE  \A m : \A d \in Logs : Saved(m, d)' => Saved(m, d) \/ (m = x /\ d = c)
<1> DEFINE longer == Append(log[c], x)
<1>1. \A d \in Logs : log'[d] = log[d] \/ (d = c /\ log'[d] = longer)
  BY DEF TypeOK, Push
<1>2. ToSet(longer) = ToSet(log[c]) \cup {x}
  BY AppendSet DEF TypeOK
<1> HIDE DEF longer
<1>3. \A d \in Logs : \A m \in ToSet(log'[d]) : m \in ToSet(log[d]) \/ (m = x /\ d = c)
  BY <1>1, <1>2
<1> QED BY <1>3 DEF Saved

\* A message that is pushed and told to the page, or lost to it.
LEMMA WholePush ==
  ASSUME Typed, AskInv, WholeInv, NEW c \in Logs, NEW x \in Messages,
         ~IsPosted(x), Push(c, x), AllAnswered' => AllAnswered,
         UNCHANGED <<target, currentRoom, shown>>, missed \subseteq missed',
         ToSet(down) \subseteq ToSet(down'), \A m \in Messages \ {x} : cast'[m] = cast[m],
         AllAnswered /\ View = c => Reached(x)'
  PROVE  WholeInv'
<1>0. TypeOK
  BY DEF Typed, Control
<1>1. View \in Logs /\ View' = View
  BY <1>0 DEF View, TypeOK, Logs, Conversations
<1>2. \A m : Saved(m, View)' => Saved(m, View) \/ (m = x /\ View = c)
  <2>1. \A m : \A d \in Logs : Saved(m, d)' => Saved(m, d) \/ (m = x /\ d = c)
    BY <1>0, PushSaves
  <2>2. \A m : Saved(m, View)' <=> m \in ToSet(log'[View])
    BY <1>1 DEF Saved
  <2> QED BY <1>1, <2>1, <2>2 DEF Saved
<1>3. \A m \in Messages : m # x /\ Reached(m) => Reached(m)'
  BY DEF Reached
<1>4. SUFFICES ASSUME AllAnswered', NEW m \in Messages, Saved(m, View)' PROVE Reached(m)'
  BY DEF WholeInv
<1>5. AllAnswered /\ (Saved(m, View) \/ (m = x /\ View = c))
  BY <1>2, <1>4
<1>6. m = x /\ View = c => Reached(m)'
  BY <1>5 DEF Reached
<1>7. m # x => Reached(m)'
  BY <1>3, <1>4, <1>5 DEF WholeInv
<1>8. m = x => ~Saved(m, View)
  BY <1>1 DEF Typed, LogInv, Saved, IsPosted, In
<1> QED BY <1>5, <1>6, <1>7, <1>8

LEMMA WholeStep ==
  ASSUME Typed, MixInv, OnceInv, SeenInv, AskInv, AskInv', WholeInv, [Next]_vars
  PROVE  WholeInv'
<1> USE DEF sockVars, viewVars, srvVars, storeVars, switchHist
<1> USE RoomAssumption, DisjointAssumption
<1>0. TypeOK /\ Theirs \subseteq Messages /\ Rooms \subseteq Logs /\ Friends \subseteq Logs
  BY DEF Typed, Control, Messages, Logs, Conversations
<1>a. ASSUME UNCHANGED <<up, loaded, target, cut, srvPc>> PROVE AllAnswered' <=> AllAnswered
  BY <1>a DEF AllAnswered, Pending
<1>b. ASSUME UNCHANGED <<posted, log, target, currentRoom>>
      PROVE  \A m : Saved(m, View)' <=> Saved(m, View)
  BY <1>b DEF Saved, View
<1>c. ASSUME NEW type \in {"CHAT", "PRIVATE"}, Take(type), UNCHANGED <<loaded, target, cut, srvPc>>
      PROVE  AllAnswered' <=> AllAnswered
  <2>1. up # <<>> /\ up' = Tail(up) /\ ~Asks(Head(up))
    BY <1>0, <1>c, TakeType DEF Asks
  <2>2. Pending' <=> Pending
    BY <1>0, <2>1, AskTake
  <2> QED BY <1>c, <2>2 DEF AllAnswered
<1>1. CASE LoadRooms \/ Refused \/ Drop \/ Reconnect \/ Logout
  <2>1. sock' # "open"
    BY <1>1 DEF LoadRooms, Refused, Drop, OnClose, Reconnect, Logout
  <2> QED BY <2>1 DEF AskInv, WholeInv, AllAnswered
<1>2. CASE Opened
  <2>1. ASSUME loaded' PROVE Pending'
    <3>1. up' = <<[type |-> "SWITCH_ROOM", roomId |-> FirstRoom]>>
      BY <1>2, <2>1 DEF Opened, AskInv
    <3>2. 1 \in DOMAIN up' /\ Asks(up'[1])
      BY <3>1 DEF Asks
    <3> QED BY <3>2 DEF Pending
  <2> QED BY <2>1 DEF WholeInv, AllAnswered
<1>3. ASSUME (\E r \in Rooms : SwitchRoom(r)) \/ \E f \in Friends : SelectPrivateChat(f)
      PROVE  WholeInv'
  <2>1. PICK frame \in Frames : Asks(frame) /\ Request(frame)
    <3>1. \A r \in Rooms : /\ [type |-> "SWITCH_ROOM", roomId |-> r] \in Frames
                           /\ Asks([type |-> "SWITCH_ROOM", roomId |-> r])
      BY DEF Frames, Asks
    <3>2. \A f \in Friends : /\ [type |-> "LOAD_PRIVATE_HISTORY", msgReceiver |-> f] \in Frames
                             /\ Asks([type |-> "LOAD_PRIVATE_HISTORY", msgReceiver |-> f])
      BY DEF Frames, Asks
    <3> QED BY <1>3, <3>1, <3>2 DEF SwitchRoom, SelectPrivateChat
  <2>2. loaded' => up' = Append(up, frame)
    BY <2>1 DEF Request
  <2>3. loaded' => Pending'
    BY <1>0, <2>1, <2>2, AskAppend
  <2> QED BY <2>3 DEF WholeInv, AllAnswered
<1>4. ASSUME NEW m \in Mine, SendMsg(m) PROVE WholeInv'
  <2> DEFINE frame == IF target # NULL
                        THEN [type |-> "PRIVATE", msgid |-> m, msgReceiver |-> target]
                        ELSE [type |-> "CHAT", msgid |-> m, roomId |-> currentRoom]
  <2>1. frame \in Frames /\ ~Asks(frame)
    BY <1>0 DEF Frames, TypeOK, Asks
  <2>2. /\ up' = Append(up, frame)
        /\ UNCHANGED <<loaded, target, currentRoom, srvPc, cut, posted, log, missed, shown, down, cast>>
    BY <1>4 DEF SendMsg
  <2> HIDE DEF frame
  <2>3. AllAnswered' <=> AllAnswered
    BY <1>0, <2>1, <2>2, AskAppend DEF AllAnswered
  <2>4. \A x : Reached(x)' <=> Reached(x)
    BY <2>2 DEF Reached
  <2> QED BY <1>b, <2>2, <2>3, <2>4, WholeKept
<1>5. CASE HandleMessage
  <2>1. /\ UNCHANGED <<up, loaded, target, currentRoom, srvPc, cut, posted, log, missed, cast>>
        /\ down \in Seq(Messages) /\ down # <<>> /\ down' = Tail(down)
    BY <1>0, <1>5 DEF HandleMessage, TypeOK
  <2>2. ToSet(down) = {Head(down)} \cup ToSet(down')
    BY <2>1, TailSet
  <2>3. \A m \in Messages : shown[m] > 0 => shown'[m] > 0
    <3>1. shown' = shown \/ shown' = [shown EXCEPT ![Head(down)] = @ + 1]
      BY <1>5 DEF HandleMessage
    <3>2. shown \in [Messages -> Nat]
      BY <1>0 DEF TypeOK
    <3>3. \A m \in Messages : shown'[m] = shown[m] \/ shown'[m] = shown[m] + 1
      BY <3>1, <3>2
    <3> QED BY <3>2, <3>3
  <2>4. In(Head(down), View) => shown'[Head(down)] > 0
    BY <1>5, MessageShows
  <2>5. \A m \in Messages : Saved(m, View) => In(m, View)
    BY <1>0 DEF Typed, LogInv, Saved, In, View, TypeOK, Logs, Conversations
  <2>6. \A m \in Messages : Saved(m, View) /\ Reached(m) => Reached(m)'
    BY <2>1, <2>2, <2>3, <2>4, <2>5 DEF Reached
  <2> QED BY <1>a, <1>b, <2>1, <2>6, WholeKept
<1>6. CASE HandleSwitch
  BY <1>6 DEF HandleSwitch, WholeInv, AllAnswered
<1>7. CASE HandleSwitchFault
  <2>1. Take("SWITCH_ROOM") /\ cut' /\ UNCHANGED <<loaded, target>>
    BY <1>7 DEF HandleSwitchFault
  <2>2. loaded /\ ~Pending' => Head(up) = Asked
    BY <1>0, <2>1, TakeLastAsk
  <2>3. Head(up).type = "SWITCH_ROOM"
    BY <1>0, <2>1, TakeType
  <2>4. loaded /\ ~Pending' => target = NULL
    BY <2>2, <2>3 DEF Asked
  <2> QED BY <2>1, <2>4 DEF WholeInv, AllAnswered
<1>8. CASE HandleHistory
  <2>1. /\ UNCHANGED <<sock, up, loaded, target, currentRoom, roomOf, cut, posted, log>>
        /\ srvPc = "history"
    BY <1>8 DEF HandleHistory
  <2>2. PICK k \in 0..Len(Recent(roomOf)) : Replay(roomOf, k)
    BY <1>8 DEF HandleHistory
  <2>3. roomOf \in Conversations
    BY <2>1 DEF Typed, Control, Conversations
  <2>4. loaded /\ ~Pending' => sock = "open" /\ target = NULL /\ roomOf = currentRoom
    <3>1. Pending' <=> Pending
      BY <2>1 DEF Pending
    <3> QED BY <2>1, <3>1 DEF AskInv
  <2>5. SUFFICES ASSUME AllAnswered', NEW m \in Messages, Saved(m, View)' PROVE Reached(m)'
    BY DEF WholeInv
  <2>6. sock = "open" /\ target = NULL /\ roomOf = currentRoom
    BY <2>1, <2>4, <2>5 DEF AllAnswered
  <2>7. m \in ToSet(log'[roomOf])
    BY <2>1, <2>5, <2>6 DEF View, Saved
  <2>8. \A x \in Messages : x \in ToSet(log'[roomOf]) => x \in missed' \/ x \in ToSet(down')
    BY <2>1, <2>2, <2>3, <2>6, ReplayReaches DEF Saved
  <2> QED BY <2>7, <2>8 DEF Reached
<1>9. CASE HandleLoad
  <2>1. Take("LOAD_PRIVATE_HISTORY") /\ UNCHANGED <<sock, loaded, target, currentRoom, posted, log>>
    BY <1>9 DEF HandleLoad
  <2>2. PICK f \in Friends : f = Head(up).msgReceiver /\ Head(up).type = "LOAD_PRIVATE_HISTORY"
    BY <1>0, <2>1, TakeType
  <2>3. PICK k \in 0..Len(Recent(f)) : Replay(f, k)
    BY <1>9, <2>2 DEF HandleLoad
  <2>4. loaded /\ ~Pending' => sock = "open" /\ target = f
    <3>1. loaded /\ ~Pending' => Head(up) = Asked
      BY <1>0, <2>1, TakeLastAsk
    <3>2. Head(up) = Asked => target = f
      BY <2>2 DEF Asked
    <3> QED BY <3>1, <3>2 DEF AskInv
  <2>5. SUFFICES ASSUME AllAnswered', NEW m \in Messages, Saved(m, View)' PROVE Reached(m)'
    BY DEF WholeInv
  <2>6. sock = "open" /\ target = f /\ target' = f
    BY <2>1, <2>4, <2>5 DEF AllAnswered
  <2>7. View' = f /\ f \in Conversations
    BY <2>6 DEF View, Conversations
  <2>8. \A x \in Messages : x \in ToSet(log'[f]) => x \in missed' \/ x \in ToSet(down')
    BY <2>1, <2>3, <2>6, <2>7, ReplayReaches DEF Saved
  <2>9. m \in ToSet(log'[f])
    BY <2>5, <2>7 DEF Saved
  <2> QED BY <2>8, <2>9 DEF Reached
<1>10. CASE HandleChat \/ HandlePrivate
  <2>0. PICK m : m = Head(up).msgid
    OBVIOUS
  <2>1. PICK type \in {"CHAT", "PRIVATE"} : Take(type)
    BY <1>10 DEF HandleChat, HandlePrivate
  <2>2. m \in Messages /\ <<m>> \in Seq(Messages) /\ ~IsPosted(m)
    BY <1>0, <2>0, <2>1, TakeType, TakeUnposted DEF Messages
  <2>3. /\ UNCHANGED <<sock, loaded, target, currentRoom, shown, cut, srvPc, cast>>
        /\ \/ Reply(<<m>>) /\ UNCHANGED missed
           \/ missed' = missed \cup {m} /\ UNCHANGED down
    BY <1>10, <2>0 DEF HandleChat, HandlePrivate
  <2>4. PICK c \in Logs : Push(c, m)
    <3>1. \/ Take("CHAT") /\ Push(roomOf, m)
          \/ Take("PRIVATE") /\ Push(Head(up).msgReceiver, m)
      BY <1>10, <2>0 DEF HandleChat, HandlePrivate
    <3> QED BY <1>0, <3>1, TakeType DEF TypeOK, Logs, Conversations
  <2>5. AllAnswered' <=> AllAnswered
    BY <1>c, <2>1, <2>3
  <2>6. sock = "open" => m \in missed' \/ m \in ToSet(down')
    <3>1. ToSet(<<m>>) = {m}
      BY DEF ToSet
    <3> QED BY <1>0, <2>2, <2>3, <3>1, ReplyReaches
  <2>7. ToSet(down) \subseteq ToSet(down')
    <3>1. down' = down \/ (sock = "open" /\ Reply(<<m>>))
      BY <2>3 DEF Reply
    <3> QED BY <1>0, <2>2, <3>1, ReplyReaches
  <2>8. AllAnswered => Reached(m)'
    BY <2>6 DEF AllAnswered, AskInv, Reached
  <2> QED BY <2>2, <2>3, <2>4, <2>5, <2>7, <2>8, WholePush
<1>11. ASSUME NEW m \in Theirs, NEW r \in Rooms, OtherChat(m, r) PROVE WholeInv'
  <2>1. /\ UNCHANGED <<up, down, loaded, target, currentRoom, srvPc, cut, missed, shown>>
        /\ Push(r, m) /\ m \in Messages /\ ~IsPosted(m)
        /\ cast' = [cast EXCEPT ![m] =
             IF sock = "open" /\ r \in memberOf THEN "due" ELSE "may"]
    BY <1>0, <1>11 DEF OtherChat, OnceInv
  <2>2. AllAnswered /\ View = r => sock = "open" /\ r \in memberOf
    <3> SUFFICES ASSUME AllAnswered, View = r PROVE sock = "open" /\ r \in memberOf
      OBVIOUS
    <3>1. target = NULL /\ currentRoom = r
      BY <1>0 DEF View, TypeOK
    <3>2. roomOf = r /\ ~cut /\ r # NULL /\ sock = "open"
      BY <3>1 DEF AllAnswered, AskInv
    <3> QED BY <3>2 DEF AskInv
  <2>3. cast'[m] = (IF sock = "open" /\ r \in memberOf THEN "due" ELSE "may")
        /\ \A x \in Messages \ {m} : cast'[x] = cast[x]
    BY <1>0, <2>1 DEF TypeOK
  <2>4. AllAnswered /\ View = r => Reached(m)'
    BY <2>2, <2>3 DEF Reached
  <2> QED BY <1>0, <1>a, <2>1, <2>3, <2>4, WholePush
<1>12. ASSUME NEW m \in Theirs, NEW f \in Friends, FriendPrivate(m, f) PROVE WholeInv'
  <2>1. /\ UNCHANGED <<up, down, loaded, target, currentRoom, srvPc, cut, missed, shown>>
        /\ Push(f, m) /\ m \in Messages /\ ~IsPosted(m)
        /\ cast' = cast \/ cast' = [cast EXCEPT ![m] = "due"]
        /\ sock = "open" => cast' = [cast EXCEPT ![m] = "due"]
    BY <1>0, <1>12 DEF FriendPrivate, OnceInv
  <2>2. (sock = "open" => cast'[m] = "due") /\ \A x \in Messages \ {m} : cast'[x] = cast[x]
    BY <1>0, <2>1 DEF TypeOK
  <2>3. AllAnswered => Reached(m)'
    BY <2>2 DEF Reached, AllAnswered, AskInv
  <2> QED BY <1>0, <1>a, <2>1, <2>2, <2>3, WholePush
<1>13. ASSUME NEW m \in Theirs, CastReaches(m) \/ CastPasses(m) \/ CastFails(m)
       PROVE  WholeInv'
  <2>1. /\ UNCHANGED <<sock, up, loaded, target, currentRoom, srvPc, cut, posted, log, shown>>
        /\ cast' = [cast EXCEPT ![m] = "none"] /\ missed \subseteq missed'
    BY <1>13 DEF CastReaches, CastPasses, CastFails
  <2>2. /\ <<m>> \in Seq(Messages) /\ ToSet(<<m>>) = {m}
        /\ \A x \in Messages \ {m} : cast'[x] = cast[x]
    BY <1>0, <2>1 DEF TypeOK, ToSet
  <2>3. ToSet(down) \subseteq ToSet(down')
    <3>1. down' = down \/ (sock = "open" /\ Reply(<<m>>))
      BY <1>13 DEF CastReaches, CastPasses, CastFails, Reply
    <3> QED BY <1>0, <2>2, <3>1, ReplyReaches
  <2>4. sock = "open" /\ cast[m] \in {"due", "late"} => m \in ToSet(down') \/ m \in missed'
    <3>1. \/ Reply(<<m>>)
          \/ cast[m] = "may"
          \/ missed' = missed \cup {m}
      BY <1>13 DEF CastReaches, CastPasses, CastFails
    <3> QED BY <1>0, <2>2, <3>1, ReplyReaches
  <2>5. sock = "open" => \A x \in Messages : Reached(x) => Reached(x)'
    BY <2>1, <2>2, <2>3, <2>4 DEF Reached
  <2>6. AllAnswered => sock = "open"
    BY DEF AllAnswered, AskInv
  <2>7. AllAnswered' <=> AllAnswered
    BY <1>a, <2>1
  <2>8. \A x : Saved(x, View)' <=> Saved(x, View)
    BY <1>b, <2>1
  <2> QED BY <2>5, <2>6, <2>7, <2>8 DEF WholeInv
<1>14. CASE UNCHANGED vars
  <2>1. \A m : Reached(m)' <=> Reached(m)
    BY <1>14 DEF vars, Reached
  <2> QED BY <1>14, <1>a, <1>b, <2>1, WholeKept DEF vars
<1> QED
  BY <1>1, <1>2, <1>3, <1>4, <1>5, <1>6, <1>7, <1>8, <1>9, <1>10, <1>11, <1>12,
     <1>13, <1>14 DEF Next

\* What a view shows when nothing is under way is the whole list of its
\* conversation, but for what was older than the newest Limit when the list was
\* read and the messages whose sending failed: however the user goes back and
\* forth, and whatever is said while a switch or a history is on its way.
THEOREM ViewsAreWhole == Spec => []ViewIsWhole
<1>1. Init => OnceInv /\ SeenInv /\ AskInv /\ WholeInv /\ MixInv
  <2>1. ASSUME Init PROVE \A m, c : c \in Logs => ~In(m, c)
    BY <2>1 DEF Init, In, ToSet
  <2>2. Init => OnceInv
    <3>1. Init => up = <<>> /\ \A m : ~IsPosted(m)
      BY <2>1 DEF Init, IsPosted
    <3> QED BY <2>1, <3>1 DEF OnceInv
  <2>3. Init => SeenInv /\ AskInv /\ WholeInv
    BY DEF Init, SeenInv, AskInv, WholeInv, AllAnswered
  <2>4. Init => MixInv
    BY DEF Init, MixInv, Settled, ToSet
  <2> QED BY <2>2, <2>3, <2>4
<1>2. Typed /\ AskInv /\ WholeInv => ViewIsWhole
  <2> SUFFICES ASSUME Typed, AskInv, WholeInv, Quiet, loaded, target = NULL => ~cut,
                      NEW m \in ToSet(log[View])
               PROVE  m \in missed \cup {x \in Messages : shown[x] > 0}
    BY DEF ViewIsWhole
  <2>1. AllAnswered
    BY DEF AllAnswered, Pending, Quiet
  <2>2. View \in Logs
    BY DEF Typed, Control, TypeOK, View, Logs, Conversations
  <2>3. m \in Messages
    BY <2>2 DEF Typed, Control, TypeOK, ToSet
  <2>4. Reached(m)
    BY <2>1, <2>3 DEF WholeInv, Saved
  <2>5. m \notin ToSet(down) /\ cast[m] = "none"
    BY <2>3 DEF Quiet, ToSet
  <2> QED BY <2>3, <2>4, <2>5 DEF Reached
<1> QED
  BY <1>1, <1>2, TypedInit, TypedStep, MixStep, OnceStep, SeenStep, AskStep, WholeStep, PTL
     DEF Spec

-----------------------------------------------------------------------------
(* The reconnect timer.                                                    *)

\* A page without a connection has an attempt pending, or has made them all.
NeverIdle == sock = "closed" => timer \/ GaveUp

\* The page never sits closed with attempts left and no timer: between two of its
\* connections an attempt is always under way or due, until all were made.
THEOREM PageKeepsTrying == Spec => []NeverIdle
<1> USE DEF sockVars, NeverIdle, GaveUp
<1>1. Init => NeverIdle
  BY DEF Init
<1>2. Typed /\ NeverIdle /\ [Next]_vars => NeverIdle'
  <2> SUFFICES ASSUME Typed, NeverIdle, [Next]_vars PROVE NeverIdle'
    OBVIOUS
  <2>1. CASE Refused \/ Drop
    BY <2>1, BoundAssumption DEF Refused, Drop, OnClose, Typed, Control, TypeOK
  <2>2. CASE LoadRooms \/ Opened \/ Reconnect \/ Logout
    BY <2>2 DEF LoadRooms, Opened, Reconnect, Logout
  <2>3. CASE ~(Refused \/ Drop \/ LoadRooms \/ Opened \/ Reconnect \/ Logout)
    <3>1. UNCHANGED <<sock, timer, reconnectAttempts>>
      BY <2>3 DEF Next, vars, SwitchRoom, SelectPrivateChat, SendMsg, HandleMessage, HandleSwitch,
         HandleSwitchFault, HandleHistory, HandleLoad, HandleChat, HandlePrivate, OtherChat,
         FriendPrivate, CastReaches, CastPasses, CastFails
    <3> QED BY <3>1
  <2> QED BY <2>1, <2>2, <2>3
<1> QED BY <1>1, <1>2, TypedInit, TypedStep, PTL DEF Spec
==============================================================================
