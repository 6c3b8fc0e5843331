------------------------------ MODULE ChatClient ------------------------------
(***************************************************************************)
(* The chat page (websocketChatroom.jsp) of one user: its socket, its      *)
(* reconnect timer, the view it shows and the message ids it has seen,     *)
(* joined by two FIFO channels to the server's session of its connection.  *)
(*                                                                         *)
(* Of the server this module keeps what the page depends on: the room the  *)
(* session is in, the histories, the broadcasts that are under way and the *)
(* offline queue.  WSServPoint's handlers run one after another for one    *)
(* session; broadcasts of other members run beside them.  SYSTEM, PING and *)
(* ACK frames change neither the view's messages nor the rooms and are     *)
(* left out (see Heartbeat).  Redis may fail at any save, push or read; the *)
(* trim of the lists and their expiry are in RedisStore.                   *)
(***************************************************************************)
EXTENDS Naturals, FiniteSets, SequencesExt

CONSTANTS
  Rooms,         \* the rooms that /room/list returns, when it is not empty
  FirstRoom,     \* the one at the head of that list
  Friends,       \* users with whom there is a private conversation
  Mine,          \* messages typed on the page, each typed at most once
  Theirs,        \* messages of other users, each sent at most once
  Limit,         \* messages that a read of a history returns: 50
  MaxReconnect,  \* MAX_RECONNECT: 10
  MaxUp,         \* bound: frames under way to the server
  MaxDown,       \* bound: frames under way to the page
  NULL

ASSUME RoomAssumption == FirstRoom \in Rooms /\ NULL \notin Rooms \cup Friends
ASSUME DisjointAssumption == Rooms \cap Friends = {} /\ Mine \cap Theirs = {}
ASSUME FiniteAssumption == IsFiniteSet(Mine \cup Theirs)
ASSUME LimitAssumption == Limit \in Nat
ASSUME BoundAssumption == MaxReconnect \in Nat /\ MaxUp \in Nat /\ MaxDown \in Nat

VARIABLES
  sock,            \* the page's WebSocket
  timer,           \* setTimeout(connect) is pending
  reconnectAttempts,
  listed,          \* roomListData is not empty
  currentRoom,
  target,          \* currentPrivateTarget; NULL when currentChatType is 'room'
  receivedMsgIds,
  shown,           \* how often #messages holds a message
  unread,          \* friends with an unread count
  up,              \* frames from the page to the server
  down,            \* messages from the server to the page
  roomOf,          \* UserSession.roomId of the session
  memberOf,        \* the rooms whose set contains the session
  srvPc,           \* "history" between entering a room and reading its history
  posted,          \* the messages that the server has handled, by their room or friend
  log,             \* the lists chat:room:<id> and chat:private:<a>:<b>
  queue,           \* chat:offline:<user>
  cast,            \* where the broadcast of a message stands for the session
  sent,            \* messages that were typed or sent
  loaded,          \* history variable: the view was requested on this connection
  cut,             \* history variable: the last SWITCH_ROOM ended in its leave broadcast
  missed,          \* history variable: messages the session was not sent since its
                   \* last history: it had newer ones, or the sending failed
  before,          \* history variable: messages posted when the session last switched
  unseen           \* history variable: PRIVATE messages got and not shown since, but
                   \* those that a click on their friend failed to bring

sockVars == <<sock, timer, reconnectAttempts, listed>>
viewVars == <<currentRoom, target, receivedMsgIds, shown, unread>>
srvVars  == <<roomOf, memberOf, srvPc>>
storeVars == <<posted, log, queue, sent>>
switchHist == <<cut, before>>
vars == <<sockVars, viewVars, up, down, srvVars, storeVars, cast, loaded, missed,
          switchHist, unseen>>

Messages == Mine \cup Theirs
Conversations == Rooms \cup Friends
\* A room id of null makes the key chat:room:null.
Logs == Conversations \cup {NULL}

Frames ==
  [type : {"SWITCH_ROOM"}, roomId : Rooms]
  \cup [type : {"LOAD_PRIVATE_HISTORY"}, msgReceiver : Friends]
  \cup [type : {"CHAT"}, msgid : Mine, roomId : Rooms \cup {NULL}]
  \cup [type : {"PRIVATE"}, msgid : Mine, msgReceiver : Friends]

SockStates == {"loading", "connecting", "open", "closed", "gone"}
CastStates == {"none", "due", "may", "late"}

Init ==
  /\ sock = "loading" /\ timer = FALSE /\ reconnectAttempts = 0 /\ listed = FALSE
  /\ currentRoom = NULL /\ target = NULL
  /\ receivedMsgIds = {} /\ shown = [m \in Messages |-> 0] /\ unread = {}
  /\ up = <<>> /\ down = <<>>
  /\ roomOf = NULL /\ memberOf = {} /\ srvPc = "idle"
  /\ posted = [c \in Logs |-> {}] /\ log = [c \in Logs |-> <<>>]
  /\ queue = <<>> /\ sent = {}
  /\ cast = [m \in Messages |-> "none"]
  /\ loaded = FALSE /\ cut = FALSE
  /\ missed = {} /\ before = {} /\ unseen = {}

-----------------------------------------------------------------------------
(* Helpers.                                                                *)

\* m belongs to conversation c, whether it was saved or not.
In(m, c) == m \in posted[c]
Private(m) == \E f \in Friends : In(m, f)
Posted == {m \in Messages : \E c \in Logs : In(m, c)}

\* The newest messages of the list of c, as a read returns them.
Recent(c) == LET n == Len(log[c]) IN SubSeq(log[c], IF n > Limit THEN n - Limit + 1 ELSE 1, n)

\* MUTANT: a view that is shown again still ignores the messages it had.
ClearKeepsIds ==
  /\ shown' = [m \in Messages |-> 0]
  /\ UNCHANGED receivedMsgIds

\* MUTANT: the ids are forgotten, the messages stay on the screen.
ClearKeepsMessages ==
  /\ receivedMsgIds' = {}
  /\ UNCHANGED shown

\* A new view starts empty and has seen nothing.
ClearView ==
  /\ receivedMsgIds' = {}
  /\ shown' = [m \in Messages |-> 0]

\* The page sends a frame if its socket is open.
Request(frame) ==
  /\ sock = "open" => Len(up) < MaxUp
  /\ up' = IF sock = "open" THEN Append(up, frame) ELSE up
  /\ loaded' = (sock = "open")

\* The server sends messages to its session; behind a broken connection they
\* are lost.
Reply(msgs) ==
  /\ Len(down) + Len(msgs) <= MaxDown
  /\ down' = IF sock = "open" THEN down \o msgs ELSE down

\* m is handled for conversation c: it is saved, or the save fails.
Push(c, m) ==
  /\ posted' = [posted EXCEPT ![c] = @ \cup {m}]
  /\ log' = [log EXCEPT ![c] = Append(@, m)] \/ UNCHANGED log

\* The click on f has brought no more than msgs of the conversation.
Answered(f, msgs) == unseen' = {m \in unseen : In(m, f) => m \in msgs}

\* MUTANT: the session stays in the set of its old room.
EntersAlso(r) == memberOf \cup {r}

\* The rooms of the session once SWITCH_ROOM has moved it to r.
MovedTo(r) == (memberOf \ {roomOf}) \cup {r}

\* The server takes the next frame, of this type, from the session.
Take(type) == srvPc = "idle" /\ up # <<>> /\ Head(up).type = type /\ up' = Tail(up)

-----------------------------------------------------------------------------
(* The socket.                                                             *)

\* loadRoomsAndConnect: /room/list answers, then connect() is called.
LoadRooms ==
  /\ sock = "loading"
  /\ sock' = "connecting"
  /\ listed' \in BOOLEAN
  /\ UNCHANGED <<timer, reconnectAttempts, viewVars, up, down, srvVars, storeVars,
                 cast, loaded, missed, switchHist, unseen>>

\* onOpen sends the offline queue and leaves it as it is.  A send or Redis may
\* fail on the way, and the last pushes may come after the read.
Welcome == \E i, j \in 0..Len(queue) : down' = SubSeq(queue, i + 1, j)

\* MUTANT: the new session takes over the room of the old one.
SessionResumes ==
  /\ memberOf' = {} /\ srvPc' = "idle"
  /\ Welcome
  /\ cut' = FALSE
  /\ missed' = {}
  /\ UNCHANGED <<roomOf, storeVars, before, unseen>>

\* What every opened socket starts with: a session without a room.
NewSession ==
  /\ roomOf' = NULL /\ memberOf' = {} /\ srvPc' = "idle"
  /\ Welcome
  /\ cut' = FALSE
  /\ missed' = {}
  /\ before' = {}
  /\ UNCHANGED <<storeVars, unseen>>

\* ws.onopen.  Only a page that has not shown a room yet switches to the first
\* one; any other keeps its view and requests nothing.
Opened ==
  /\ sock = "connecting"
  /\ sock' = "open"
  /\ reconnectAttempts' = 0
  /\ NewSession
  /\ IF listed /\ target = NULL /\ currentRoom = NULL
       THEN /\ currentRoom' = FirstRoom
            /\ ClearView
            /\ up' = <<[type |-> "SWITCH_ROOM", roomId |-> FirstRoom]>>
            /\ loaded' = TRUE
       ELSE /\ up' = <<>>
            /\ UNCHANGED <<currentRoom, receivedMsgIds, shown, loaded>>
  /\ UNCHANGED <<timer, listed, target, unread, cast>>

\* MUTANT: attempts are not limited.
OnCloseUnlimited ==
  /\ sock' = "closed"
  /\ timer' = TRUE /\ reconnectAttempts' = reconnectAttempts + 1
  /\ UNCHANGED listed

\* MUTANT: attempts are not counted.
OnCloseUncounted ==
  /\ sock' = "closed"
  /\ timer' = (reconnectAttempts < MaxReconnect \/ timer)
  /\ UNCHANGED <<reconnectAttempts, listed>>

\* ws.onclose: another attempt is scheduled, up to MAX_RECONNECT in a row.
OnClose ==
  /\ sock' = "closed"
  /\ IF reconnectAttempts < MaxReconnect
       THEN timer' = TRUE /\ reconnectAttempts' = reconnectAttempts + 1
       ELSE UNCHANGED <<timer, reconnectAttempts>>
  /\ UNCHANGED listed

\* The connection attempt fails.
Refused ==
  /\ sock = "connecting"
  /\ OnClose
  /\ UNCHANGED <<viewVars, up, down, srvVars, storeVars, cast, loaded, missed,
                 switchHist, unseen>>

\* What a broken connection leaves behind: messages on their way to the page are
\* lost; a PRIVATE message about to be sent gets an IOException and is queued, or
\* an unchecked exception, or Redis fails; a broadcast goes on without this
\* session.
Broken ==
  /\ down' = <<>>
  /\ \E due \in SUBSET {m \in Messages : cast[m] = "due" /\ Private(m)} :
       queue' = SetToSeq(due) \o queue
  /\ cast' = [m \in Messages |->
       IF cast[m] \in {"due", "late"}
         THEN IF Private(m) THEN "none" ELSE "may"
         ELSE cast[m]]
  /\ loaded' = FALSE
  /\ missed' = {}
  /\ UNCHANGED <<srvVars, posted, log, sent, switchHist>>

\* The connection ends: the network breaks, the heartbeat check or another
\* connection of the user closes it, or the server rejects the token.
Drop ==
  /\ sock = "open"
  /\ OnClose
  /\ Broken
  \* The unread marks stay; a history that was asked for does not come.
  /\ unseen' = {m \in unseen : \E f \in unread : In(m, f)}
  /\ up' = <<>>
  /\ UNCHANGED viewVars

\* setTimeout calls connect().
Reconnect ==
  /\ sock = "closed" /\ timer
  /\ sock' = "connecting"
  /\ timer' = FALSE
  /\ UNCHANGED <<reconnectAttempts, listed, viewVars, up, down, srvVars, storeVars,
                 cast, loaded, missed, switchHist, unseen>>

\* logout() closes the socket and leaves the page, whose variables end with it;
\* what the server makes of its last frames is not followed.
Logout ==
  /\ sock # "gone"
  /\ sock' = "gone" /\ timer' = FALSE /\ reconnectAttempts' = 0 /\ listed' = FALSE
  /\ currentRoom' = NULL /\ target' = NULL /\ unread' = {} /\ ClearView
  /\ up' = <<>> /\ unseen' = {}
  /\ Broken

-----------------------------------------------------------------------------
(* The user.                                                               *)

\* switchRoom, by a click on a room or by removing the conversation shown.
SwitchRoom(r) ==
  /\ sock # "gone" /\ listed
  /\ currentRoom' = r
  /\ target' = NULL
  /\ ClearView
  /\ Request([type |-> "SWITCH_ROOM", roomId |-> r])
  /\ UNCHANGED <<sockVars, unread, down, srvVars, storeVars, cast, missed,
                 switchHist, unseen>>

\* selectPrivateChat: the unread count goes, whether the history can be requested
\* or not.  The page keeps its room.
SelectPrivateChat(f) ==
  /\ sock # "gone"
  /\ target' = f
  /\ ClearView
  /\ unread' = unread \ {f}
  /\ Request([type |-> "LOAD_PRIVATE_HISTORY", msgReceiver |-> f])
  /\ IF sock = "open" THEN UNCHANGED unseen ELSE Answered(f, {})
  /\ UNCHANGED <<sockVars, currentRoom, down, srvVars, storeVars, cast, missed,
                 switchHist>>

\* sendMsg: the frame names the conversation that is shown.
SendMsg(m) ==
  /\ sock = "open" /\ m \notin sent
  /\ Len(up) < MaxUp
  /\ sent' = sent \cup {m}
  /\ up' = Append(up,
       IF target # NULL
         THEN [type |-> "PRIVATE", msgid |-> m, msgReceiver |-> target]
         ELSE [type |-> "CHAT", msgid |-> m, roomId |-> currentRoom])
  /\ UNCHANGED <<sockVars, viewVars, down, srvVars, posted, log, queue, cast, loaded,
                 missed, switchHist, unseen>>

\* handleMessage, handlePrivateMessage: an id that was seen is ignored.  A room
\* message is shown in whatever view there is; a private one in its own view
\* only, elsewhere it is counted as unread.
HandleMessage ==
  /\ sock = "open" /\ down # <<>>
  /\ LET m == Head(down) IN
       /\ receivedMsgIds' = receivedMsgIds \cup {m}
       /\ IF m \in receivedMsgIds
            THEN UNCHANGED <<shown, unread, unseen>>
          ELSE IF Private(m) /\ (target = NULL \/ ~In(m, target))
            THEN /\ unread' = unread \cup {f \in Friends : In(m, f)}
                 /\ unseen' = unseen \cup {m}
                 /\ UNCHANGED shown
          ELSE /\ shown' = [shown EXCEPT ![m] = @ + 1]
               /\ unseen' = unseen \ {m}
               /\ UNCHANGED unread
  /\ down' = Tail(down)
  /\ UNCHANGED <<sockVars, currentRoom, target, up, srvVars, storeVars, cast, loaded,
                 missed, switchHist>>

-----------------------------------------------------------------------------
(* The server's handlers of the session.                                   *)

\* SWITCH_ROOM up to the join.  A broadcast in the room that is left may have
\* picked the session already.
HandleSwitch ==
  /\ Take("SWITCH_ROOM")
  /\ LET r == Head(up).roomId IN
       /\ roomOf' = r
       /\ memberOf' = MovedTo(r)
  /\ srvPc' = "history"
  /\ \E late \in SUBSET {m \in Messages : cast[m] = "due" /\ In(m, roomOf)} :
       cast' = [m \in Messages |->
         IF m \in late THEN "late"
         ELSE IF cast[m] = "due" /\ In(m, roomOf) THEN "may"
         ELSE cast[m]]
  /\ before' = Posted
  /\ cut' = FALSE
  /\ UNCHANGED <<sockVars, viewVars, down, storeVars, loaded, missed, unseen>>

\* The leave broadcast of SWITCH_ROOM throws and ends the handler.
HandleSwitchFault ==
  /\ Take("SWITCH_ROOM")
  /\ roomOf # NULL
  /\ memberOf' = memberOf \ {roomOf}
  /\ cast' = [m \in Messages |->
       IF cast[m] = "due" /\ In(m, roomOf) THEN "may" ELSE cast[m]]
  /\ cut' = TRUE
  /\ UNCHANGED <<sockVars, viewVars, down, roomOf, srvPc, storeVars, loaded, missed,
                 before, unseen>>

\* The newest messages of c are sent, up to the k-th; the rest, or the read, fails.
Replay(c, k) ==
  LET msgs == SubSeq(Recent(c), 1, k)
  IN  /\ Reply(msgs)
      /\ missed' = ToSet(log[c]) \ ToSet(msgs)

\* SWITCH_ROOM's history; the join broadcast or Redis may fail before it.
HandleHistory ==
  /\ srvPc = "history"
  /\ \E k \in 0..Len(Recent(roomOf)) : Replay(roomOf, k)
  /\ srvPc' = "idle"
  /\ UNCHANGED <<sockVars, viewVars, up, roomOf, memberOf, storeVars, cast, loaded,
                 switchHist, unseen>>

\* LOAD_PRIVATE_HISTORY.
HandleLoad ==
  /\ Take("LOAD_PRIVATE_HISTORY")
  /\ LET f == Head(up).msgReceiver IN
       \E k \in 0..Len(Recent(f)) : /\ Replay(f, k)
                                    /\ Answered(f, ToSet(SubSeq(Recent(f), 1, k)))
  /\ UNCHANGED <<sockVars, viewVars, srvVars, storeVars, cast, loaded, switchHist>>

\* CHAT goes to the session's room, whatever room the frame names: it is saved, or
\* not, and broadcast to the session itself if it is in the room set.  Without a room
\* the lookup of the room set throws; any broadcast may.
HandleChat ==
  /\ Take("CHAT")
  /\ LET m == Head(up).msgid IN
       /\ Push(roomOf, m)
       /\ \/ roomOf \in memberOf /\ Reply(<<m>>) /\ UNCHANGED missed
          \/ missed' = missed \cup {m} /\ UNCHANGED down
  /\ UNCHANGED <<sockVars, viewVars, srvVars, queue, sent, cast, loaded, switchHist,
                 unseen>>

\* PRIVATE is saved, or not, and echoed to the sender; the echo may fail.
HandlePrivate ==
  /\ Take("PRIVATE")
  /\ LET m == Head(up).msgid IN
       /\ Push(Head(up).msgReceiver, m)
       /\ \/ Reply(<<m>>) /\ UNCHANGED missed
          \/ missed' = missed \cup {m} /\ UNCHANGED down
  /\ UNCHANGED <<sockVars, viewVars, srvVars, queue, sent, cast, loaded, switchHist,
                 unseen>>

-----------------------------------------------------------------------------
(* Messages of other users.                                                *)

\* Another member's CHAT is saved, or not, and its broadcast starts: it is due to
\* come to an open session in the room set; to one that enters later it may come.
OtherChat(m, r) ==
  /\ m \notin sent
  /\ sent' = sent \cup {m}
  /\ Push(r, m)
  /\ cast' = [cast EXCEPT ![m] =
       IF sock = "open" /\ r \in memberOf THEN "due" ELSE "may"]
  /\ UNCHANGED <<sockVars, viewVars, up, down, srvVars, queue, loaded, missed,
                 switchHist, unseen>>

\* A friend's PRIVATE is saved, or not; it is about to be sent to the user's
\* session, or there is none and it is pushed to the offline queue, or not.
FriendPrivate(m, f) ==
  /\ m \notin sent
  /\ sent' = sent \cup {m}
  /\ Push(f, m)
  /\ IF sock = "open"
       THEN cast' = [cast EXCEPT ![m] = "due"] /\ UNCHANGED queue
       ELSE queue' \in {queue, <<m>> \o queue} /\ UNCHANGED cast
  /\ UNCHANGED <<sockVars, viewVars, up, down, srvVars, loaded, missed,
                 switchHist, unseen>>

\* The broadcast, or the private message, comes to the session.
CastReaches(m) ==
  /\ \/ cast[m] \in {"due", "late"}
     \/ cast[m] = "may" /\ \E r \in memberOf : In(m, r)
  /\ cast' = [cast EXCEPT ![m] = "none"]
  /\ Reply(<<m>>)
  /\ UNCHANGED <<sockVars, viewVars, up, srvVars, storeVars, loaded, missed,
                 switchHist, unseen>>

\* The broadcast ends without meeting the session.
CastPasses(m) ==
  /\ cast[m] = "may"
  /\ cast' = [cast EXCEPT ![m] = "none"]
  /\ UNCHANGED <<sockVars, viewVars, up, down, srvVars, storeVars, loaded, missed,
                 switchHist, unseen>>

\* The broadcast is cut short before it comes to the session.
CastFails(m) ==
  /\ cast[m] \in {"due", "late"}
  /\ cast' = [cast EXCEPT ![m] = "none"]
  /\ missed' = missed \cup {m}
  /\ UNCHANGED <<sockVars, viewVars, up, down, srvVars, storeVars, loaded,
                 switchHist, unseen>>

-----------------------------------------------------------------------------
Next ==
  \/ LoadRooms \/ Opened \/ Refused \/ Drop \/ Reconnect \/ Logout
  \/ \E r \in Rooms : SwitchRoom(r)
  \/ \E f \in Friends : SelectPrivateChat(f)
  \/ \E m \in Mine : SendMsg(m)
  \/ HandleMessage
  \/ HandleSwitch \/ HandleSwitchFault \/ HandleHistory \/ HandleLoad
  \/ HandleChat \/ HandlePrivate
  \/ \E m \in Theirs : \/ \E r \in Rooms : OtherChat(m, r)
                       \/ \E f \in Friends : FriendPrivate(m, f)
                       \/ CastReaches(m) \/ CastPasses(m) \/ CastFails(m)

Spec == Init /\ [][Next]_vars

\* The browser runs a timer that is due, and a connection attempt succeeds or
\* fails.  The user, the network and the server owe nothing.
Fairness == WF_vars(Reconnect) /\ WF_vars(Opened \/ Refused)

FairSpec == Spec /\ Fairness

-----------------------------------------------------------------------------
(* Properties.                                                             *)

\* The variables hold what the page's declarations and the control allow.
TypeOK ==
  /\ sock \in SockStates
  /\ timer \in BOOLEAN
  /\ reconnectAttempts \in 0..MaxReconnect
  /\ listed \in BOOLEAN
  /\ currentRoom \in Rooms \cup {NULL}
  /\ target \in Friends \cup {NULL}
  /\ receivedMsgIds \subseteq Messages
  /\ shown \in [Messages -> Nat]
  /\ unread \subseteq Friends
  /\ up \in Seq(Frames)
  /\ down \in Seq(Messages)
  /\ roomOf \in Rooms \cup {NULL}
  /\ memberOf \subseteq Rooms
  /\ srvPc \in {"idle", "history"}
  /\ posted \in [Logs -> SUBSET Messages]
  /\ log \in [Logs -> Seq(Messages)]
  /\ queue \in Seq(Messages)
  /\ cast \in [Messages -> CastStates]
  /\ sent \subseteq Messages
  /\ loaded \in BOOLEAN /\ cut \in BOOLEAN
  /\ missed \subseteq Messages /\ before \subseteq Messages
  /\ unseen \subseteq Messages

\* No view shows a message twice, whether it comes live, with a history, from the
\* offline queue of a reconnect or in several of these ways.
NoDoubleRender == \A m \in Messages : shown[m] <= 1

\* The conversation on the screen.
View == IF target # NULL THEN target ELSE currentRoom

\* Nothing is under way between the server and the page.
Quiet == /\ sock = "open" /\ up = <<>> /\ down = <<>> /\ srvPc = "idle"
         /\ \A m \in Messages : cast[m] = "none"

\* A view that was requested on the present connection is whole: when nothing is
\* under way, it shows every message of its list, typed here or by others,
\* whenever it was sent and however often the user has gone back and forth, but
\* those whose sending to the session failed and those that were older than the
\* newest Limit when the history was read.
ViewIsWhole ==
  Quiet /\ loaded /\ (target = NULL => ~cut) =>
    ToSet(log[View]) \subseteq missed \cup {m \in Messages : shown[m] > 0}

\* Once the server has handled the page's last SWITCH_ROOM, the room's view gets
\* messages of other rooms only if they were posted before that.
RoomsDoNotMix ==
  /\ target = NULL /\ currentRoom # NULL /\ currentRoom = roomOf /\ ~cut
  /\ \A i \in DOMAIN up : up[i].type # "SWITCH_ROOM"
  => \A m \in Messages : shown[m] > 0 => m \in before \/ In(m, currentRoom)

\* What is typed under a room is posted in that room, or in no room at all when
\* the session has none, unless the switch to the room was cut short; however
\* fast the user changes rooms and views, and across reconnects.
PostedWhereTyped == [][\A m \in Mine, r \in Rooms :
  In(m, r)' /\ ~In(m, r) => Head(up).roomId = r \/ cut]_vars

\* A private message that the page got while another view was open, saved or not
\* and across breaks and reconnects, stays marked as unread until the user clicks
\* on the friend; from then on until it has been shown the request or the answer
\* that will show it is on its way.  No claim is made once a click has failed to
\* bring the message: there was no connection or it broke before the answer was
\* through, the answer left the message out, as it was not saved or is older than
\* the newest Limit, or its sending failed.
PrivateIsNoticed == \A m \in unseen :
  \/ m \in ToSet(down)
  \/ \E f \in Friends : /\ In(m, f)
                        /\ \/ f \in unread
                           \/ [type |-> "LOAD_PRIVATE_HISTORY", msgReceiver |-> f]
                                \in ToSet(up)

\* The page has stopped trying.
GaveUp == sock = "closed" /\ ~timer /\ reconnectAttempts = MaxReconnect

\* A page that lost its connection gets it back, or gives up after MAX_RECONNECT
\* attempts in a row, or is left.
ReconnectsOrGivesUp == sock = "closed" ~> sock \in {"open", "gone"} \/ GaveUp

\* A page that shows a room is in that room on the server: when nothing is under
\* way, the session of an open socket has the room that the page shows.
ShownRoomIsJoined ==
  Quiet /\ target = NULL /\ currentRoom # NULL /\ ~cut => roomOf = currentRoom
===============================================================================
