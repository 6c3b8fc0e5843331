-------------------------- MODULE SessionRegistry --------------------------
(***************************************************************************)
(* The connection registry of the WebSocket endpoint (WSServPoint): the    *)
(* three concurrent maps userSessions, usernameToSession and rooms, and    *)
(* the handlers that update them.                                          *)
(*                                                                         *)
(* Each map is thread safe, a handler that updates several of them is not  *)
(* atomic: one action below is one access to a shared map, and pc[s],      *)
(* closePc[s] and reaperPc say where a handler stands between two.         *)
(*                                                                         *)
(*   pc[s]       onOpen(s), then onMessage(s), on the thread of session s  *)
(*   closePc[s]  onClose(s), on the thread of whoever closes s             *)
(*   reaperPc    the scheduled heartbeat check                             *)
(*                                                                         *)
(* A Session object is one connection: a reconnecting client is a new      *)
(* element of Sessions for the same user.  Messages, the history they are  *)
(* kept in and the clock are abstracted here (see RoomChat, Heartbeat).    *)
(***************************************************************************)
EXTENDS FiniteSets

CONSTANTS
  Sessions,            \* connections, each opened at most once
  Users,               \* user names carried by valid tokens
  Rooms,               \* room identifiers
  NULL                 \* Java's null

ASSUME NullAssumption == NULL \notin Sessions \cup Users \cup Rooms

VARIABLES
  conn,               \* the container's state of each connection
  userOf,             \* UserSession.username
  roomOf,             \* UserSession.roomId
  userSessions,       \* key set of the map userSessions
  usernameToSession,  \* the map usernameToSession
  rooms,              \* the map rooms; an absent room is an empty one
  pc,                 \* control of onOpen(s) and onMessage(s)
  argRoom,            \* their local roomId, newRoomId
  oldSession,         \* onOpen's local oldSession
  closePc,            \* control of onClose(s)
  closeRoom,          \* onClose's local roomId
  reaperPc,           \* control of the heartbeat check
  reaping,            \* the entry its removeIf is looking at
  raced,              \* history variable: users of whom two handlers overlapped
  cut,                \* history variable: sessions whose last SWITCH_ROOM ended
                      \* in its leave broadcast
  strayed             \* history variable: sessions that another handler than
                      \* their onClose unregistered, or that entered a room
                      \* after they were closed

mapVars    == <<userSessions, usernameToSession, rooms>>
sessVars   == <<userOf, roomOf>>
handVars   == <<pc, argRoom, oldSession>>
closeVars  == <<closePc, closeRoom>>
reaperVars == <<reaperPc, reaping>>
histVars   == <<raced, cut, strayed>>
vars == <<conn, mapVars, sessVars, handVars, closeVars, reaperVars, histVars>>

ConnStates == {"new", "open", "closed"}
OpenPcs    == {"closeOld", "awaitOld", "dropOld", "leaveOld", "register",
               "enter", "announce"}
SwitchPcs  == {"leave", "announceLeave", "setRoom", "join"}
HandlerPcs == {"new", "idle"} \cup OpenPcs \cup SwitchPcs
ClosePcs   == {"none", "remove", "current", "unmap", "leave", "done"}
ReaperPcs  == {"idle", "await", "remove"}

SessionOrNull == Sessions \cup {NULL}
UserOrNull    == Users \cup {NULL}
RoomOrNull    == Rooms \cup {NULL}

Init ==
  /\ conn = [s \in Sessions |-> "new"]
  /\ userOf = [s \in Sessions |-> NULL]
  /\ roomOf = [s \in Sessions |-> NULL]
  /\ userSessions = {}
  /\ usernameToSession = [u \in Users |-> NULL]
  /\ rooms = [r \in Rooms |-> {}]
  /\ pc = [s \in Sessions |-> "new"]
  /\ argRoom = [s \in Sessions |-> NULL]
  /\ oldSession = [s \in Sessions |-> NULL]
  /\ closePc = [s \in Sessions |-> "none"]
  /\ closeRoom = [s \in Sessions |-> NULL]
  /\ reaperPc = "idle"
  /\ reaping = NULL
  /\ raced = {} /\ cut = {} /\ strayed = {}

-----------------------------------------------------------------------------
(* Helpers.                                                                *)

\* Some handler of user u is under way.
Busy(u) == \E s \in Sessions :
  /\ userOf[s] = u
  /\ \/ pc[s] \notin {"new", "idle"}
     \/ closePc[s] \notin {"none", "done"}
     \/ reaping = s

\* A handler of user u starts; it races with one that is under way.
Starts(u) ==
  /\ raced' = IF Busy(u) THEN raced \cup {u} ELSE raced
  /\ UNCHANGED <<cut, strayed>>

\* Another handler than onClose(s) takes s out of userSessions, if it is there:
\* when onClose(s) comes to it, it finds nothing to clean up.
Unregister(s) ==
  /\ userSessions' = userSessions \ {s}
  /\ strayed' = strayed \cup ({s} \cap userSessions)
  /\ UNCHANGED <<raced, cut>>

\* rooms.computeIfAbsent(r).add(session), whether the session is still open or
\* not.
EnterRoom(s, r) ==
  /\ rooms' = [rooms EXCEPT ![r] = @ \cup {s}]
  /\ strayed' = IF conn[s] = "open" THEN strayed ELSE strayed \cup {s}
  /\ UNCHANGED <<raced, cut>>

\* The thread of s goes on at label; at "idle" its handler has returned and
\* the handler's locals are gone.
Goto(s, label) ==
  /\ pc' = [pc EXCEPT ![s] = label]
  /\ IF label = "idle"
       THEN /\ argRoom' = [argRoom EXCEPT ![s] = NULL]
            /\ oldSession' = [oldSession EXCEPT ![s] = NULL]
       ELSE UNCHANGED <<argRoom, oldSession>>

\* Session.close(): the first call marks the session closed and runs onClose
\* on the caller's thread, any later call returns at once.
Close(s) ==
  IF conn[s] = "open"
    THEN /\ conn' = [conn EXCEPT ![s] = "closed"]
         /\ closePc' = [closePc EXCEPT ![s] = "remove"]
    ELSE UNCHANGED <<conn, closePc>>

InSomeRoom(s) == \E r \in Rooms : s \in rooms[r]

-----------------------------------------------------------------------------
(* onOpen.                                                                 *)

\* The token is missing, invalid or has no user name: the session is closed.
Reject(s) ==
  /\ pc[s] = "new"
  /\ conn' = [conn EXCEPT ![s] = "closed"]
  /\ closePc' = [closePc EXCEPT ![s] = "remove"]
  /\ Goto(s, "idle")
  /\ UNCHANGED <<mapVars, sessVars, closeRoom, reaperVars, histVars>>

\* usernameToSession.put: the new session replaces the user's old one.
Connect(s, u, r) ==
  /\ pc[s] = "new"
  /\ Starts(u)
  /\ conn' = [conn EXCEPT ![s] = "open"]
  /\ userOf' = [userOf EXCEPT ![s] = u]
  /\ argRoom' = [argRoom EXCEPT ![s] = r]
  /\ oldSession' = [oldSession EXCEPT ![s] = usernameToSession[u]]
  /\ usernameToSession' = [usernameToSession EXCEPT ![u] = s]
  /\ pc' = [pc EXCEPT ![s] = IF usernameToSession[u] = NULL
                               THEN "register" ELSE "closeOld"]
  /\ UNCHANGED <<userSessions, rooms, roomOf, closeVars, reaperVars>>

\* if (oldSession.isOpen()) oldSession.close().
CloseOld(s) ==
  /\ pc[s] = "closeOld"
  /\ Close(oldSession[s])
  /\ Goto(s, IF conn[oldSession[s]] = "open" THEN "awaitOld" ELSE "dropOld")
  /\ UNCHANGED <<mapVars, sessVars, closeRoom, reaperVars, histVars>>

\* userSessions.remove(oldSession), once close() has returned.
DropOld(s) ==
  /\ \/ pc[s] = "dropOld"
     \/ pc[s] = "awaitOld" /\ closePc[oldSession[s]] = "done"
  /\ Unregister(oldSession[s])
  /\ Goto(s, IF oldSession[s] \in userSessions /\ argRoom[s] # NULL
               THEN "leaveOld" ELSE "register")
  /\ UNCHANGED <<conn, usernameToSession, rooms, sessVars, closeVars,
                 reaperVars>>

\* The old session is removed from the room that the NEW connection names.
LeaveOld(s) ==
  /\ pc[s] = "leaveOld"
  /\ rooms' = [rooms EXCEPT ![argRoom[s]] = @ \ {oldSession[s]}]
  /\ Goto(s, "register")
  /\ UNCHANGED <<conn, userSessions, usernameToSession, sessVars,
                 closeVars, reaperVars, histVars>>

\* userSessions.put of a new UserSession that carries the room id.
Register(s) ==
  /\ pc[s] = "register"
  /\ roomOf' = [roomOf EXCEPT ![s] = argRoom[s]]
  /\ userSessions' = userSessions \cup {s}
  /\ Goto(s, IF argRoom[s] # NULL THEN "enter" ELSE "idle")
  /\ UNCHANGED <<conn, usernameToSession, rooms, userOf, closeVars,
                 reaperVars, histVars>>

\* MUTANT: the old session is entered again, without a null check.
EnterWithOld(s) ==
  /\ pc[s] = "enter"
  /\ rooms' = [rooms EXCEPT ![argRoom[s]] = @ \cup {s, oldSession[s]}]
  /\ Goto(s, IF oldSession[s] = NULL THEN "announce" ELSE "idle")
  /\ UNCHANGED <<conn, userSessions, usernameToSession, sessVars,
                 closeVars, reaperVars, histVars>>

\* The session joins the room set; only a user without an old session is
\* announced.
Enter(s) ==
  /\ pc[s] = "enter"
  /\ EnterRoom(s, argRoom[s])
  /\ Goto(s, IF oldSession[s] = NULL THEN "announce" ELSE "idle")
  /\ UNCHANGED <<conn, userSessions, usernameToSession, sessVars,
                 closeVars, reaperVars>>

\* The join broadcast.  When it throws, the container closes the session.
Announce(s) ==
  /\ pc[s] = "announce"
  /\ \/ UNCHANGED <<conn, closePc>>
     \/ Close(s)
  /\ Goto(s, "idle")
  /\ UNCHANGED <<mapVars, sessVars, closeRoom, reaperVars, histVars>>

-----------------------------------------------------------------------------
(* onMessage, SWITCH_ROOM.                                                 *)

\* userSessions.get(session) found the session, its room id has been read.
SwitchRoom(s, r) ==
  /\ pc[s] = "idle"
  /\ conn[s] = "open"
  /\ s \in userSessions
  /\ Starts(userOf[s])
  /\ argRoom' = [argRoom EXCEPT ![s] = r]
  /\ pc' = [pc EXCEPT ![s] = IF roomOf[s] # NULL THEN "leave" ELSE "setRoom"]
  /\ UNCHANGED <<conn, mapVars, sessVars, oldSession, closeVars, reaperVars>>

\* MUTANT: the session stays in the room it leaves.
LeaveNothing(s) ==
  /\ pc[s] = "leave"
  /\ Goto(s, "announceLeave")
  /\ UNCHANGED <<conn, mapVars, sessVars, closeVars, reaperVars, histVars>>

\* oldRoom.remove(session).
Leave(s) ==
  /\ pc[s] = "leave"
  /\ rooms' = [rooms EXCEPT ![roomOf[s]] = @ \ {s}]
  /\ Goto(s, "announceLeave")
  /\ UNCHANGED <<conn, userSessions, usernameToSession, sessVars,
                 closeVars, reaperVars, histVars>>

\* The leave broadcast.
AnnounceLeave(s) ==
  /\ pc[s] = "announceLeave"
  /\ Goto(s, "setRoom")
  /\ UNCHANGED <<conn, mapVars, sessVars, closeVars, reaperVars, histVars>>

\* The leave broadcast throws an unchecked exception, which ends onMessage:
\* the session is in no room, its UserSession still names the one it left.
\* The container goes on with the session or closes it.
LeaveCut(s) ==
  /\ pc[s] = "announceLeave"
  /\ cut' = cut \cup {s}
  /\ Goto(s, "idle")
  /\ \/ UNCHANGED <<conn, closePc>>
     \/ Close(s)
  /\ UNCHANGED <<mapVars, sessVars, closeRoom, reaperVars, raced, strayed>>

\* MUTANT: a session that switches to the room it was in does not join it.
SetRoomSkipsSame(s) ==
  /\ pc[s] = "setRoom"
  /\ roomOf' = [roomOf EXCEPT ![s] = argRoom[s]]
  /\ Goto(s, IF argRoom[s] \notin {NULL, roomOf[s]} THEN "join" ELSE "idle")
  /\ UNCHANGED <<conn, mapVars, userOf, closeVars, reaperVars, histVars>>

\* us.setRoomId(newRoomId).
SetRoom(s) ==
  /\ pc[s] = "setRoom"
  /\ roomOf' = [roomOf EXCEPT ![s] = argRoom[s]]
  /\ cut' = cut \ {s}
  /\ Goto(s, IF argRoom[s] # NULL THEN "join" ELSE "idle")
  /\ UNCHANGED <<conn, mapVars, userOf, closeVars, reaperVars, raced, strayed>>

\* The session joins the new room; the broadcast and the history that follow
\* change none of the maps, whether they throw or not.
Join(s) ==
  /\ pc[s] = "join"
  /\ EnterRoom(s, argRoom[s])
  /\ Goto(s, "idle")
  /\ UNCHANGED <<conn, userSessions, usernameToSession, sessVars,
                 closeVars, reaperVars>>

-----------------------------------------------------------------------------
(* onClose.                                                                *)

\* The container closes the session: its reader sees the peer's close or the
\* end of the stream, or a thread that sends to it fails.
ContainerClose(s) ==
  /\ conn[s] = "open"
  /\ pc[s] = "idle" \/ s \in userSessions \/ InSomeRoom(s)
  /\ Starts(userOf[s])
  /\ Close(s)
  /\ UNCHANGED <<mapVars, sessVars, handVars, closeRoom, reaperVars>>

\* onClose(s) goes on at label; at "done" its local is gone.
CloseGoto(s, label) ==
  /\ closePc' = [closePc EXCEPT ![s] = label]
  /\ closeRoom' = [closeRoom EXCEPT ![s] = IF label = "done" THEN NULL ELSE @]

\* userSessions.remove(session); a session that was not there is ignored.
CloseRemove(s) ==
  /\ closePc[s] = "remove"
  /\ userSessions' = userSessions \ {s}
  /\ IF s \in userSessions
       THEN /\ closeRoom' = [closeRoom EXCEPT ![s] = roomOf[s]]
            /\ closePc' = [closePc EXCEPT ![s] = "current"]
       ELSE CloseGoto(s, "done")
  /\ UNCHANGED <<conn, usernameToSession, rooms, sessVars, handVars,
                 reaperVars, histVars>>

\* MUTANT: a session that was replaced is not taken out of its room.
CloseStaysIfReplaced(s) ==
  /\ closePc[s] = "current"
  /\ CloseGoto(s, IF usernameToSession[userOf[s]] = s THEN "unmap" ELSE "done")
  /\ UNCHANGED <<conn, mapVars, sessVars, handVars, reaperVars, histVars>>

\* MUTANT: the user is unmapped whichever session is the current one.
CloseAlwaysUnmaps(s) ==
  /\ closePc[s] = "current"
  /\ CloseGoto(s, "unmap")
  /\ UNCHANGED <<conn, mapVars, sessVars, handVars, reaperVars, histVars>>

\* current = usernameToSession.get(username), compared with the session.
CloseCurrent(s) ==
  /\ closePc[s] = "current"
  /\ CloseGoto(s, IF usernameToSession[userOf[s]] = s THEN "unmap" ELSE "leave")
  /\ UNCHANGED <<conn, mapVars, sessVars, handVars, reaperVars, histVars>>

\* usernameToSession.remove(username): whatever session it holds by now.
CloseUnmap(s) ==
  /\ closePc[s] = "unmap"
  /\ usernameToSession' = [usernameToSession EXCEPT ![userOf[s]] = NULL]
  /\ CloseGoto(s, "leave")
  /\ UNCHANGED <<conn, userSessions, rooms, sessVars, handVars, reaperVars,
                 histVars>>

\* MUTANT: the whole room is dropped with the session that leaves.
CloseDropsRoom(s) ==
  /\ closePc[s] = "leave"
  /\ IF closeRoom[s] # NULL
       THEN rooms' = [rooms EXCEPT ![closeRoom[s]] = {}]
       ELSE UNCHANGED rooms
  /\ CloseGoto(s, "done")
  /\ UNCHANGED <<conn, userSessions, usernameToSession, sessVars, handVars,
                 reaperVars, histVars>>

\* room.remove(session), and the leave broadcast if it was the current one.
CloseLeave(s) ==
  /\ closePc[s] = "leave"
  /\ IF closeRoom[s] # NULL
       THEN rooms' = [rooms EXCEPT ![closeRoom[s]] = @ \ {s}]
       ELSE UNCHANGED rooms
  /\ CloseGoto(s, "done")
  /\ UNCHANGED <<conn, userSessions, usernameToSession, sessVars, handVars,
                 reaperVars, histVars>>

-----------------------------------------------------------------------------
(* The heartbeat check.                                                    *)

\* removeIf finds an entry whose last heartbeat is too old and closes it.
Reap(s) ==
  /\ reaperPc = "idle"
  /\ s \in userSessions
  /\ Starts(userOf[s])
  /\ Close(s)
  /\ reaping' = s
  /\ reaperPc' = IF conn[s] = "open" THEN "await" ELSE "remove"
  /\ UNCHANGED <<mapVars, sessVars, handVars, closeRoom>>

\* MUTANT: the filter leaves the removal to onClose.
ReapKeepsEntry ==
  /\ \/ reaperPc = "remove"
     \/ reaperPc = "await" /\ closePc[reaping] = "done"
  /\ reaperPc' = "idle"
  /\ reaping' = NULL
  /\ UNCHANGED <<conn, mapVars, sessVars, handVars, closeVars, histVars>>

\* The filter answered true: removeIf removes the entry if it is still there.
ReapRemove ==
  /\ \/ reaperPc = "remove"
     \/ reaperPc = "await" /\ closePc[reaping] = "done"
  /\ Unregister(reaping)
  /\ reaperPc' = "idle"
  /\ reaping' = NULL
  /\ UNCHANGED <<conn, usernameToSession, rooms, sessVars, handVars,
                 closeVars>>

-----------------------------------------------------------------------------
\* A handler step of session s that is already under way.
OpenStep(s)   == \/ CloseOld(s) \/ DropOld(s) \/ LeaveOld(s)
                 \/ Register(s) \/ Enter(s) \/ Announce(s)
SwitchStep(s) == \/ Leave(s) \/ AnnounceLeave(s) \/ LeaveCut(s)
                 \/ SetRoom(s) \/ Join(s)
CloseStep(s)  == \/ CloseRemove(s) \/ CloseCurrent(s)
                 \/ CloseUnmap(s) \/ CloseLeave(s)

Next ==
  \/ \E s \in Sessions :
       \/ Reject(s)
       \/ \E u \in Users, r \in RoomOrNull : Connect(s, u, r)
       \/ OpenStep(s)
       \/ \E r \in RoomOrNull : SwitchRoom(s, r)
       \/ SwitchStep(s)
       \/ ContainerClose(s)
       \/ CloseStep(s)
       \/ Reap(s)
  \/ ReapRemove

Spec == Init /\ [][Next]_vars

\* A started handler runs on; the scheduler runs the heartbeat check again
\* and again.  Clients and the network owe nothing.
Fairness ==
  /\ \A s \in Sessions : /\ WF_vars(OpenStep(s))
                         /\ WF_vars(SwitchStep(s))
                         /\ WF_vars(CloseStep(s))
                         /\ WF_vars(Reap(s))
  /\ WF_vars(ReapRemove)

FairSpec == Spec /\ Fairness

-----------------------------------------------------------------------------
(* Properties.                                                             *)

\* The variables hold what the Java declarations and the control allow.
TypeOK ==
  /\ conn \in [Sessions -> ConnStates]
  /\ userOf \in [Sessions -> UserOrNull]
  /\ roomOf \in [Sessions -> RoomOrNull]
  /\ userSessions \in SUBSET Sessions
  /\ usernameToSession \in [Users -> SessionOrNull]
  /\ rooms \in [Rooms -> SUBSET Sessions]
  /\ pc \in [Sessions -> HandlerPcs]
  /\ argRoom \in [Sessions -> RoomOrNull]
  /\ oldSession \in [Sessions -> SessionOrNull]
  /\ closePc \in [Sessions -> ClosePcs]
  /\ closeRoom \in [Sessions -> RoomOrNull]
  /\ reaperPc \in ReaperPcs
  /\ reaping \in SessionOrNull
  /\ raced \in SUBSET UserOrNull
  /\ cut \in SUBSET Sessions /\ strayed \in SUBSET Sessions

\* Rooms are isolated: whatever the interleaving of handlers and whichever
\* broadcast throws, a session is never in two room sets at once, so it is served
\* by the new broadcasts of one room only.  (A broadcast that is under way may
\* have picked it before it moved: ChatClient's RoomsDoNotMix is about those.)
OneRoom == \A s \in Sessions : \A r1, r2 \in Rooms :
  s \in rooms[r1] /\ s \in rooms[r2] => r1 = r2

\* The room sets implement RoomMembership: whatever overlaps and fails, one
\* step moves at most one session, and a switch from one room to another
\* passes through a state where it is in neither.
Membership == INSTANCE RoomMembership WITH
  where <- [s \in Sessions |-> {r \in Rooms : s \in rooms[r]}]
MembershipSpec == Membership!Spec

\* However the handlers overlap, a registered session between two messages is
\* in the room its UserSession names, so that what it sends to the room is also
\* broadcast back to it; unless its last SWITCH_ROOM ended in the leave
\* broadcast.
RegisteredInItsRoom == \A s \in userSessions \ cut :
  pc[s] = "idle" /\ roomOf[s] # NULL => s \in rooms[roomOf[s]]

\* When nothing runs for a user of whom no two handlers have overlapped, the
\* three maps tell the same story of every one of the user's sessions:
\* registered exactly while open, current exactly while registered, in exactly
\* the room its UserSession names.
MapsAgree == \A s \in Sessions :
  userOf[s] \notin raced \cup {NULL} /\ ~Busy(userOf[s]) =>
    /\ s \in userSessions <=> conn[s] = "open"
    /\ s \in userSessions <=> usernameToSession[userOf[s]] = s
    /\ \A r \in Rooms :
         s \in rooms[r] <=> s \in userSessions \ cut /\ roomOf[s] = r

\* No handler of session s is under way.
Settled(s) == pc[s] \in {"new", "idle"} /\ closePc[s] \in {"none", "done"}

\* A closed and unregistered session that is still in a room set stays there
\* for good.  That happens in two ways only: a reconnect or the heartbeat check
\* unregistered it before its own onClose could, or onOpen or SWITCH_ROOM put
\* it into the room after it was closed.
StaleOnlyByRace == \A s \in Sessions :
  /\ conn[s] = "closed"
  /\ s \notin userSessions
  /\ Settled(s)
  /\ InSomeRoom(s)
  => s \in strayed

\* A closed session is eventually out of userSessions for good, even when
\* onOpen registers it after its onClose has already run.
ClosedIsReclaimed == \A s \in Sessions :
  (conn[s] = "closed") ~> [](s \notin userSessions)

=============================================================================
