------------------------------ MODULE RoomChat ------------------------------
(***************************************************************************)
(* One chat room of WSServPoint: CHAT messages are saved to the room's     *)
(* history and then broadcast to the room set, while sessions enter the    *)
(* room, read the recent history and leave, which is announced to the      *)
(* others with the list of the users who are in the room.                  *)
(*                                                                         *)
(* Every session has a thread that runs its handlers one after another.  A *)
(* broadcast iterates over the concurrent room set without a lock, one     *)
(* blocking sendText after the other; a second thread that sends to a      *)
(* session in the middle of a sendText gets an IllegalStateException,      *)
(* which broadcastToRoom does not catch.                                   *)
(*                                                                         *)
(* The history list keeps the 500 newest messages and is read 50 at a      *)
(* time; here a message has the number under which it was pushed, and the  *)
(* last Limit numbers are what a read returns.                             *)
(***************************************************************************)
EXTENDS Integers

CONSTANTS
  Sessions,   \* connections, each with the thread that runs its handlers
  Messages,   \* CHAT messages, each sent at most once
  Limit,      \* how many messages getRoomMessages returns: 50
  NULL

\* What a handler is about besides a CHAT message: onOpen of a new user and of
\* one who reconnects, SWITCH_ROOM into and out of the room, onClose.
Kinds == {"entered", "back", "switched", "left", "closed"}

ASSUME LimitAssumption == Limit \in Nat \ {0}
ASSUME MessageAssumption == Messages \cap Kinds = {} /\ NULL \notin Messages \cup Kinds
ASSUME SessionAssumption == NULL \notin Sessions

VARIABLES
  room,     \* rooms.get(roomId)
  savedAt,  \* number under which a message was pushed, 0 before that
  saved,    \* how many messages were pushed so far
  sent,     \* messages that were taken up so far
  pc,       \* control of each session's thread
  cur,      \* what its handler is about: a message or a kind
  list,     \* the user list its announcement carries
  todo,     \* sessions its broadcast still has to send to
  replay,   \* history messages it still has to send to its own session
  writing,  \* the session its sendText is writing to
  got,      \* messages a session received since it last entered
  lost,     \* history variable: messages whose sending to it was abandoned
  readAt,   \* history variable: value of saved when it read the history, or -1
  shown,    \* the last user list a member received since it entered
  behind,   \* history variable: members that a change was not announced to,
            \* or whose last list had been overtaken by a change
  late      \* history variable: sessions whose handler made its list before the
            \* last change

histVars == <<savedAt, saved, sent>>
ctlVars  == <<pc, cur, todo, writing>>
recvVars == <<replay, got, lost, readAt>>
listVars == <<shown, behind, late>>
vars == <<room, histVars, ctlVars, list, recvVars, listVars>>

Pcs == {"new", "read", "replay", "announce", "listed", "cast", "idle", "save",
        "leave", "out", "gone"}

Init ==
  /\ room = {}
  /\ savedAt = [m \in Messages |-> 0]
  /\ saved = 0
  /\ sent = {}
  /\ pc = [s \in Sessions |-> "new"]
  /\ cur = [s \in Sessions |-> NULL]
  /\ todo = [s \in Sessions |-> {}]
  /\ replay = [s \in Sessions |-> {}]
  /\ writing = [s \in Sessions |-> NULL]
  /\ got = [s \in Sessions |-> {}]
  /\ lost = [s \in Sessions |-> {}]
  /\ readAt = [s \in Sessions |-> -1]
  /\ list = [s \in Sessions |-> {}]
  /\ shown = [s \in Sessions |-> {}]
  /\ behind = {}
  /\ late = {}

-----------------------------------------------------------------------------
(* Helpers.                                                                *)

Goto(s, label) == pc' = [pc EXCEPT ![s] = label]

\* No thread is in the middle of a sendText to t.
Free(t) == \A b \in Sessions : writing[b] # t

\* Where a handler goes on once its broadcast of c is over.
AfterCast(c) == CASE c = "switched" -> "read"
                  [] c = "left"     -> "out"
                  [] c = "closed"   -> "gone"
                  [] OTHER          -> "idle"

\* Where it may end when the broadcast of c throws: onOpen's exception closes
\* the session, onMessage's does or only ends the handler.  Then a session that
\* switched here has not read the history, and one that was about to leave is
\* out of the room set while its UserSession still names the room.
AfterFault(c) == CASE c = "entered" -> {"leave"}
                   [] c = "closed"  -> {"gone"}
                   [] OTHER         -> {"idle", "leave"}

\* The connection is closed, though onClose may still have to run.
Closed(s) == pc[s] \in {"leave", "gone"} \/ cur[s] = "closed"

\* onOpen announces a new user after the history; SWITCH_ROOM did it before.
AfterReplay(c) == IF c = "entered" THEN "announce" ELSE "idle"

\* The room set has changed; of a user who reconnects nothing is announced, and
\* nothing of a session that was replaced.
Changed(s, kind) ==
  /\ behind' = IF kind \in {"back", NULL} THEN room' ELSE behind \ {s}
  /\ shown' = [shown EXCEPT ![s] = {}]
  /\ late' = {b \in Sessions : pc[b] \in {"listed", "cast"} /\ cur[b] \in Kinds}

\* MUTANT: lrange ends one element early.
RecentButOne == {m \in Messages : savedAt[m] > 0 /\ savedAt[m] + Limit > saved + 1}

\* What getRoomMessages(roomId, Limit) returns.
Recent == {m \in Messages : savedAt[m] > 0 /\ savedAt[m] + Limit > saved}

-----------------------------------------------------------------------------
(* Entering, reading the history, leaving.                                 *)

\* rooms.computeIfAbsent(roomId).add(s).  A broadcast under way may or may not
\* come across the new element.
Enter(s, kind, label) ==
  /\ room' = room \cup {s}
  /\ \E B \in SUBSET {b \in Sessions : pc[b] = "cast"} :
       todo' = [b \in Sessions |-> IF b \in B THEN todo[b] \cup {s} ELSE todo[b]]
  /\ cur' = [cur EXCEPT ![s] = kind]
  /\ Goto(s, label)
  /\ got' = [got EXCEPT ![s] = {}]
  /\ lost' = [lost EXCEPT ![s] = {}]
  /\ readAt' = [readAt EXCEPT ![s] = -1]
  /\ Changed(s, kind)
  /\ UNCHANGED <<histVars, writing, list, replay>>

\* onOpen with a room id, of a new user or of one who reconnects.
OpenIn(s) == pc[s] = "new" /\ \E kind \in {"entered", "back"} : Enter(s, kind, "read")

\* SWITCH_ROOM into the room.
SwitchIn(s) == pc[s] \in {"new", "out"} /\ Enter(s, "switched", "announce")

\* getRoomMessages; when Redis fails, the exception is logged and the handler
\* goes on without the history.
Read(s) ==
  /\ pc[s] = "read"
  /\ \/ /\ replay' = [replay EXCEPT ![s] = Recent]
        /\ readAt' = [readAt EXCEPT ![s] = saved]
     \/ UNCHANGED <<replay, readAt>>
  /\ Goto(s, "replay")
  /\ UNCHANGED <<room, histVars, cur, todo, writing, got, lost, list, listVars>>

\* sendText of the next history message to its own session starts...
BeginReplay(s) ==
  /\ pc[s] = "replay" /\ replay[s] # {} /\ writing[s] = NULL
  /\ Free(s)
  /\ writing' = [writing EXCEPT ![s] = s]
  /\ UNCHANGED <<room, histVars, pc, cur, todo, recvVars, list, listVars>>

\* ...and returns.  The oldest message comes first.
EndReplay(s) ==
  /\ pc[s] = "replay" /\ writing[s] = s
  /\ \E m \in replay[s] :
       /\ \A n \in replay[s] : savedAt[m] <= savedAt[n]
       /\ got' = [got EXCEPT ![s] = @ \cup {m}]
       /\ replay' = [replay EXCEPT ![s] = @ \ {m}]
  /\ writing' = [writing EXCEPT ![s] = NULL]
  /\ UNCHANGED <<room, histVars, pc, cur, todo, lost, readAt, list, listVars>>

\* Another thread is writing to the session: the rest of the history is lost.
ReplayFault(s) ==
  /\ pc[s] = "replay" /\ replay[s] # {} /\ writing[s] = NULL
  /\ ~Free(s)
  /\ lost' = [lost EXCEPT ![s] = @ \cup replay[s]]
  /\ replay' = [replay EXCEPT ![s] = {}]
  /\ UNCHANGED <<room, histVars, ctlVars, got, readAt, list, listVars>>

\* The loop over the history is over.
ReplayDone(s) ==
  /\ pc[s] = "replay" /\ replay[s] = {}
  /\ Goto(s, AfterReplay(cur[s]))
  /\ UNCHANGED <<room, histVars, cur, todo, writing, recvVars, list, listVars>>

\* room.remove(s).  A broadcast under way may or may not still come across it.
Exit(s, kind, label) ==
  /\ room' = room \ {s}
  /\ \E B \in SUBSET {b \in Sessions : pc[b] = "cast" /\ writing[b] # s} :
       todo' = [b \in Sessions |-> IF b \in B THEN todo[b] \ {s} ELSE todo[b]]
  /\ cur' = [cur EXCEPT ![s] = kind]
  /\ Goto(s, label)
  /\ Changed(s, kind)
  /\ UNCHANGED <<histVars, writing, list, recvVars>>

\* SWITCH_ROOM out of the room.
SwitchOut(s) == pc[s] = "idle" /\ Exit(s, "left", "announce")

\* onClose; only the user's current session is announced.
CloseOut(s) ==
  /\ pc[s] \in {"idle", "leave"}
  /\ Exit(s, "closed", "announce") \/ Exit(s, NULL, "gone")

-----------------------------------------------------------------------------
(* CHAT.                                                                   *)

\* onMessage takes up CHAT message m of a session whose UserSession names the
\* room.
Chat(s, m) ==
  /\ pc[s] = "idle"
  /\ m \notin sent
  /\ sent' = sent \cup {m}
  /\ cur' = [cur EXCEPT ![s] = m]
  /\ Goto(s, "save")
  /\ UNCHANGED <<room, savedAt, saved, todo, writing, recvVars, list, listVars>>

\* saveRoomMessage; when Redis fails, the message is broadcast all the same.
Save(s) ==
  /\ pc[s] = "save"
  /\ \/ /\ saved' = saved + 1
        /\ savedAt' = [savedAt EXCEPT ![cur[s]] = saved + 1]
     \/ UNCHANGED <<saved, savedAt>>
  /\ Goto(s, "announce")
  /\ UNCHANGED <<room, sent, cur, todo, writing, recvVars, list, listVars>>

-----------------------------------------------------------------------------
(* broadcastToRoom.                                                        *)

\* The loop over the room set starts.
StartCast(s) ==
  /\ pc[s] = IF cur[s] \in Kinds THEN "listed" ELSE "announce"
  /\ todo' = [todo EXCEPT ![s] = room]
  /\ Goto(s, "cast")
  /\ UNCHANGED <<room, histVars, cur, writing, recvVars, list, listVars>>

\* sendText to an open session starts...
BeginSend(s, t) ==
  /\ pc[s] = "cast" /\ writing[s] = NULL /\ t \in todo[s]
  /\ Free(t) /\ ~Closed(t)
  /\ writing' = [writing EXCEPT ![s] = t]
  /\ UNCHANGED <<room, histVars, pc, cur, todo, recvVars, list, listVars>>

\* MUTANT: the list is made before the user enters or leaves.
ListBefore(s) ==
  /\ pc[s] = "announce" /\ cur[s] \in Kinds
  /\ list' = [list EXCEPT ![s] =
       IF cur[s] \in {"left", "closed"} THEN room \cup {s} ELSE room \ {s}]
  /\ Goto(s, "listed")
  /\ UNCHANGED <<room, histVars, cur, todo, writing, recvVars, listVars>>

\* getUserList: each session is of another user.
ListUsers(s) ==
  /\ pc[s] = "announce" /\ cur[s] \in Kinds
  /\ list' = [list EXCEPT ![s] = room]
  /\ Goto(s, "listed")
  /\ UNCHANGED <<room, histVars, cur, todo, writing, recvVars, listVars>>

\* MUTANT: SYSTEM messages are received as messages of the history.
EndSendAny(s) ==
  /\ pc[s] = "cast" /\ writing[s] # NULL
  /\ got' = [got EXCEPT ![writing[s]] = @ \cup {cur[s]}]
  /\ todo' = [todo EXCEPT ![s] = @ \ {writing[s]}]
  /\ writing' = [writing EXCEPT ![s] = NULL]
  /\ UNCHANGED <<room, histVars, pc, cur, replay, lost, readAt, list, listVars>>

\* ...and returns: the message or the announcement has arrived.
EndSend(s) ==
  /\ pc[s] = "cast" /\ writing[s] # NULL
  /\ got' = [got EXCEPT ![writing[s]] = @ \cup ({cur[s]} \cap Messages)]
  /\ todo' = [todo EXCEPT ![s] = @ \ {writing[s]}]
  /\ writing' = [writing EXCEPT ![s] = NULL]
  /\ IF cur[s] \in Kinds /\ writing[s] \in room
       THEN /\ shown' = [shown EXCEPT ![writing[s]] = list[s]]
            /\ behind' = IF s \in late THEN behind \cup {writing[s]}
                                       ELSE behind \ {writing[s]}
            /\ UNCHANGED late
       ELSE UNCHANGED listVars
  /\ UNCHANGED <<room, histVars, pc, cur, list, replay, lost, readAt>>

\* A session that is not open is skipped.
Skip(s, t) ==
  /\ pc[s] = "cast" /\ writing[s] = NULL /\ t \in todo[s]
  /\ Closed(t)
  /\ todo' = [todo EXCEPT ![s] = @ \ {t}]
  /\ UNCHANGED <<room, histVars, pc, cur, writing, recvVars, list, listVars>>

\* Another thread is writing to t, or t is closed between isOpen() and the
\* send: the exception ends the handler, and the rest of the room does not get
\* the message.
SendFault(s, t) ==
  /\ pc[s] = "cast" /\ writing[s] = NULL /\ t \in todo[s]
  /\ ~Free(t) \/ Closed(t)
  /\ lost' = [u \in Sessions |->
       IF u \in todo[s] THEN lost[u] \cup ({cur[s]} \cap Messages) ELSE lost[u]]
  /\ todo' = [todo EXCEPT ![s] = {}]
  /\ \E label \in AfterFault(cur[s]) : Goto(s, label)
  /\ cur' = [cur EXCEPT ![s] = NULL]
  /\ behind' = IF cur[s] \in Kinds THEN behind \cup (todo[s] \cap room) ELSE behind
  /\ list' = [list EXCEPT ![s] = {}]
  /\ late' = late \ {s}
  /\ UNCHANGED <<room, histVars, writing, replay, got, readAt, shown>>

\* Everyone in the room has been sent the message.
EndCast(s) ==
  /\ pc[s] = "cast" /\ writing[s] = NULL /\ todo[s] = {}
  /\ Goto(s, AfterCast(cur[s]))
  /\ cur' = [cur EXCEPT ![s] = NULL]
  /\ list' = [list EXCEPT ![s] = {}]
  /\ late' = late \ {s}
  /\ UNCHANGED <<room, histVars, todo, writing, recvVars, shown, behind>>

-----------------------------------------------------------------------------
Next == \E s \in Sessions :
  \/ OpenIn(s) \/ SwitchIn(s) \/ Read(s)
  \/ BeginReplay(s) \/ EndReplay(s) \/ ReplayFault(s) \/ ReplayDone(s)
  \/ SwitchOut(s) \/ CloseOut(s)
  \/ \E m \in Messages : Chat(s, m)
  \/ Save(s) \/ ListUsers(s) \/ StartCast(s)
  \/ \E t \in Sessions : BeginSend(s, t) \/ Skip(s, t) \/ SendFault(s, t)
  \/ EndSend(s) \/ EndCast(s)

Spec == Init /\ [][Next]_vars

-----------------------------------------------------------------------------
(* Properties.                                                             *)

\* The variables hold what the Java declarations and the control allow.
TypeOK ==
  /\ room \in SUBSET Sessions
  /\ savedAt \in [Messages -> Nat]
  /\ saved \in Nat
  /\ sent \in SUBSET Messages
  /\ pc \in [Sessions -> Pcs]
  /\ cur \in [Sessions -> Messages \cup Kinds \cup {NULL}]
  /\ todo \in [Sessions -> SUBSET Sessions]
  /\ replay \in [Sessions -> SUBSET Messages]
  /\ writing \in [Sessions -> Sessions \cup {NULL}]
  /\ got \in [Sessions -> SUBSET Messages]
  /\ lost \in [Sessions -> SUBSET Messages]
  /\ readAt \in [Sessions -> Nat \cup {-1}]
  /\ list \in [Sessions -> SUBSET Sessions]
  /\ shown \in [Sessions -> SUBSET Sessions]
  /\ behind \in SUBSET Sessions /\ late \in SUBSET Sessions

\* A handler is still about to send m to t.
Pending(m, t) == \E b \in Sessions :
  /\ cur[b] = m
  /\ \/ pc[b] = "announce"
     \/ pc[b] = "cast" /\ t \in todo[b]

\* Nothing falls between the history and the live messages: an open member that
\* has read the history gets every saved message from the Limit before its read
\* on, unless a broadcast or replay to it was cut short; there is no moment in
\* which a message is too late for the history and too early for the room set.
NoGap == \A t \in room : ~Closed(t) /\ readAt[t] >= 0 =>
  \A m \in Messages : savedAt[m] > 0 /\ savedAt[m] + Limit > readAt[t] =>
    m \in got[t] \cup replay[t] \cup lost[t] \/ Pending(m, t)

\* No handler runs.
Quiet == \A s \in Sessions : pc[s] \in {"new", "idle", "out", "gone"}

\* When no handler runs, every member has been told who is in the room, unless
\* the last change was not announced to it, or the last list it received had
\* been overtaken by a later change: a list is made after the change that it
\* announces, and reaches those who entered while it was being sent.
ListIsCurrent == Quiet => \A t \in room \ behind : shown[t] = room

\* A saved CHAT message is broadcast to all members of the room: when no
\* handler runs, every member has the messages saved since it read the history.
Broadcast == Quiet =>
  \A t \in room : readAt[t] >= 0 =>
    \A m \in Messages : savedAt[m] > readAt[t] => m \in got[t]
=============================================================================
