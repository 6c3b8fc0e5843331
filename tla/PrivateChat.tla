----------------------------- MODULE PrivateChat -----------------------------
(***************************************************************************)
(* Private messages to one user: sendPrivate looks the user up in          *)
(* userSessions and sends, or puts the message into the user's offline     *)
(* queue, while the user connects, pulls the queue and disconnects.        *)
(*                                                                         *)
(* The handlers of PRIVATE messages run on the threads of their senders,   *)
(* one for each message here.  The registry is that of SessionRegistry,    *)
(* seen by one user and without rooms: one action is one access to a       *)
(* shared map, so that two connections of the user, and the onClose of a   *)
(* third, interleave as they do there.                                     *)
(***************************************************************************)
EXTENDS FiniteSets

CONSTANTS
  Sessions,    \* the user's connections, each opened at most once
  Messages,    \* PRIVATE messages to the user, each sent at most once
  NULL,
  SendFaults,  \* may sendText throw an unchecked exception?
  StoreFaults  \* may a Redis command throw?

ASSUME NullAssumption == NULL \notin Sessions
ASSUME FlagAssumption == SendFaults \in BOOLEAN /\ StoreFaults \in BOOLEAN

VARIABLES
  conn,        \* the container's state of each connection
  registered,  \* the user's entries in userSessions
  current,     \* usernameToSession.get(user)
  pc,          \* control of onOpen
  old,         \* onOpen's local oldSession
  closePc,     \* control of onClose
  pulled,      \* onOpen's offlineMsgs still to send
  stage,       \* control of the handler of each message
  dest,        \* the session its loop over userSessions found
  queue,       \* chat:offline:user
  got,         \* messages each connection received
  after,       \* history variable: messages not looked up yet when it registered
  held,        \* history variable: the queue when it was pulled
  strayed      \* history variable: sessions that another session's onClose
               \* unmapped, or whose closing was pending while a third connected

openVars  == <<pc, old>>
connVars  == <<conn, registered, current, openVars, closePc>>
sendVars  == <<stage, dest>>
histVars  == <<after, held, strayed>>
vars == <<connVars, pulled, sendVars, queue, got, histVars>>

OpenPcs  == {"closeOld", "awaitOld", "dropOld", "register"}
Pcs      == {"new"} \cup OpenPcs \cup {"pull", "replay", "idle", "cut"}
ClosePcs == {"none", "remove", "current", "unmap", "done"}
Stages   == {"unsent", "lookup", "send", "enqueue", "done", "failed"}

Init ==
  /\ conn = [t \in Sessions |-> "new"]
  /\ registered = {}
  /\ current = NULL
  /\ pc = [t \in Sessions |-> "new"]
  /\ old = [t \in Sessions |-> NULL]
  /\ closePc = [t \in Sessions |-> "none"]
  /\ pulled = [t \in Sessions |-> {}]
  /\ stage = [m \in Messages |-> "unsent"]
  /\ dest = [m \in Messages |-> NULL]
  /\ queue = {}
  /\ got = [t \in Sessions |-> {}]
  /\ after = [t \in Sessions |-> {}]
  /\ held = [t \in Sessions |-> {}]
  /\ strayed = {}

GoTo(m, label) == stage' = [stage EXCEPT ![m] = label]

\* The old sessions that an onOpen has read and not closed yet.
Pending == {old[t] : t \in {u \in Sessions : pc[u] = "closeOld"}}

-----------------------------------------------------------------------------
(* onOpen.                                                                 *)

\* usernameToSession.put: the new session replaces the user's old one.
Connect(t) ==
  /\ pc[t] = "new"
  /\ conn' = [conn EXCEPT ![t] = "open"]
  /\ current' = t
  /\ old' = [old EXCEPT ![t] = current]
  /\ pc' = [pc EXCEPT ![t] = IF current = NULL THEN "register" ELSE "closeOld"]
  /\ strayed' = strayed \cup Pending
  /\ UNCHANGED <<registered, closePc, pulled, sendVars, queue, got, after, held>>

\* Session.close(): the first call marks the session closed and runs onClose,
\* any later call returns at once.
Close(t) ==
  IF conn[t] = "open"
    THEN /\ conn' = [conn EXCEPT ![t] = "closed"]
         /\ closePc' = [closePc EXCEPT ![t] = "remove"]
    ELSE UNCHANGED <<conn, closePc>>

\* MUTANT: the old session is neither closed nor removed.
CloseOldForgotten(t) ==
  /\ pc[t] = "closeOld"
  /\ pc' = [pc EXCEPT ![t] = "register"]
  /\ UNCHANGED <<conn, registered, current, old, closePc, pulled, sendVars,
                 queue, got, histVars>>

\* if (oldSession.isOpen()) oldSession.close().
CloseOld(t) ==
  /\ pc[t] = "closeOld"
  /\ Close(old[t])
  /\ pc' = [pc EXCEPT ![t] = IF conn[old[t]] = "open" THEN "awaitOld" ELSE "dropOld"]
  /\ UNCHANGED <<registered, current, old, pulled, sendVars, queue, got, histVars>>

\* userSessions.remove(oldSession), once close() has returned.
DropOld(t) ==
  /\ \/ pc[t] = "dropOld"
     \/ pc[t] = "awaitOld" /\ closePc[old[t]] = "done"
  /\ registered' = registered \ {old[t]}
  /\ pc' = [pc EXCEPT ![t] = "register"]
  /\ UNCHANGED <<conn, current, old, closePc, pulled, sendVars, queue, got, histVars>>

\* MUTANT: the old session is put back, without a null check.
RegisterWithOld(t) ==
  /\ pc[t] = "register"
  /\ pc' = [pc EXCEPT ![t] = "pull"]
  /\ registered' = registered \cup {t, old[t]}
  /\ old' = [old EXCEPT ![t] = NULL]
  /\ after' = [after EXCEPT ![t] =
       {m \in Messages : stage[m] \in {"unsent", "lookup"}}]
  /\ UNCHANGED <<conn, current, closePc, pulled, sendVars, queue, got, held, strayed>>

\* userSessions.put, whether the session is still open or not.  Only the join
\* broadcast to a room looks at oldSession after that.
Register(t) ==
  /\ pc[t] = "register"
  /\ pc' = [pc EXCEPT ![t] = "pull"]
  /\ registered' = registered \cup {t}
  /\ old' = [old EXCEPT ![t] = NULL]
  /\ after' = [after EXCEPT ![t] =
       {m \in Messages : stage[m] \in {"unsent", "lookup"}}]
  /\ UNCHANGED <<conn, current, closePc, pulled, sendVars, queue, got, held, strayed>>

\* getOfflineMessages returns the whole queue and leaves it as it is; when
\* Redis fails, onOpen goes on without.
Pull(t) ==
  /\ pc[t] = "pull"
  /\ \/ /\ pulled' = [pulled EXCEPT ![t] = queue]
        /\ held' = [held EXCEPT ![t] = queue]
        /\ pc' = [pc EXCEPT ![t] = "replay"]
     \/ /\ StoreFaults
        /\ pc' = [pc EXCEPT ![t] = "cut"]
        /\ UNCHANGED <<pulled, held>>
  /\ UNCHANGED <<conn, registered, current, old, closePc, sendVars, queue, got,
                 after, strayed>>

\* The next offline message is sent; a closed session is skipped.
Replay(t) ==
  /\ pc[t] = "replay" /\ pulled[t] # {}
  /\ \E m \in pulled[t] :
       /\ pulled' = [pulled EXCEPT ![t] = @ \ {m}]
       /\ got' = IF conn[t] = "open" THEN [got EXCEPT ![t] = @ \cup {m}] ELSE got
  /\ UNCHANGED <<connVars, sendVars, queue, histVars>>

\* The loop is over, or cut short by an unchecked exception.
ReplayDone(t) ==
  /\ pc[t] = "replay"
  /\ \/ pulled[t] = {} /\ pc' = [pc EXCEPT ![t] = "idle"]
     \/ SendFaults /\ pc' = [pc EXCEPT ![t] = "cut"]
  /\ pulled' = [pulled EXCEPT ![t] = {}]
  /\ UNCHANGED <<conn, registered, current, old, closePc, sendVars, queue, got,
                 histVars>>

-----------------------------------------------------------------------------
(* onClose and the heartbeat check.                                        *)

\* The container, a failed send or the heartbeat check closes the connection:
\* before it is registered none of them knows it.
Break(t) ==
  /\ conn[t] = "open" /\ pc[t] \notin OpenPcs
  /\ Close(t)
  /\ UNCHANGED <<registered, current, openVars, pulled, sendVars, queue, got, histVars>>

\* userSessions.remove(session); a session that was not there is ignored.
CloseRemove(t) ==
  /\ closePc[t] = "remove"
  /\ registered' = registered \ {t}
  /\ closePc' = [closePc EXCEPT ![t] = IF t \in registered THEN "current" ELSE "done"]
  /\ UNCHANGED <<conn, current, openVars, pulled, sendVars, queue, got, histVars>>

\* current = usernameToSession.get(username), compared with the session.
CloseCurrent(t) ==
  /\ closePc[t] = "current"
  /\ closePc' = [closePc EXCEPT ![t] = IF current = t THEN "unmap" ELSE "done"]
  /\ UNCHANGED <<conn, registered, current, openVars, pulled, sendVars, queue, got,
                 histVars>>

\* usernameToSession.remove(username): whatever session it holds by now.
CloseUnmap(t) ==
  /\ closePc[t] = "unmap"
  /\ current' = NULL
  /\ closePc' = [closePc EXCEPT ![t] = "done"]
  /\ strayed' = strayed \cup ({current} \ {t, NULL})
  /\ UNCHANGED <<conn, registered, openVars, pulled, sendVars, queue, got, after, held>>

\* The heartbeat check takes out a closed session that is (still, or again)
\* registered.
Reclaim(t) ==
  /\ conn[t] = "closed" /\ t \in registered
  /\ registered' = registered \ {t}
  /\ UNCHANGED <<conn, current, openVars, closePc, pulled, sendVars, queue, got,
                 histVars>>

-----------------------------------------------------------------------------
(* The handler of a PRIVATE message.                                       *)

\* onMessage takes it up and saves it in the history of the two users (see
\* ChatClient); whether or not that fails, the message is sent.
Take(m) ==
  /\ stage[m] = "unsent"
  /\ GoTo(m, "lookup")
  /\ UNCHANGED <<connVars, pulled, dest, queue, got, histVars>>

\* The loop over userSessions stops at the first entry of the user.
Lookup(m) ==
  /\ stage[m] = "lookup"
  /\ \/ \E t \in registered : /\ dest' = [dest EXCEPT ![m] = t]
                              /\ GoTo(m, "send")
     \/ registered = {} /\ GoTo(m, "enqueue") /\ UNCHANGED dest
  /\ UNCHANGED <<connVars, pulled, queue, got, histVars>>

\* MUTANT: found is set before sendText is tried.
SendCountsAsFound(m) ==
  /\ stage[m] = "send"
  /\ \/ /\ conn[dest[m]] = "open"
        /\ got' = [got EXCEPT ![dest[m]] = @ \cup {m}]
        /\ GoTo(m, "done")
     \/ /\ conn[dest[m]] = "closed"
        /\ GoTo(m, "done")
        /\ UNCHANGED got
     \/ SendFaults /\ GoTo(m, "failed") /\ UNCHANGED got
  /\ UNCHANGED <<connVars, pulled, dest, queue, histVars>>

\* sendText reaches an open session.  A closed one answers with an IOException,
\* and the message counts as not delivered; an unchecked exception, of a closed
\* session or of one that another thread is writing to, ends the handler.  The echo
\* to the sender that follows reaches the sender's sessions only.
Send(m) ==
  /\ stage[m] = "send"
  /\ \/ /\ conn[dest[m]] = "open"
        /\ got' = [got EXCEPT ![dest[m]] = @ \cup {m}]
        /\ GoTo(m, "done")
     \/ /\ conn[dest[m]] = "closed"
        /\ GoTo(m, "enqueue")
        /\ UNCHANGED got
     \/ SendFaults /\ GoTo(m, "failed") /\ UNCHANGED got
  /\ UNCHANGED <<connVars, pulled, dest, queue, histVars>>

\* saveOfflineMessage; when Redis fails, the message is logged as such.
Enqueue(m) ==
  /\ stage[m] = "enqueue"
  /\ \/ queue' = queue \cup {m} /\ GoTo(m, "done")
     \/ StoreFaults /\ GoTo(m, "failed") /\ UNCHANGED queue
  /\ UNCHANGED <<connVars, pulled, dest, got, histVars>>

-----------------------------------------------------------------------------
Next ==
  \/ \E t \in Sessions : \/ Connect(t) \/ CloseOld(t) \/ DropOld(t) \/ Register(t)
                         \/ Pull(t) \/ Replay(t) \/ ReplayDone(t) \/ Break(t)
                         \/ CloseRemove(t) \/ CloseCurrent(t) \/ CloseUnmap(t)
                         \/ Reclaim(t)
  \/ \E m \in Messages : \/ Take(m) \/ Lookup(m) \/ Send(m) \/ Enqueue(m)

Spec == Init /\ [][Next]_vars

-----------------------------------------------------------------------------
(* Properties.                                                             *)

\* The variables hold what the Java declarations and the control allow: onOpen
\* closes and removes an old session only when there was one.
TypeOK ==
  /\ conn \in [Sessions -> {"new", "open", "closed"}]
  /\ registered \in SUBSET Sessions
  /\ current \in Sessions \cup {NULL}
  /\ pc \in [Sessions -> Pcs]
  /\ old \in [Sessions -> Sessions \cup {NULL}]
  /\ \A t \in Sessions : pc[t] \in {"closeOld", "awaitOld", "dropOld"} => old[t] # NULL
  /\ closePc \in [Sessions -> ClosePcs]
  /\ pulled \in [Sessions -> SUBSET Messages]
  /\ stage \in [Messages -> Stages]
  /\ dest \in [Messages -> Sessions \cup {NULL}]
  /\ queue \in SUBSET Messages
  /\ got \in [Sessions -> SUBSET Messages]
  /\ after \in [Sessions -> SUBSET Messages]
  /\ held \in [Sessions -> SUBSET Messages]
  /\ strayed \in SUBSET Sessions

\* The user's page of session t is up: onOpen is through with the whole queue.
Online(t) == pc[t] = "idle" /\ conn[t] = "open" /\ t \in registered

\* sendPrivate sends or queues: when its handler has come to its end, a message
\* was sent to an open session of the user or waits in the queue, even if the
\* session that was looked up closed before the send or the user reconnected.
SentOrQueued == \A m \in Messages :
  stage[m] = "done" => m \in queue \/ \E t \in Sessions : m \in got[t]

\* An online session of the user has the queue it pulled.  A message looked up
\* after it was registered, and handled to the end, misses it only because the
\* lookup found another session of the user, still in userSessions: either that
\* one had closed, and the message waits in the queue; or the user had two open
\* connections, which takes a third handler in between: the onClose of another
\* session unmapped one of them (get, compare and remove are three steps), or
\* it connected before the last but one had closed its predecessor.
MissedOnlyByRace == \A t \in Sessions : Online(t) =>
  /\ held[t] \subseteq got[t]
  /\ \A m \in after[t] : stage[m] = "done" /\ m \notin got[t] =>
       /\ dest[m] \in Sessions \ {t}
       /\ \/ m \in queue
          \/ m \in got[dest[m]] /\ {t, dest[m]} \cap strayed # {}
=============================================================================
