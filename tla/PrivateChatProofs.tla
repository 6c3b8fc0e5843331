-------------------------- MODULE PrivateChatProofs --------------------------
(* Proofs about PrivateChat, for any connections and messages.             *)
EXTENDS PrivateChat, TLAPS

USE DEF Pcs, OpenPcs, ClosePcs, Stages

-----------------------------------------------------------------------------
(* Type correctness.                                                       *)

LEMMA TypeStep == ASSUME TypeOK, [Next]_vars PROVE TypeOK'
<1> USE DEF TypeOK, openVars, connVars, sendVars, histVars, GoTo, Close
<1>1. ASSUME NEW t \in Sessions, Connect(t) PROVE TypeOK'
  <2>1. Pending \subseteq Sessions
    BY DEF Pending
  <2> QED BY <1>1, <2>1 DEF Connect
<1>2. ASSUME NEW t \in Sessions, CloseOld(t) \/ DropOld(t) \/ Register(t) PROVE TypeOK'
  BY <1>2 DEF CloseOld, DropOld, Register
<1>3. ASSUME NEW t \in Sessions, Pull(t) \/ Replay(t) \/ ReplayDone(t) PROVE TypeOK'
  BY <1>3 DEF Pull, Replay, ReplayDone
<1>4. ASSUME NEW t \in Sessions, Break(t) \/ Reclaim(t) PROVE TypeOK'
  BY <1>4 DEF Break, Reclaim
<1>5. ASSUME NEW t \in Sessions, CloseRemove(t) \/ CloseCurrent(t) \/ CloseUnmap(t)
      PROVE  TypeOK'
  BY <1>5 DEF CloseRemove, CloseCurrent, CloseUnmap
<1>6. ASSUME NEW m \in Messages, Take(m) \/ Lookup(m) PROVE TypeOK'
  BY <1>6 DEF Take, Lookup
<1>7. ASSUME NEW m \in Messages, Send(m) \/ Enqueue(m) PROVE TypeOK'
  BY <1>7 DEF Send, Enqueue
<1>8. CASE UNCHANGED vars
  BY <1>8 DEF vars
<1> QED BY <1>1, <1>2, <1>3, <1>4, <1>5, <1>6, <1>7, <1>8 DEF Next

\* In every reachable state the registry, the queue and the handlers of
\* PRIVATE messages are what WSServPoint's types and control allow.
THEOREM PrivateTypeCorrect == Spec => []TypeOK
<1>1. Init => TypeOK
  BY DEF Init, TypeOK
<1>2. TypeOK /\ [Next]_vars => TypeOK'
  BY TypeStep
<1> QED BY <1>1, <1>2, PTL DEF Spec

-----------------------------------------------------------------------------
(* What an online user can miss.                                           *)

\* While the session is open, what it pulled is received or still to be sent.
PullInv == \A t \in Sessions : conn[t] = "open" =>
  /\ pc[t] = "replay" => held[t] \subseteq got[t] \cup pulled[t]
  /\ pc[t] = "idle" => held[t] \subseteq got[t]

\* What the registry knows of an open session: it is the user's current one or
\* about to be closed by its successor, unless it has strayed; and of the pairs of
\* sessions that an onOpen is about to close, one at most has not strayed.
StrayInv ==
  /\ current \in Sessions => pc[current] # "new"
  /\ \A t \in Sessions :
       /\ conn[t] = "new" <=> pc[t] = "new"
       /\ closePc[t] # "none" => conn[t] = "closed"
       /\ pc[t] = "closeOld" => old[t] # t
       /\ t \in registered => pc[t] \notin {"new"} \cup OpenPcs
       /\ conn[t] = "open" /\ t \notin strayed =>
            t = current \/ \E v \in Sessions : pc[v] = "closeOld" /\ old[v] = t
       /\ pc[t] = "closeOld" /\ old[t] \notin strayed => current \in {t, NULL}
  /\ \A v, w \in Sessions :
       /\ pc[v] = "closeOld" /\ pc[w] = "closeOld"
       /\ old[v] \notin strayed /\ old[w] \notin strayed
       => v = w

LEMMA StrayStep == ASSUME TypeOK, StrayInv, [Next]_vars PROVE StrayInv'
<1> USE NullAssumption DEF TypeOK, StrayInv, openVars, connVars, sendVars, histVars, GoTo,
                           Close
<1>1. ASSUME NEW t \in Sessions, Connect(t) PROVE StrayInv'
  <2>1. \A v \in Sessions : pc[v] = "closeOld" => old[v] \in strayed'
    BY <1>1 DEF Connect, Pending
  <2> QED BY <1>1, <2>1 DEF Connect
<1>2. ASSUME NEW t \in Sessions, CloseOld(t) PROVE StrayInv'
  BY <1>2 DEF CloseOld
<1>3. ASSUME NEW t \in Sessions, DropOld(t) PROVE StrayInv'
  BY <1>3 DEF DropOld
<1>4. ASSUME NEW t \in Sessions, Register(t) PROVE StrayInv'
  BY <1>4 DEF Register
<1>5. ASSUME NEW t \in Sessions, Pull(t) PROVE StrayInv'
  BY <1>5 DEF Pull
<1>6. ASSUME NEW t \in Sessions, Replay(t) \/ ReplayDone(t) PROVE StrayInv'
  BY <1>6 DEF Replay, ReplayDone
<1>7. ASSUME NEW t \in Sessions, Break(t) \/ Reclaim(t) PROVE StrayInv'
  BY <1>7 DEF Break, Reclaim
<1>8. ASSUME NEW t \in Sessions, CloseRemove(t) \/ CloseCurrent(t) PROVE StrayInv'
  BY <1>8 DEF CloseRemove, CloseCurrent
<1>9. ASSUME NEW t \in Sessions, CloseUnmap(t) PROVE StrayInv'
  BY <1>9 DEF CloseUnmap
<1>10. ASSUME NEW m \in Messages, Take(m) \/ Lookup(m) \/ Send(m) \/ Enqueue(m)
       PROVE  StrayInv'
  BY <1>10 DEF Take, Lookup, Send, Enqueue
<1>11. CASE UNCHANGED vars
  BY <1>11 DEF vars
<1> QED
  BY <1>1, <1>2, <1>3, <1>4, <1>5, <1>6, <1>7, <1>8, <1>9, <1>10, <1>11 DEF Next

\* Two sessions of the user are open after both were registered only if one of
\* them strayed.
LEMMA OneOpen ==
  ASSUME TypeOK, StrayInv, NEW t \in Sessions, NEW u \in Sessions, t # u,
         conn[t] = "open", conn[u] = "open",
         pc[t] \notin OpenPcs, pc[u] \notin OpenPcs
  PROVE  {t, u} \cap strayed # {}
<1> SUFFICES ASSUME t \notin strayed, u \notin strayed PROVE FALSE
  OBVIOUS
<1>1. t = current \/ \E v \in Sessions : pc[v] = "closeOld" /\ old[v] = t
  BY DEF StrayInv
<1>2. u = current \/ \E v \in Sessions : pc[v] = "closeOld" /\ old[v] = u
  BY DEF StrayInv
<1>3. ASSUME NEW v \in Sessions, NEW x \in Sessions, x = current,
             pc[v] = "closeOld", old[v] \notin strayed
      PROVE  pc[x] = "closeOld"
  BY <1>3, NullAssumption DEF StrayInv
<1> QED BY <1>1, <1>2, <1>3 DEF StrayInv

\* A handler has looked up a session that was registered...
DestInv == \A m \in Messages : stage[m] = "send" =>
  dest[m] \in Sessions /\ pc[dest[m]] \notin {"new"} \cup OpenPcs

\* ...and when it looked the user up after the open session t was registered, and
\* its message did not go to t, then it found another session.
LookupInv == \A t \in registered : \A m \in after[t] :
  conn[t] = "open" /\ stage[m] \in {"enqueue", "done"} /\ m \notin got[t] =>
    /\ dest[m] \in Sessions \ {t}
    /\ \/ stage[m] = "enqueue"
       \/ m \in queue
       \/ m \in got[dest[m]] /\ {t, dest[m]} \cap strayed # {}

LEMMA MissStep ==
  ASSUME TypeOK, StrayInv, PullInv, DestInv, LookupInv, [Next]_vars
  PROVE  PullInv' /\ DestInv' /\ LookupInv'
<1> USE NullAssumption DEF TypeOK, PullInv, DestInv, LookupInv, openVars, connVars,
                           sendVars, histVars, GoTo, Close
<1>1. ASSUME NEW t \in Sessions, Connect(t) PROVE PullInv' /\ DestInv' /\ LookupInv'
  <2>1. t \notin registered
    BY <1>1 DEF Connect, StrayInv
  <2>2. PullInv' /\ DestInv'
    BY <1>1 DEF Connect
  <2>3. LookupInv'
    BY <1>1, <2>1 DEF Connect
  <2> QED BY <2>2, <2>3
<1>2. ASSUME NEW t \in Sessions, CloseOld(t) \/ DropOld(t)
      PROVE  PullInv' /\ DestInv' /\ LookupInv'
  BY <1>2 DEF CloseOld, DropOld
<1>3. ASSUME NEW t \in Sessions, Register(t) PROVE PullInv' /\ DestInv' /\ LookupInv'
  BY <1>3 DEF Register
<1>4. ASSUME NEW t \in Sessions, Pull(t) PROVE PullInv' /\ DestInv' /\ LookupInv'
  BY <1>4 DEF Pull
<1>5. ASSUME NEW t \in Sessions, Replay(t) PROVE PullInv' /\ DestInv' /\ LookupInv'
  BY <1>5 DEF Replay
<1>6. ASSUME NEW t \in Sessions, ReplayDone(t) PROVE PullInv' /\ DestInv' /\ LookupInv'
  BY <1>6 DEF ReplayDone
<1>7. ASSUME NEW t \in Sessions, Break(t) \/ Reclaim(t)
      PROVE  PullInv' /\ DestInv' /\ LookupInv'
  BY <1>7 DEF Break, Reclaim
<1>8. ASSUME NEW t \in Sessions, CloseRemove(t) \/ CloseCurrent(t) \/ CloseUnmap(t)
      PROVE  PullInv' /\ DestInv' /\ LookupInv'
  BY <1>8 DEF CloseRemove, CloseCurrent, CloseUnmap
<1>9. ASSUME NEW m \in Messages, Take(m) PROVE PullInv' /\ DestInv' /\ LookupInv'
  BY <1>9 DEF Take
<1>10. ASSUME NEW m \in Messages, Lookup(m) PROVE PullInv' /\ DestInv' /\ LookupInv'
  BY <1>10 DEF Lookup, StrayInv
<1>11. ASSUME NEW m \in Messages, Send(m) PROVE PullInv' /\ DestInv' /\ LookupInv'
  <2>1. PullInv' /\ DestInv'
    BY <1>11 DEF Send
  <2>2. ASSUME NEW t \in registered, conn[t] = "open", conn[dest[m]] = "open", dest[m] # t
        PROVE  {t, dest[m]} \cap strayed # {}
    BY <1>11, <2>2, OneOpen DEF Send, StrayInv
  <2>3. LookupInv'
    BY <1>11, <2>2 DEF Send
  <2> QED BY <2>1, <2>3
<1>12. ASSUME NEW m \in Messages, Enqueue(m) PROVE PullInv' /\ DestInv' /\ LookupInv'
  BY <1>12 DEF Enqueue
<1>13. CASE UNCHANGED vars
  BY <1>13 DEF vars
<1> QED
  BY <1>1, <1>2, <1>3, <1>4, <1>5, <1>6, <1>7, <1>8, <1>9, <1>10, <1>11, <1>12, <1>13
  DEF Next

\* For any connections and messages, with the steps of onOpen, onClose and
\* sendPrivate of the user interleaved in any way and whatever throws: an online
\* session has the queue it pulled, and misses a later message only if another
\* session of the user was found, which had closed, or which was open too
\* because one of the two had strayed.
THEOREM MissesAreRaces == Spec => []MissedOnlyByRace
<1>1. Init => StrayInv /\ PullInv /\ DestInv /\ LookupInv
  BY NullAssumption DEF Init, StrayInv, PullInv, DestInv, LookupInv
<1>2. TypeOK /\ StrayInv /\ [Next]_vars => StrayInv'
  BY StrayStep
<1>3. TypeOK /\ StrayInv /\ PullInv /\ DestInv /\ LookupInv /\ [Next]_vars
      => PullInv' /\ DestInv' /\ LookupInv'
  BY MissStep
<1>4. PullInv /\ LookupInv => MissedOnlyByRace
  BY DEF PullInv, LookupInv, MissedOnlyByRace, Online
<1> QED BY <1>1, <1>2, <1>3, <1>4, PrivateTypeCorrect, PTL DEF Spec

-----------------------------------------------------------------------------
(* What becomes of a message.                                              *)

LEMMA DeliveryStep ==
  ASSUME TypeOK, DestInv, SentOrQueued, [Next]_vars
  PROVE  SentOrQueued'
<1> USE DEF TypeOK, DestInv, SentOrQueued, openVars, connVars, sendVars, histVars, GoTo
<1>1. ASSUME NEW t \in Sessions,
             \/ Connect(t) \/ CloseOld(t) \/ DropOld(t) \/ Register(t) \/ Break(t)
             \/ CloseRemove(t) \/ CloseCurrent(t) \/ CloseUnmap(t) \/ Reclaim(t)
      PROVE  SentOrQueued'
  BY <1>1 DEF Connect, CloseOld, DropOld, Register, Break, CloseRemove, CloseCurrent,
              CloseUnmap, Reclaim
<1>2. ASSUME NEW t \in Sessions, Pull(t) \/ Replay(t) \/ ReplayDone(t)
      PROVE  SentOrQueued'
  BY <1>2 DEF Pull, Replay, ReplayDone
<1>3. ASSUME NEW m \in Messages, Take(m) \/ Lookup(m) PROVE SentOrQueued'
  BY <1>3 DEF Take, Lookup
<1>4. ASSUME NEW m \in Messages, Send(m) PROVE SentOrQueued'
  BY <1>4 DEF Send
<1>5. ASSUME NEW m \in Messages, Enqueue(m) PROVE SentOrQueued'
  BY <1>5 DEF Enqueue
<1>6. CASE UNCHANGED vars
  BY <1>6 DEF vars
<1> QED BY <1>1, <1>2, <1>3, <1>4, <1>5, <1>6 DEF Next

\* For any connections and messages, and whatever throws: a PRIVATE message
\* whose handler came to its end was sent to an open session or is queued.
THEOREM DoneIsDelivered == Spec => []SentOrQueued
<1>1. Init => StrayInv /\ PullInv /\ DestInv /\ LookupInv /\ SentOrQueued
  BY NullAssumption DEF Init, StrayInv, PullInv, DestInv, LookupInv, SentOrQueued
<1>2. TypeOK /\ StrayInv /\ PullInv /\ DestInv /\ LookupInv /\ [Next]_vars
      => StrayInv' /\ PullInv' /\ DestInv' /\ LookupInv'
  BY StrayStep, MissStep
<1>3. TypeOK /\ DestInv /\ SentOrQueued /\ [Next]_vars => SentOrQueued'
  BY DeliveryStep
<1> QED BY <1>1, <1>2, <1>3, PrivateTypeCorrect, PTL DEF Spec
=============================================================================
