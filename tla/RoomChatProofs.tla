--------------------------- MODULE RoomChatProofs ---------------------------
(* Proofs about RoomChat, for any sessions, messages and history limit.    *)
EXTENDS RoomChat, TLAPS

USE DEF Kinds, Pcs

-----------------------------------------------------------------------------
(* Type correctness.                                                       *)

LEMMA EnterType ==
  ASSUME TypeOK, NEW s \in Sessions, NEW kind \in Kinds, NEW label \in Pcs,
         Enter(s, kind, label)
  PROVE  TypeOK'
<1> USE DEF TypeOK, Enter, histVars
<1>1. room' \in SUBSET Sessions
  OBVIOUS
<1>2. todo' \in [Sessions -> SUBSET Sessions]
  OBVIOUS
<1>3. /\ cur' \in [Sessions -> Messages \cup Kinds \cup {NULL}]
      /\ pc' \in [Sessions -> Pcs]
  BY DEF Goto
<1>4. /\ behind' \in SUBSET Sessions /\ late' \in SUBSET Sessions
      /\ shown' \in [Sessions -> SUBSET Sessions]
  BY <1>1 DEF Changed
<1>5. /\ got' \in [Sessions -> SUBSET Messages]
      /\ lost' \in [Sessions -> SUBSET Messages]
      /\ readAt' \in [Sessions -> Nat \cup {-1}]
  OBVIOUS
<1> QED BY <1>1, <1>2, <1>3, <1>4, <1>5

LEMMA TypeStep == ASSUME TypeOK, [Next]_vars PROVE TypeOK'
<1> USE DEF TypeOK, histVars, ctlVars, recvVars, listVars, Goto, Changed
<1>1. ASSUME NEW s \in Sessions, OpenIn(s) \/ SwitchIn(s) PROVE TypeOK'
  BY <1>1, EnterType DEF OpenIn, SwitchIn
<1>2. ASSUME NEW s \in Sessions, Read(s) PROVE TypeOK'
  BY <1>2 DEF Read, Recent
<1>3. ASSUME NEW s \in Sessions, BeginReplay(s) \/ EndReplay(s) PROVE TypeOK'
  BY <1>3 DEF BeginReplay, EndReplay
<1>4. ASSUME NEW s \in Sessions, ReplayFault(s) \/ ReplayDone(s) PROVE TypeOK'
  BY <1>4 DEF ReplayFault, ReplayDone, AfterReplay
<1>5. ASSUME NEW s \in Sessions, SwitchOut(s) \/ CloseOut(s) PROVE TypeOK'
  BY <1>5 DEF SwitchOut, CloseOut, Exit
<1>6. ASSUME NEW s \in Sessions, NEW m \in Messages, Chat(s, m) PROVE TypeOK'
  BY <1>6 DEF Chat
<1>7. ASSUME NEW s \in Sessions, Save(s) \/ ListUsers(s) \/ StartCast(s)
      PROVE  TypeOK'
  <2>1. CASE Save(s)
    BY <2>1 DEF Save
  <2>2. CASE ListUsers(s) \/ StartCast(s)
    BY <2>2 DEF ListUsers, StartCast
  <2> QED BY <1>7, <2>1, <2>2
<1>8. ASSUME NEW s \in Sessions, NEW t \in Sessions,
             BeginSend(s, t) \/ Skip(s, t) \/ SendFault(s, t)
      PROVE  TypeOK'
  <2>1. CASE BeginSend(s, t)
    BY <2>1 DEF BeginSend
  <2>2. CASE Skip(s, t)
    BY <2>2 DEF Skip
  <2>3. CASE SendFault(s, t)
    BY <2>3 DEF SendFault, AfterFault
  <2> QED BY <1>8, <2>1, <2>2, <2>3
<1>9. ASSUME NEW s \in Sessions, EndSend(s) \/ EndCast(s) PROVE TypeOK'
  BY <1>9 DEF EndSend, EndCast, AfterCast
<1>10. CASE UNCHANGED vars
  BY <1>10 DEF vars
<1> QED
  BY <1>1, <1>2, <1>3, <1>4, <1>5, <1>6, <1>7, <1>8, <1>9, <1>10 DEF Next

\* In every reachable state the room set, the history numbers and the
\* handlers' positions are what WSServPoint's types and control allow.
THEOREM ChatTypeCorrect == Spec => []TypeOK
<1>1. Init => TypeOK
  BY DEF Init, TypeOK
<1>2. TypeOK /\ [Next]_vars => TypeOK'
  BY TypeStep
<1> QED BY <1>1, <1>2, PTL DEF Spec

-----------------------------------------------------------------------------
(* No gap between the history and the live messages.                       *)

\* m has reached t, is about to, or was abandoned on the way.
Accounted(m, t) == m \in got[t] \cup replay[t] \cup lost[t] \/ Pending(m, t)

\* A handler that closes its session does nothing else any more.
CloseInv == \A s \in Sessions : cur[s] = "closed" => pc[s] \in {"announce", "listed", "cast"}

LEMMA CloseStep == ASSUME TypeOK, CloseInv, [Next]_vars PROVE CloseInv'
<1> USE MessageAssumption DEF TypeOK, CloseInv, histVars, ctlVars, recvVars,
            Goto
<1>1. ASSUME NEW s \in Sessions, OpenIn(s) \/ SwitchIn(s) \/ Read(s) PROVE CloseInv'
  BY <1>1 DEF OpenIn, SwitchIn, Enter, Read
<1>2. ASSUME NEW s \in Sessions,
             BeginReplay(s) \/ EndReplay(s) \/ ReplayFault(s) \/ ReplayDone(s)
      PROVE  CloseInv'
  BY <1>2 DEF BeginReplay, EndReplay, ReplayFault, ReplayDone, AfterReplay
<1>3. ASSUME NEW s \in Sessions, SwitchOut(s) \/ CloseOut(s) PROVE CloseInv'
  BY <1>3 DEF SwitchOut, CloseOut, Exit
<1>4. ASSUME NEW s \in Sessions, NEW m \in Messages, Chat(s, m) PROVE CloseInv'
  BY <1>4 DEF Chat
<1>5. ASSUME NEW s \in Sessions, \/ Save(s) \/ ListUsers(s) \/ StartCast(s)
                                 \/ EndSend(s) \/ EndCast(s)
      PROVE  CloseInv'
  BY <1>5 DEF Save, ListUsers, StartCast, EndSend, EndCast
<1>6. ASSUME NEW s \in Sessions, NEW t \in Sessions,
             BeginSend(s, t) \/ Skip(s, t) \/ SendFault(s, t)
      PROVE  CloseInv'
  BY <1>6 DEF BeginSend, Skip, SendFault
<1>7. CASE UNCHANGED vars
  BY <1>7 DEF vars
<1> QED BY <1>1, <1>2, <1>3, <1>4, <1>5, <1>6, <1>7 DEF Next

LEMMA GapStep == ASSUME TypeOK, CloseInv, NoGap, [Next]_vars PROVE NoGap'
<1> SUFFICES ASSUME NEW t \in Sessions, (t \in room)', (~Closed(t))',
                    (readAt[t] >= 0)', NEW m \in Messages,
                    (savedAt[m] > 0 /\ savedAt[m] + Limit > readAt[t])'
             PROVE  Accounted(m, t)'
  BY TypeStep DEF NoGap, Accounted, TypeOK
<1> USE LimitAssumption, MessageAssumption, SessionAssumption
    DEF TypeOK, CloseInv, histVars, ctlVars, recvVars, Goto, Accounted, Pending,
        Closed
<1>1. ASSUME NEW s \in Sessions, OpenIn(s) \/ SwitchIn(s) PROVE Accounted(m, t)'
  <2>1. PICK kind \in Kinds, label \in Pcs :
          Enter(s, kind, label) /\ pc[s] \in {"new", "out"} /\ kind # "closed"
    BY <1>1 DEF OpenIn, SwitchIn
  <2>2. t # s
    BY <2>1 DEF Enter
  <2>3. Accounted(m, t)
    BY <2>1, <2>2 DEF Enter, NoGap
  <2>4. CASE m \in got[t] \cup replay[t] \cup lost[t]
    BY <2>1, <2>2, <2>4 DEF Enter
  <2>5. ASSUME NEW b \in Sessions, cur[b] = m,
               pc[b] = "announce" \/ (pc[b] = "cast" /\ t \in todo[b])
        PROVE  Pending(m, t)'
    <3>1. b # s
      BY <2>1, <2>5
    <3>2. cur'[b] = cur[b] /\ pc'[b] = pc[b] /\ todo[b] \subseteq todo'[b]
      BY <2>1, <3>1 DEF Enter
    <3> QED BY <2>5, <3>2
  <2>6. CASE Pending(m, t)
    BY <2>5, <2>6
  <2> QED BY <2>3, <2>4, <2>6
<1>2. ASSUME NEW s \in Sessions, Read(s) PROVE Accounted(m, t)'
  BY <1>2 DEF Read, Recent, NoGap
<1>3. ASSUME NEW s \in Sessions, BeginReplay(s) \/ EndReplay(s) PROVE Accounted(m, t)'
  BY <1>3 DEF BeginReplay, EndReplay, NoGap
<1>4. ASSUME NEW s \in Sessions, ReplayFault(s) \/ ReplayDone(s) PROVE Accounted(m, t)'
  BY <1>4 DEF ReplayFault, ReplayDone, AfterReplay, NoGap
<1>5. ASSUME NEW s \in Sessions, SwitchOut(s) \/ CloseOut(s) PROVE Accounted(m, t)'
  BY <1>5 DEF SwitchOut, CloseOut, Exit, NoGap
<1>6. ASSUME NEW s \in Sessions, NEW n \in Messages, Chat(s, n) PROVE Accounted(m, t)'
  BY <1>6 DEF Chat, NoGap
<1>7. ASSUME NEW s \in Sessions, Save(s) \/ ListUsers(s) \/ StartCast(s)
      PROVE  Accounted(m, t)'
  BY <1>7 DEF Save, ListUsers, StartCast, NoGap
<1>8. ASSUME NEW s \in Sessions, NEW u \in Sessions,
             BeginSend(s, u) \/ Skip(s, u) \/ SendFault(s, u)
      PROVE  Accounted(m, t)'
  <2>1. CASE BeginSend(s, u)
    BY <2>1 DEF BeginSend, NoGap
  <2>2. CASE Skip(s, u)
    BY <2>2 DEF Skip, NoGap
  <2>3. CASE SendFault(s, u)
    BY <2>3 DEF SendFault, AfterFault, NoGap
  <2> QED BY <1>8, <2>1, <2>2, <2>3
<1>9. ASSUME NEW s \in Sessions, EndSend(s) \/ EndCast(s) PROVE Accounted(m, t)'
  BY <1>9 DEF EndSend, EndCast, AfterCast, NoGap
<1>10. CASE UNCHANGED vars
  BY <1>10 DEF vars, NoGap
<1> QED
  BY <1>1, <1>2, <1>3, <1>4, <1>5, <1>6, <1>7, <1>8, <1>9, <1>10 DEF Next

\* A message that is saved while others enter, leave and read the history is
\* in the history they read, or on its way to them, or lost to a collision of
\* two writers; it is never simply missed.
THEOREM HistoryMeetsLive == Spec => []NoGap
<1>1. Init => NoGap
  BY DEF Init, NoGap
<1>2. Init => CloseInv
  BY MessageAssumption DEF Init, CloseInv
<1>3. TypeOK /\ CloseInv /\ [Next]_vars => CloseInv'
  BY CloseStep
<1>4. TypeOK /\ CloseInv /\ NoGap /\ [Next]_vars => NoGap'
  BY GapStep
<1> QED BY <1>1, <1>2, <1>3, <1>4, ChatTypeCorrect, PTL DEF Spec

-----------------------------------------------------------------------------
(* Every member is told who is in the room.                                *)

\* Handler b will still announce to t a list that it has made, or will make,
\* after the last change.
Announces(b, t) ==
  \/ cur[b] = "entered" /\ pc[b] \in {"read", "replay"}
  \/ cur[b] \in Kinds \ {"back"} /\ pc[b] = "announce"
  \/ /\ cur[b] \in Kinds
     /\ b \notin late
     /\ \/ pc[b] = "listed"
        \/ pc[b] = "cast" /\ t \in todo[b]

\* The list of member t is right, or will be, or t is behind.
Told(t) == t \in behind \/ shown[t] = room \/ \E b \in Sessions : Announces(b, t)

ListInv ==
  /\ \A b \in Sessions : b \in late => pc[b] \in {"listed", "cast"}
  /\ \A b \in Sessions : pc[b] \in {"listed", "cast"} /\ cur[b] \in Kinds =>
       b \in late \/ list[b] = room
  /\ \A t \in room : pc[t] \notin {"new", "out", "gone"} /\ cur[t] \notin {"left", "closed"}
  /\ \A t \in room : pc[t] # "leave" => Told(t)

LEMMA ListStep == ASSUME TypeOK, ListInv, [Next]_vars PROVE ListInv'
<1> USE MessageAssumption, SessionAssumption
    DEF TypeOK, ListInv, Told, Announces, histVars, ctlVars, recvVars, listVars,
        Goto, Changed
<1>1. ASSUME NEW s \in Sessions, OpenIn(s) \/ SwitchIn(s) PROVE ListInv'
  <2>1. CASE OpenIn(s)
    BY <2>1 DEF OpenIn, Enter
  <2>2. CASE SwitchIn(s)
    BY <2>2 DEF SwitchIn, Enter
  <2> QED BY <1>1, <2>1, <2>2
<1>2. ASSUME NEW s \in Sessions, Read(s) PROVE ListInv'
  BY <1>2 DEF Read
<1>3. ASSUME NEW s \in Sessions, BeginReplay(s) \/ EndReplay(s) PROVE ListInv'
  BY <1>3 DEF BeginReplay, EndReplay
<1>4. ASSUME NEW s \in Sessions, ReplayFault(s) \/ ReplayDone(s) PROVE ListInv'
  BY <1>4 DEF ReplayFault, ReplayDone, AfterReplay
<1>5. ASSUME NEW s \in Sessions, SwitchOut(s) \/ CloseOut(s) PROVE ListInv'
  <2>1. CASE SwitchOut(s)
    BY <2>1 DEF SwitchOut, Exit
  <2>2. CASE CloseOut(s)
    BY <2>2 DEF CloseOut, Exit
  <2> QED BY <1>5, <2>1, <2>2
<1>6. ASSUME NEW s \in Sessions, NEW m \in Messages, Chat(s, m) PROVE ListInv'
  BY <1>6 DEF Chat
<1>7. ASSUME NEW s \in Sessions, Save(s) \/ ListUsers(s) PROVE ListInv'
  <2>1. CASE Save(s)
    BY <2>1 DEF Save
  <2>2. CASE ListUsers(s)
    BY <2>2 DEF ListUsers
  <2> QED BY <1>7, <2>1, <2>2
<1>8. ASSUME NEW s \in Sessions, StartCast(s) PROVE ListInv'
  BY <1>8 DEF StartCast
<1>9. ASSUME NEW s \in Sessions, NEW t \in Sessions, BeginSend(s, t) \/ Skip(s, t)
      PROVE  ListInv'
  BY <1>9 DEF BeginSend, Skip, Closed
<1>10. ASSUME NEW s \in Sessions, NEW t \in Sessions, SendFault(s, t)
       PROVE  ListInv'
  BY <1>10 DEF SendFault, AfterFault
<1>11. ASSUME NEW s \in Sessions, EndSend(s) PROVE ListInv'
  BY <1>11 DEF EndSend
<1>12. ASSUME NEW s \in Sessions, EndCast(s) PROVE ListInv'
  BY <1>12 DEF EndCast, AfterCast
<1>13. CASE UNCHANGED vars
  BY <1>13 DEF vars
<1> QED
  BY <1>1, <1>2, <1>3, <1>4, <1>5, <1>6, <1>7, <1>8, <1>9, <1>10, <1>11, <1>12,
     <1>13 DEF Next

\* Whoever enters and leaves at the same time, when all announcements are over a
\* member's list of users is that of the room, unless a change was silent, an
\* announcement to it was abandoned, or an outdated one came last.
THEOREM MembersKnowTheRoom == Spec => []ListIsCurrent
<1>1. Init => ListInv
  BY DEF Init, ListInv
<1>2. TypeOK /\ ListInv /\ [Next]_vars => ListInv'
  BY ListStep
<1>3. TypeOK /\ ListInv => ListIsCurrent
  BY DEF ListInv, ListIsCurrent, Quiet, Told, Announces, TypeOK
<1> QED BY <1>1, <1>2, <1>3, ChatTypeCorrect, PTL DEF Spec

=============================================================================
