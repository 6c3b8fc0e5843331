----------------------- MODULE SessionRegistryProofs -----------------------
(* Proofs about SessionRegistry, for any sessions, users and rooms.        *)
EXTENDS SessionRegistry, TLAPS

-----------------------------------------------------------------------------
(* Type correctness.                                                       *)

USE DEF ConnStates, OpenPcs, SwitchPcs, HandlerPcs, ClosePcs, ReaperPcs,
        SessionOrNull, UserOrNull, RoomOrNull

\* Every step keeps the variables in the sets their Java types allow.
LEMMA TypeStep == ASSUME TypeOK, [Next]_vars PROVE TypeOK'
<1> USE DEF TypeOK, mapVars, sessVars, handVars, closeVars, reaperVars,
            histVars, Goto, CloseGoto, Close, Starts, Unregister, EnterRoom
<1>1. ASSUME NEW s \in Sessions, Reject(s) PROVE TypeOK'
  BY <1>1 DEF Reject
<1>2. ASSUME NEW s \in Sessions, NEW u \in Users, NEW r \in Rooms \cup {NULL},
             Connect(s, u, r)
      PROVE TypeOK'
  BY <1>2 DEF Connect
<1>3. ASSUME NEW s \in Sessions, OpenStep(s) PROVE TypeOK'
  <2>1. CASE CloseOld(s)
    BY <2>1 DEF CloseOld
  <2>2. CASE DropOld(s)
    BY <2>2 DEF DropOld
  <2>3. CASE LeaveOld(s)
    BY <2>3 DEF LeaveOld
  <2>4. CASE Register(s)
    BY <2>4 DEF Register
  <2>5. CASE Enter(s)
    BY <2>5 DEF Enter
  <2>6. CASE Announce(s)
    BY <2>6 DEF Announce
  <2> QED BY <1>3, <2>1, <2>2, <2>3, <2>4, <2>5, <2>6 DEF OpenStep
<1>4. ASSUME NEW s \in Sessions, NEW r \in Rooms \cup {NULL}, SwitchRoom(s, r)
      PROVE TypeOK'
  BY <1>4 DEF SwitchRoom
<1>5. ASSUME NEW s \in Sessions, SwitchStep(s) PROVE TypeOK'
  <2>1. CASE Leave(s)
    BY <2>1 DEF Leave
  <2>2. CASE AnnounceLeave(s)
    BY <2>2 DEF AnnounceLeave
  <2>3. CASE LeaveCut(s)
    BY <2>3 DEF LeaveCut
  <2>4. CASE SetRoom(s)
    BY <2>4 DEF SetRoom
  <2>5. CASE Join(s)
    BY <2>5 DEF Join
  <2> QED BY <1>5, <2>1, <2>2, <2>3, <2>4, <2>5 DEF SwitchStep
<1>6. ASSUME NEW s \in Sessions, ContainerClose(s) PROVE TypeOK'
  BY <1>6 DEF ContainerClose
<1>7. ASSUME NEW s \in Sessions, CloseStep(s) PROVE TypeOK'
  <2>1. CASE CloseRemove(s)
    BY <2>1 DEF CloseRemove
  <2>2. CASE CloseCurrent(s)
    BY <2>2 DEF CloseCurrent
  <2>3. CASE CloseUnmap(s)
    BY <2>3 DEF CloseUnmap
  <2>4. CASE CloseLeave(s)
    BY <2>4 DEF CloseLeave
  <2> QED BY <1>7, <2>1, <2>2, <2>3, <2>4 DEF CloseStep
<1>8. ASSUME NEW s \in Sessions, Reap(s) PROVE TypeOK'
  BY <1>8 DEF Reap
<1>9. CASE ReapRemove
  BY <1>9 DEF ReapRemove
<1>10. CASE UNCHANGED vars
  BY <1>10 DEF vars
<1> QED
  BY <1>1, <1>2, <1>3, <1>4, <1>5, <1>6, <1>7, <1>8, <1>9, <1>10 DEF Next

\* In every reachable state, for any number of sessions, users and rooms, the
\* maps of WSServPoint hold sessions and room identifiers, and the handlers
\* stand at one of their program points.
THEOREM TypeCorrect == Spec => []TypeOK
<1>1. Init => TypeOK
  BY DEF Init, TypeOK
<1>2. TypeOK /\ [Next]_vars => TypeOK'
  BY TypeStep
<1> QED BY <1>1, <1>2, PTL DEF Spec

-----------------------------------------------------------------------------
(* Rooms.                                                                  *)

\* A session in a room has the room id of that room and is not between
\* leaving one room and joining the next; about to join, it has the room id
\* of the room it will join.
RoomInv ==
  /\ \A s \in Sessions : \A r \in Rooms :
       s \in rooms[r] => pc[s] \in {"idle", "leave", "announce"} /\ roomOf[s] = r
  /\ \A s \in Sessions :
       pc[s] \in {"join", "enter"} => roomOf[s] = argRoom[s] /\ argRoom[s] # NULL
  /\ \A s \in Sessions : pc[s] = "leave" => roomOf[s] # NULL

\* The steps that can add a session to a room, or change what RoomInv says of
\* one, preserve it; every other step only takes sessions out of rooms.
LEMMA RoomStep == ASSUME TypeOK, RoomInv, [Next]_vars PROVE RoomInv'
<1> USE NullAssumption DEF RoomInv, TypeOK, mapVars, sessVars, handVars,
            closeVars, reaperVars, Goto, CloseGoto, Close, Unregister, EnterRoom
<1>1. ASSUME NEW s \in Sessions, Reject(s) PROVE RoomInv'
  BY <1>1 DEF Reject
<1>2. ASSUME NEW s \in Sessions, NEW u \in Users, NEW r \in Rooms \cup {NULL},
             Connect(s, u, r)
      PROVE RoomInv'
  BY <1>2 DEF Connect
<1>3. ASSUME NEW s \in Sessions, OpenStep(s) PROVE RoomInv'
  <2>1. CASE CloseOld(s)
    BY <2>1 DEF CloseOld
  <2>2. CASE DropOld(s)
    BY <2>2 DEF DropOld
  <2>3. CASE LeaveOld(s)
    BY <2>3 DEF LeaveOld
  <2>4. CASE Register(s)
    BY <2>4 DEF Register
  <2>5. CASE Enter(s)
    BY <2>5 DEF Enter
  <2>6. CASE Announce(s)
    BY <2>6 DEF Announce
  <2> QED BY <1>3, <2>1, <2>2, <2>3, <2>4, <2>5, <2>6 DEF OpenStep
<1>4. ASSUME NEW s \in Sessions, NEW r \in Rooms \cup {NULL}, SwitchRoom(s, r)
      PROVE RoomInv'
  BY <1>4 DEF SwitchRoom
<1>5. ASSUME NEW s \in Sessions, SwitchStep(s) PROVE RoomInv'
  <2>1. CASE Leave(s)
    BY <2>1 DEF Leave
  <2>2. CASE AnnounceLeave(s)
    BY <2>2 DEF AnnounceLeave
  <2>3. CASE LeaveCut(s)
    BY <2>3 DEF LeaveCut
  <2>4. CASE SetRoom(s)
    BY <2>4 DEF SetRoom
  <2>5. CASE Join(s)
    BY <2>5 DEF Join
  <2> QED BY <1>5, <2>1, <2>2, <2>3, <2>4, <2>5 DEF SwitchStep
<1>6. ASSUME NEW s \in Sessions, ContainerClose(s) PROVE RoomInv'
  BY <1>6 DEF ContainerClose
<1>7. ASSUME NEW s \in Sessions, CloseStep(s) PROVE RoomInv'
  <2>1. CASE CloseRemove(s)
    BY <2>1 DEF CloseRemove
  <2>2. CASE CloseCurrent(s)
    BY <2>2 DEF CloseCurrent
  <2>3. CASE CloseUnmap(s)
    BY <2>3 DEF CloseUnmap
  <2>4. CASE CloseLeave(s)
    BY <2>4 DEF CloseLeave
  <2> QED BY <1>7, <2>1, <2>2, <2>3, <2>4 DEF CloseStep
<1>8. ASSUME NEW s \in Sessions, Reap(s) PROVE RoomInv'
  BY <1>8 DEF Reap
<1>9. CASE ReapRemove
  BY <1>9 DEF ReapRemove
<1>10. CASE UNCHANGED vars
  BY <1>10 DEF vars
<1> QED
  BY <1>1, <1>2, <1>3, <1>4, <1>5, <1>6, <1>7, <1>8, <1>9, <1>10 DEF Next

LEMMA RoomInvariant == Spec => [](TypeOK /\ RoomInv)
<1>1. Init => RoomInv
  BY DEF Init, RoomInv
<1>2. TypeOK /\ RoomInv /\ [Next]_vars => RoomInv'
  BY RoomStep
<1> QED BY <1>1, <1>2, TypeCorrect, PTL DEF Spec

\* Whatever overlaps and whichever broadcast throws, no session is ever in two
\* room sets: the removal from the old room always precedes the join.
THEOREM RoomsAreIsolated == Spec => []OneRoom
<1>1. RoomInv => OneRoom
  BY DEF RoomInv, OneRoom
<1> QED BY <1>1, RoomInvariant, PTL

-----------------------------------------------------------------------------
(* The room sets implement RoomMembership.                                 *)

InRooms == [s \in Sessions |-> {r \in Rooms : s \in rooms[r]}]

\* A step that changes no room set is a stutter of RoomMembership.
LEMMA RoomsUnchanged == UNCHANGED rooms => UNCHANGED InRooms
  BY DEF InRooms

\* Taking a session out of one room, when it is in no other, is an Exit or a
\* stutter.
LEMMA RoomExit ==
  ASSUME TypeOK, OneRoom, NEW s \in SessionOrNull, NEW r \in RoomOrNull,
         rooms' = [rooms EXCEPT ![r] = @ \ {s}]
  PROVE  Membership!Next \/ UNCHANGED InRooms
<1>1. CASE r \in Rooms /\ s \in rooms[r]
  <2>1. s \in Sessions
    BY <1>1 DEF TypeOK
  <2>2. InRooms[s] # {}
    BY <1>1, <2>1 DEF InRooms
  <2>3. \A r2 \in Rooms : rooms'[r2] = IF r2 = r THEN rooms[r2] \ {s} ELSE rooms[r2]
    BY DEF TypeOK
  <2>4. \A r2 \in Rooms : s \notin rooms'[r2]
    BY <1>1, <2>1, <2>3 DEF OneRoom
  <2>5. InRooms' = [InRooms EXCEPT ![s] = {}]
    <3>1. ASSUME NEW x \in Sessions, x # s
          PROVE  {r2 \in Rooms : x \in rooms'[r2]} = {r2 \in Rooms : x \in rooms[r2]}
      BY <2>3, <3>1
    <3>2. {r2 \in Rooms : s \in rooms'[r2]} = {}
      BY <2>4
    <3> QED BY <2>1, <3>1, <3>2 DEF InRooms
  <2> QED BY <2>1, <2>2, <2>5 DEF Membership!Next, Membership!Exit, InRooms
<1>2. CASE ~(r \in Rooms /\ s \in rooms[r])
  <2>1. rooms' = rooms
    BY <1>2, NullAssumption DEF TypeOK
  <2> QED BY <2>1 DEF InRooms
<1> QED BY <1>1, <1>2

\* Adding to a room a session that is in none is an Enter.
LEMMA RoomEnter ==
  ASSUME TypeOK, NEW s \in Sessions, NEW r \in Rooms,
         \A r2 \in Rooms : s \notin rooms[r2],
         rooms' = [rooms EXCEPT ![r] = @ \cup {s}]
  PROVE  Membership!Next
<1>1. \A r2 \in Rooms : rooms'[r2] = IF r2 = r THEN rooms[r2] \cup {s} ELSE rooms[r2]
  BY DEF TypeOK
<1>2. InRooms' = [InRooms EXCEPT ![s] = {r}]
  <2>1. ASSUME NEW x \in Sessions, x # s
        PROVE  {r2 \in Rooms : x \in rooms'[r2]} = {r2 \in Rooms : x \in rooms[r2]}
    BY <1>1, <2>1
  <2>2. {r2 \in Rooms : s \in rooms'[r2]} = {r}
    BY <1>1
  <2> QED BY <2>1, <2>2 DEF InRooms
<1>3. InRooms[s] = {}
  BY DEF InRooms
<1> QED BY <1>2, <1>3 DEF Membership!Next, Membership!Enter, InRooms

LEMMA MembershipStep ==
  ASSUME TypeOK, RoomInv, OneRoom, [Next]_vars
  PROVE  Membership!Next \/ UNCHANGED InRooms
<1>1. CASE UNCHANGED rooms
  BY <1>1, RoomsUnchanged
<1>2. ASSUME NEW s \in Sessions, LeaveOld(s) \/ Leave(s) \/ CloseLeave(s),
             ~UNCHANGED rooms
      PROVE  Membership!Next \/ UNCHANGED InRooms
  <2>1. PICK t \in SessionOrNull, r \in RoomOrNull :
          rooms' = [rooms EXCEPT ![r] = @ \ {t}]
    BY <1>2 DEF TypeOK, LeaveOld, Leave, CloseLeave
  <2> QED BY <2>1, RoomExit
<1>3. ASSUME NEW s \in Sessions, Enter(s) \/ Join(s)
      PROVE  Membership!Next
  <2>1. \A r \in Rooms : s \notin rooms[r]
    BY <1>3 DEF Enter, Join, RoomInv
  <2>2. argRoom[s] \in Rooms
    BY <1>3 DEF Enter, Join, RoomInv, TypeOK
  <2>3. rooms' = [rooms EXCEPT ![argRoom[s]] = @ \cup {s}]
    BY <1>3 DEF Enter, Join, EnterRoom
  <2> QED BY <2>1, <2>2, <2>3, RoomEnter
<1>4. \/ UNCHANGED rooms
      \/ \E s \in Sessions : LeaveOld(s) \/ Leave(s) \/ CloseLeave(s)
      \/ \E s \in Sessions : Enter(s) \/ Join(s)
  BY DEF Next, vars, mapVars, OpenStep, SwitchStep, CloseStep, Reject, Connect,
         CloseOld, DropOld, Register, Announce, SwitchRoom, AnnounceLeave,
         LeaveCut, Unregister, SetRoom, ContainerClose, CloseRemove, CloseCurrent, CloseUnmap, Reap,
         ReapRemove
<1> QED BY <1>1, <1>2, <1>3, <1>4

\* The endpoint's interleaved updates of the room map implement the abstract
\* membership: one session moves per step, never straight from room to room.
THEOREM RoomsImplementMembership == Spec => MembershipSpec
<1>1. Init => Membership!Init
  BY DEF Init, Membership!Init
<1>2. RoomInv => OneRoom
  BY DEF RoomInv, OneRoom
<1>3. TypeOK /\ RoomInv /\ [Next]_vars => Membership!Next \/ UNCHANGED InRooms
  BY <1>2, MembershipStep
<1> QED
  BY <1>1, <1>3, RoomInvariant, PTL DEF Spec, MembershipSpec, Membership!Spec, InRooms

-----------------------------------------------------------------------------
(* A registered session is in its room.                                    *)

Registered == {"enter", "announce", "idle"} \cup SwitchPcs

\* Once registered, a session's thread never registers it again; whoever takes
\* it out of a room in its place has unregistered it first.
MemberInv ==
  /\ \A s \in userSessions : pc[s] \in Registered
  /\ \A s \in Sessions : closePc[s] \in {"current", "unmap", "leave"} =>
       s \notin userSessions /\ pc[s] \in Registered
  /\ \A s \in Sessions : pc[s] = "leaveOld" =>
       /\ oldSession[s] \in Sessions
       /\ oldSession[s] \notin userSessions
       /\ pc[oldSession[s]] \in Registered
  /\ \A s \in userSessions \ cut :
       pc[s] \in {"idle", "announce", "leave"} /\ roomOf[s] # NULL =>
         s \in rooms[roomOf[s]]

LEMMA MemberStep ==
  ASSUME TypeOK, RoomInv, MemberInv, [Next]_vars
  PROVE  MemberInv'
<1> USE NullAssumption DEF MemberInv, Registered, RoomInv, TypeOK, mapVars,
            sessVars, handVars, closeVars, reaperVars, histVars, Goto,
            CloseGoto, Close, Starts, Unregister, EnterRoom
<1>1. ASSUME NEW s \in Sessions, Reject(s) PROVE MemberInv'
  BY <1>1 DEF Reject
<1>2. ASSUME NEW s \in Sessions, NEW u \in Users, NEW r \in Rooms \cup {NULL},
             Connect(s, u, r)
      PROVE MemberInv'
  BY <1>2 DEF Connect
<1>3. ASSUME NEW s \in Sessions, OpenStep(s) PROVE MemberInv'
  <2>1. CASE CloseOld(s)
    BY <2>1 DEF CloseOld
  <2>2. CASE DropOld(s)
    BY <2>2 DEF DropOld
  <2>3. CASE LeaveOld(s)
    BY <2>3 DEF LeaveOld
  <2>4. CASE Register(s)
    BY <2>4 DEF Register
  <2>5. CASE Enter(s)
    BY <2>5 DEF Enter
  <2>6. CASE Announce(s)
    BY <2>6 DEF Announce
  <2> QED BY <1>3, <2>1, <2>2, <2>3, <2>4, <2>5, <2>6 DEF OpenStep
<1>4. ASSUME NEW s \in Sessions, NEW r \in Rooms \cup {NULL}, SwitchRoom(s, r)
      PROVE MemberInv'
  BY <1>4 DEF SwitchRoom
<1>5. ASSUME NEW s \in Sessions, SwitchStep(s) PROVE MemberInv'
  <2>1. CASE Leave(s)
    BY <2>1 DEF Leave
  <2>2. CASE AnnounceLeave(s)
    BY <2>2 DEF AnnounceLeave
  <2>3. CASE LeaveCut(s)
    BY <2>3 DEF LeaveCut
  <2>4. CASE SetRoom(s)
    BY <2>4 DEF SetRoom
  <2>5. CASE Join(s)
    BY <2>5 DEF Join
  <2> QED BY <1>5, <2>1, <2>2, <2>3, <2>4, <2>5 DEF SwitchStep
<1>6. ASSUME NEW s \in Sessions, ContainerClose(s) PROVE MemberInv'
  BY <1>6 DEF ContainerClose
<1>7. ASSUME NEW s \in Sessions, CloseStep(s) PROVE MemberInv'
  <2>1. CASE CloseRemove(s)
    BY <2>1 DEF CloseRemove
  <2>2. CASE CloseCurrent(s)
    BY <2>2 DEF CloseCurrent
  <2>3. CASE CloseUnmap(s)
    BY <2>3 DEF CloseUnmap
  <2>4. CASE CloseLeave(s)
    BY <2>4 DEF CloseLeave
  <2> QED BY <1>7, <2>1, <2>2, <2>3, <2>4 DEF CloseStep
<1>8. ASSUME NEW s \in Sessions, Reap(s) PROVE MemberInv'
  BY <1>8 DEF Reap
<1>9. CASE ReapRemove
  BY <1>9 DEF ReapRemove
<1>10. CASE UNCHANGED vars
  BY <1>10 DEF vars
<1> QED
  BY <1>1, <1>2, <1>3, <1>4, <1>5, <1>6, <1>7, <1>8, <1>9, <1>10 DEF Next

\* However the handlers of all sessions overlap, a registered session between
\* two messages is in its own room, unless the leave broadcast of its last
\* SWITCH_ROOM threw.
THEOREM MembersReceive == Spec => []RegisteredInItsRoom
<1>1. Init => MemberInv
  BY DEF Init, MemberInv
<1>2. TypeOK /\ RoomInv /\ MemberInv /\ [Next]_vars => MemberInv'
  BY MemberStep
<1>3. MemberInv => RegisteredInItsRoom
  BY DEF MemberInv, RegisteredInItsRoom
<1> QED BY <1>1, <1>2, <1>3, RoomInvariant, PTL DEF Spec

-----------------------------------------------------------------------------
(* A closed session stays in a room only after a race.                     *)

\* A session that has not strayed is registered from Register until onClose
\* takes it out, and onClose then knows the room it is in.
StrayInv ==
  /\ \A s \in Sessions : pc[s] = "new" => conn[s] = "new" /\ closePc[s] = "none"
  /\ \A s \in Sessions : closePc[s] # "none" => conn[s] = "closed"
  /\ \A s \in Sessions \ strayed :
       conn[s] = "open" /\ pc[s] \in Registered => s \in userSessions
  /\ \A s \in Sessions \ strayed : \A r \in Rooms : s \in rooms[r] =>
       \/ s \in userSessions
       \/ closePc[s] \in {"current", "unmap", "leave"} /\ closeRoom[s] = r

LEMMA StrayStep ==
  ASSUME TypeOK, RoomInv, StrayInv, [Next]_vars
  PROVE  StrayInv'
<1> USE NullAssumption DEF StrayInv, Registered, RoomInv, TypeOK, mapVars,
            sessVars, handVars, closeVars, reaperVars, histVars, Goto,
            CloseGoto, Close, Starts, Unregister, EnterRoom
<1>1. ASSUME NEW s \in Sessions, Reject(s) PROVE StrayInv'
  BY <1>1 DEF Reject
<1>2. ASSUME NEW s \in Sessions, NEW u \in Users, NEW r \in Rooms \cup {NULL},
             Connect(s, u, r)
      PROVE StrayInv'
  BY <1>2 DEF Connect
<1>3. ASSUME NEW s \in Sessions, OpenStep(s) PROVE StrayInv'
  <2>1. CASE CloseOld(s)
    BY <2>1 DEF CloseOld
  <2>2. CASE DropOld(s)
    BY <2>2 DEF DropOld
  <2>3. CASE LeaveOld(s)
    BY <2>3 DEF LeaveOld
  <2>4. CASE Register(s)
    BY <2>4 DEF Register
  <2>5. CASE Enter(s)
    BY <2>5 DEF Enter
  <2>6. CASE Announce(s)
    <3>1. CASE UNCHANGED <<conn, closePc>>
      BY <2>6, <3>1 DEF Announce
    <3>2. CASE conn[s] = "open" /\ Close(s)
      BY <2>6, <3>2 DEF Announce
    <3> QED BY <2>6, <3>1, <3>2 DEF Announce
  <2> QED BY <1>3, <2>1, <2>2, <2>3, <2>4, <2>5, <2>6 DEF OpenStep
<1>4. ASSUME NEW s \in Sessions, NEW r \in Rooms \cup {NULL}, SwitchRoom(s, r)
      PROVE StrayInv'
  BY <1>4 DEF SwitchRoom
<1>5. ASSUME NEW s \in Sessions, SwitchStep(s) PROVE StrayInv'
  <2>1. CASE Leave(s)
    BY <2>1 DEF Leave
  <2>2. CASE AnnounceLeave(s)
    BY <2>2 DEF AnnounceLeave
  <2>3. CASE LeaveCut(s)
    BY <2>3 DEF LeaveCut
  <2>4. CASE SetRoom(s)
    BY <2>4 DEF SetRoom
  <2>5. CASE Join(s)
    BY <2>5 DEF Join
  <2> QED BY <1>5, <2>1, <2>2, <2>3, <2>4, <2>5 DEF SwitchStep
<1>6. ASSUME NEW s \in Sessions, ContainerClose(s) PROVE StrayInv'
  BY <1>6 DEF ContainerClose
<1>7. ASSUME NEW s \in Sessions, CloseStep(s) PROVE StrayInv'
  <2>1. CASE CloseRemove(s)
    BY <2>1 DEF CloseRemove
  <2>2. CASE CloseCurrent(s)
    BY <2>2 DEF CloseCurrent
  <2>3. CASE CloseUnmap(s)
    BY <2>3 DEF CloseUnmap
  <2>4. CASE CloseLeave(s)
    BY <2>4 DEF CloseLeave
  <2> QED BY <1>7, <2>1, <2>2, <2>3, <2>4 DEF CloseStep
<1>8. ASSUME NEW s \in Sessions, Reap(s) PROVE StrayInv'
  BY <1>8 DEF Reap
<1>9. CASE ReapRemove
  BY <1>9 DEF ReapRemove
<1>10. CASE UNCHANGED vars
  BY <1>10 DEF vars
<1> QED
  BY <1>1, <1>2, <1>3, <1>4, <1>5, <1>6, <1>7, <1>8, <1>9, <1>10 DEF Next

\* A closed, unregistered session is left behind in a room only if a reconnect
\* or the heartbeat check unregistered it, or it entered the room after it was
\* closed: a session whose own onClose cleans up is in no room afterwards.
THEOREM OnlyRacesLeaveMembers == Spec => []StaleOnlyByRace
<1>1. Init => StrayInv
  BY DEF Init, StrayInv
<1>2. TypeOK /\ RoomInv /\ StrayInv /\ [Next]_vars => StrayInv'
  BY StrayStep
<1>3. StrayInv => StaleOnlyByRace
  BY DEF StrayInv, StaleOnlyByRace, InSomeRoom, Settled
<1> QED BY <1>1, <1>2, <1>3, RoomInvariant, PTL DEF Spec

-----------------------------------------------------------------------------
(* An open session is not forgotten.                                       *)

\* Only sessions that are closed by then are taken out of userSessions: onOpen
\* and the heartbeat check close a session before they remove it.
KeepInv ==
  /\ \A s \in Sessions : pc[s] = "new" <=> conn[s] = "new"
  /\ \A s \in userSessions : conn[s] # "new"
  /\ \A u \in Users : usernameToSession[u] # NULL =>
       conn[usernameToSession[u]] # "new"
  /\ \A s \in Sessions : closePc[s] # "none" => conn[s] = "closed"
  /\ \A s \in Sessions : pc[s] = "closeOld" =>
       oldSession[s] \in Sessions /\ conn[oldSession[s]] # "new"
  /\ \A s \in Sessions : pc[s] \in {"awaitOld", "dropOld"} =>
       oldSession[s] \in Sessions /\ conn[oldSession[s]] = "closed"
  /\ reaperPc # "idle" => reaping \in Sessions /\ conn[reaping] = "closed"
  /\ \A s \in Sessions :
       conn[s] = "open" /\ pc[s] \in Registered => s \in userSessions

LEMMA KeepStep ==
  ASSUME TypeOK, KeepInv, [Next]_vars
  PROVE  KeepInv'
<1> USE NullAssumption DEF KeepInv, Registered, TypeOK, mapVars,
            sessVars, handVars, closeVars, reaperVars, histVars, Goto,
            CloseGoto, Close, Starts, Unregister, EnterRoom
<1>1. ASSUME NEW s \in Sessions, Reject(s) PROVE KeepInv'
  BY <1>1 DEF Reject
<1>2. ASSUME NEW s \in Sessions, NEW u \in Users, NEW r \in Rooms \cup {NULL},
             Connect(s, u, r)
      PROVE KeepInv'
  BY <1>2 DEF Connect
<1>3. ASSUME NEW s \in Sessions, OpenStep(s) PROVE KeepInv'
  <2>1. CASE CloseOld(s)
    BY <2>1 DEF CloseOld
  <2>2. CASE DropOld(s)
    BY <2>2 DEF DropOld
  <2>3. CASE LeaveOld(s)
    BY <2>3 DEF LeaveOld
  <2>4. CASE Register(s)
    BY <2>4 DEF Register
  <2>5. CASE Enter(s)
    BY <2>5 DEF Enter
  <2>6. CASE Announce(s)
    <3>1. CASE UNCHANGED <<conn, closePc>>
      BY <2>6, <3>1 DEF Announce
    <3>2. CASE conn[s] = "open" /\ Close(s)
      BY <2>6, <3>2 DEF Announce
    <3> QED BY <2>6, <3>1, <3>2 DEF Announce
  <2> QED BY <1>3, <2>1, <2>2, <2>3, <2>4, <2>5, <2>6 DEF OpenStep
<1>4. ASSUME NEW s \in Sessions, NEW r \in Rooms \cup {NULL}, SwitchRoom(s, r)
      PROVE KeepInv'
  BY <1>4 DEF SwitchRoom
<1>5. ASSUME NEW s \in Sessions, SwitchStep(s) PROVE KeepInv'
  <2>1. CASE Leave(s)
    BY <2>1 DEF Leave
  <2>2. CASE AnnounceLeave(s)
    BY <2>2 DEF AnnounceLeave
  <2>3. CASE LeaveCut(s)
    BY <2>3 DEF LeaveCut
  <2>4. CASE SetRoom(s)
    BY <2>4 DEF SetRoom
  <2>5. CASE Join(s)
    BY <2>5 DEF Join
  <2> QED BY <1>5, <2>1, <2>2, <2>3, <2>4, <2>5 DEF SwitchStep
<1>6. ASSUME NEW s \in Sessions, ContainerClose(s) PROVE KeepInv'
  BY <1>6 DEF ContainerClose
<1>7. ASSUME NEW s \in Sessions, CloseStep(s) PROVE KeepInv'
  <2>1. CASE CloseRemove(s)
    BY <2>1 DEF CloseRemove
  <2>2. CASE CloseCurrent(s)
    BY <2>2 DEF CloseCurrent
  <2>3. CASE CloseUnmap(s)
    BY <2>3 DEF CloseUnmap
  <2>4. CASE CloseLeave(s)
    BY <2>4 DEF CloseLeave
  <2> QED BY <1>7, <2>1, <2>2, <2>3, <2>4 DEF CloseStep
<1>8. ASSUME NEW s \in Sessions, Reap(s) PROVE KeepInv'
  BY <1>8 DEF Reap
<1>9. CASE ReapRemove
  BY <1>9 DEF ReapRemove
<1>10. CASE UNCHANGED vars
  BY <1>10 DEF vars
<1> QED
  BY <1>1, <1>2, <1>3, <1>4, <1>5, <1>6, <1>7, <1>8, <1>9, <1>10 DEF Next

\* An open session whose onOpen has registered it can be found by it.
OpenAreRegistered == \A s \in Sessions :
  conn[s] = "open" /\ pc[s] = "idle" => s \in userSessions

\* However connections, closes and the heartbeat check overlap, none of them
\* takes a session out of userSessions that is still open: a connected user's
\* CHAT, SWITCH_ROOM and PONG always find their UserSession, and the heartbeat
\* check always looks at the connection.
THEOREM OpenSessionsAreKept == Spec => []OpenAreRegistered
<1>1. Init => KeepInv
  BY DEF Init, KeepInv
<1>2. TypeOK /\ KeepInv /\ [Next]_vars => KeepInv'
  BY KeepStep
<1>3. KeepInv => OpenAreRegistered
  BY DEF KeepInv, OpenAreRegistered, Registered
<1> QED BY <1>1, <1>2, <1>3, TypeCorrect, PTL DEF Spec

-----------------------------------------------------------------------------
(* The maps agree.                                                         *)

\* A user name in a map or in a local belongs to the session, a session is closed
\* exactly when its onClose has started, and only SWITCH_ROOM is cut.
OwnerInv ==
  /\ \A u \in Users : \A s \in Sessions :
       usernameToSession[u] = s => userOf[s] = u
  /\ \A s \in Sessions : oldSession[s] # NULL =>
       userOf[s] # NULL /\ userOf[oldSession[s]] = userOf[s]
  /\ \A s \in Sessions : pc[s] \in {"closeOld", "awaitOld", "dropOld", "leaveOld"} =>
       oldSession[s] \in Sessions
  /\ \A s \in Sessions : pc[s] = "new" =>
       userOf[s] = NULL /\ conn[s] = "new" /\ closePc[s] = "none" /\ reaping # s
  /\ \A s \in Sessions : pc[s] # "new" => conn[s] # "new"
  /\ \A s \in Sessions : conn[s] = "closed" <=> closePc[s] # "none"
  /\ \A s \in Sessions : pc[s] \in {"new", "join"} \cup OpenPcs => s \notin cut

\* Session s is open, or its onClose is under way.
Live(s) == conn[s] = "open" \/ closePc[s] \notin {"none", "done"}

\* onOpen(x) closes t, the user's old session.
Replaces(x, t) == pc[x] \in {"closeOld", "awaitOld"} /\ oldSession[x] = t

\* The handlers of a user without a race: one at a time, but for the onClose that
\* it called and waits for.
OneHandler(s) ==
  /\ pc[s] \notin {"dropOld", "leaveOld"}
  /\ pc[s] # "idle" => conn[s] = "open"
  /\ pc[s] \in {"closeOld", "awaitOld"} =>
       /\ oldSession[s] # s
       /\ pc[oldSession[s]] = "idle"
       /\ conn[oldSession[s]] = IF pc[s] = "closeOld" THEN "open" ELSE "closed"
  /\ \A t \in Sessions : userOf[t] = userOf[s] /\ t # s /\ Live(s) /\ Live(t) =>
       Replaces(s, t) \/ Replaces(t, s)
  /\ reaping = s =>
       /\ reaperPc = "await"
       /\ conn[s] = "closed"
       /\ \A t \in Sessions : userOf[t] = userOf[s] /\ t # s => ~Live(t)

\* What the three maps hold of a session then, at every point of its handlers.
InMaps(s) ==
  /\ s \in userSessions <=>
       \/ conn[s] = "open" /\ pc[s] \notin {"closeOld", "awaitOld", "register"}
       \/ closePc[s] = "remove"
  /\ usernameToSession[userOf[s]] = s <=>
       /\ Live(s) /\ closePc[s] # "leave"
       /\ \A x \in Sessions : ~Replaces(x, s)
  /\ closePc[s] = "unmap" => usernameToSession[userOf[s]] = s
  /\ closePc[s] \in {"current", "unmap", "leave"} => closeRoom[s] = roomOf[s]
  /\ \A r \in Rooms : s \in rooms[r] <=>
       /\ s \notin cut /\ roomOf[s] = r
       /\ \/ conn[s] = "open" /\ pc[s] \in {"idle", "announce", "leave"}
          \/ closePc[s] \in {"remove", "current", "unmap", "leave"}

\* The session of a user of whom no two handlers have overlapped.
Clean(s) == userOf[s] \notin raced \cup {NULL}

AgreeInv == \A s \in Sessions : Clean(s) => OneHandler(s) /\ InMaps(s)

\* Every handler keeps to the sessions of its own user.
LEMMA OwnerStep ==
  ASSUME TypeOK, MemberInv, OwnerInv, [Next]_vars
  PROVE  OwnerInv'
<1> USE NullAssumption DEF OwnerInv, MemberInv, Registered, TypeOK, mapVars,
            sessVars, handVars,
            closeVars, reaperVars, histVars, Goto, CloseGoto, Close, Starts,
            Unregister, EnterRoom
<1>1. ASSUME NEW s \in Sessions, Reject(s) PROVE OwnerInv'
  BY <1>1 DEF Reject
<1>2. ASSUME NEW s \in Sessions, NEW u \in Users, NEW r \in Rooms \cup {NULL},
             Connect(s, u, r)
      PROVE OwnerInv'
  BY <1>2 DEF Connect
<1>3. ASSUME NEW s \in Sessions, OpenStep(s) PROVE OwnerInv'
  <2>1. CASE CloseOld(s)
    BY <2>1 DEF CloseOld
  <2>2. CASE DropOld(s)
    BY <2>2 DEF DropOld
  <2>3. CASE LeaveOld(s)
    BY <2>3 DEF LeaveOld
  <2>4. CASE Register(s)
    BY <2>4 DEF Register
  <2>5. CASE Enter(s)
    BY <2>5 DEF Enter
  <2>6. CASE Announce(s)
    BY <2>6 DEF Announce
  <2> QED BY <1>3, <2>1, <2>2, <2>3, <2>4, <2>5, <2>6 DEF OpenStep
<1>4. ASSUME NEW s \in Sessions, NEW r \in Rooms \cup {NULL}, SwitchRoom(s, r)
      PROVE OwnerInv'
  BY <1>4 DEF SwitchRoom
<1>5. ASSUME NEW s \in Sessions, SwitchStep(s) PROVE OwnerInv'
  <2>1. CASE Leave(s)
    BY <2>1 DEF Leave
  <2>2. CASE AnnounceLeave(s)
    BY <2>2 DEF AnnounceLeave
  <2>3. CASE LeaveCut(s)
    BY <2>3 DEF LeaveCut
  <2>4. CASE SetRoom(s)
    BY <2>4 DEF SetRoom
  <2>5. CASE Join(s)
    BY <2>5 DEF Join
  <2> QED BY <1>5, <2>1, <2>2, <2>3, <2>4, <2>5 DEF SwitchStep
<1>6. ASSUME NEW s \in Sessions, ContainerClose(s) PROVE OwnerInv'
  BY <1>6 DEF ContainerClose
<1>7. ASSUME NEW s \in Sessions, CloseStep(s) PROVE OwnerInv'
  <2>1. CASE CloseRemove(s)
    BY <2>1 DEF CloseRemove
  <2>2. CASE CloseCurrent(s)
    BY <2>2 DEF CloseCurrent
  <2>3. CASE CloseUnmap(s)
    BY <2>3 DEF CloseUnmap
  <2>4. CASE CloseLeave(s)
    BY <2>4 DEF CloseLeave
  <2> QED BY <1>7, <2>1, <2>2, <2>3, <2>4 DEF CloseStep
<1>8. ASSUME NEW s \in Sessions, Reap(s) PROVE OwnerInv'
  BY <1>8 DEF Reap
<1>9. CASE ReapRemove
  BY <1>9 DEF ReapRemove
<1>10. CASE UNCHANGED vars
  BY <1>10 DEF vars
<1> QED
  BY <1>1, <1>2, <1>3, <1>4, <1>5, <1>6, <1>7, <1>8, <1>9, <1>10 DEF Next

\* A handler that starts finds its user's other handlers ended, or its user races
\* from then on; so each step starts from a known state of the maps.
LEMMA AgreeStep ==
  ASSUME TypeOK, RoomInv, MemberInv, OwnerInv, AgreeInv, [Next]_vars
  PROVE  AgreeInv'
<1> USE NullAssumption DEF AgreeInv, Clean, OneHandler,
            InMaps, Live, Replaces, Busy, OwnerInv, RoomInv, MemberInv, Registered, TypeOK, mapVars, sessVars, handVars,
            closeVars, reaperVars, histVars, Goto, CloseGoto, Close, Starts,
            Unregister, EnterRoom
<1>1. ASSUME NEW s \in Sessions, Reject(s) PROVE AgreeInv'
  BY <1>1 DEF Reject
<1>2. ASSUME NEW s \in Sessions, NEW u \in Users, NEW r \in Rooms \cup {NULL},
             Connect(s, u, r)
      PROVE AgreeInv'
  <2>1. /\ pc[s] = "new" /\ userOf[s] = NULL /\ u # NULL
        /\ userOf' = [userOf EXCEPT ![s] = u]
        /\ pc'[s] \in {"register", "closeOld"}
        /\ \A x \in Sessions \ {s} : pc'[x] = pc[x] /\ conn'[x] = conn[x] /\ userOf'[x] = userOf[x]
        /\ conn'[s] = "open" /\ closePc' = closePc /\ closePc[s] = "none"
        /\ raced \subseteq raced' /\ (Busy(u) => u \in raced')
    BY <1>2 DEF Connect
  <2> SUFFICES ASSUME NEW z \in Sessions, Clean(z)'
               PROVE  OneHandler(z)' /\ InMaps(z)'
    BY DEF AgreeInv
  <2>2. CASE userOf'[z] # u
    <3>1. z # s /\ Clean(z) /\ OneHandler(z) /\ InMaps(z)
      BY <2>1, <2>2
    <3>2. OneHandler(z)'
      BY <1>2, <2>1, <2>2, <3>1 DEF Connect
    <3>3. InMaps(z)'
      BY <1>2, <2>1, <2>2, <3>1 DEF Connect
    <3> QED BY <3>2, <3>3
  <2>3. CASE userOf'[z] = u
    <3>1. ~Busy(u) /\ u \notin raced
      BY <2>1, <2>3
    <3>2. CASE z # s
      <4>1. OneHandler(z)'
        BY <1>2, <2>1, <2>3, <3>1, <3>2 DEF Connect
      <4>2. InMaps(z)'
        BY <1>2, <2>1, <2>3, <3>1, <3>2 DEF Connect
      <4> QED BY <4>1, <4>2
    <3>3. CASE z = s
      <4>1. OneHandler(z)'
        <5>1. \A t \in Sessions : userOf[t] = u /\ Live(t) =>
                t = usernameToSession[u] /\ conn[t] = "open" /\ pc[t] = "idle"
          BY <3>1
        <5>2. usernameToSession[u] # NULL => usernameToSession[u] \in Sessions /\ userOf[usernameToSession[u]] = u
          BY DEF TypeOK
        <5>3. /\ oldSession'[s] = usernameToSession[u]
              /\ pc'[s] = IF usernameToSession[u] = NULL THEN "register" ELSE "closeOld"
          BY <1>2 DEF Connect
        <5>4. usernameToSession[u] # NULL =>
                /\ usernameToSession[u] # s /\ conn[usernameToSession[u]] = "open"
                /\ pc[usernameToSession[u]] = "idle"
          <6> SUFFICES ASSUME NEW t \in Sessions, t = usernameToSession[u], userOf[t] = u
                       PROVE  t # s /\ conn[t] = "open" /\ pc[t] = "idle"
            BY <5>2
          <6>1. Clean(t)
            BY <2>1, <3>1
          <6>2. Live(t)
            BY <6>1
          <6> QED BY <2>1, <5>1, <6>2
        <5>5. \A t \in Sessions : userOf'[t] = u /\ t # s /\ Live(t)' => Replaces(s, t)'
          BY <2>1, <5>1, <5>2, <5>3
        <5>6. reaping' # s
          BY <1>2, <2>1, <3>1 DEF Connect
        <5> QED BY <2>1, <2>3, <3>3, <5>2, <5>3, <5>4, <5>5, <5>6
      <4>2. InMaps(z)'
        BY <1>2, <2>1, <2>3, <3>1, <3>3 DEF Connect
      <4> QED BY <4>1, <4>2
    <3> QED BY <3>2, <3>3
  <2> QED BY <2>2, <2>3
<1>3. ASSUME NEW s \in Sessions, OpenStep(s) PROVE AgreeInv'
  <2>1. CASE CloseOld(s)
    BY <2>1 DEF CloseOld
  <2>2. CASE DropOld(s)
    BY <2>2 DEF DropOld
  <2>3. CASE LeaveOld(s)
    BY <2>3 DEF LeaveOld
  <2>4. CASE Register(s)
    BY <2>4 DEF Register
  <2>5. CASE Enter(s)
    BY <2>5 DEF Enter
  <2>6. CASE Announce(s)
    BY <2>6 DEF Announce
  <2> QED BY <1>3, <2>1, <2>2, <2>3, <2>4, <2>5, <2>6 DEF OpenStep
<1>4. ASSUME NEW s \in Sessions, NEW r \in Rooms \cup {NULL}, SwitchRoom(s, r)
      PROVE AgreeInv'
  BY <1>4 DEF SwitchRoom
<1>5. ASSUME NEW s \in Sessions, SwitchStep(s) PROVE AgreeInv'
  <2>1. CASE Leave(s)
    BY <2>1 DEF Leave
  <2>2. CASE AnnounceLeave(s)
    BY <2>2 DEF AnnounceLeave
  <2>3. CASE LeaveCut(s)
    BY <2>3 DEF LeaveCut
  <2>4. CASE SetRoom(s)
    BY <2>4 DEF SetRoom
  <2>5. CASE Join(s)
    BY <2>5 DEF Join
  <2> QED BY <1>5, <2>1, <2>2, <2>3, <2>4, <2>5 DEF SwitchStep
<1>6. ASSUME NEW s \in Sessions, ContainerClose(s) PROVE AgreeInv'
  BY <1>6 DEF ContainerClose
<1>7. ASSUME NEW s \in Sessions, CloseStep(s) PROVE AgreeInv'
  <2>1. CASE CloseRemove(s)
    BY <2>1 DEF CloseRemove
  <2>2. CASE CloseCurrent(s)
    BY <2>2 DEF CloseCurrent
  <2>3. CASE CloseUnmap(s)
    <3>1. /\ closePc[s] = "unmap" /\ closePc' = [closePc EXCEPT ![s] = "leave"]
          /\ usernameToSession' = [usernameToSession EXCEPT ![userOf[s]] = NULL]
          /\ UNCHANGED <<conn, userSessions, rooms, sessVars, handVars, closeRoom,
                         reaperVars, histVars>>
      BY <2>3 DEF CloseUnmap
    <3> SUFFICES ASSUME NEW z \in Sessions, Clean(z)'
                 PROVE  OneHandler(z)' /\ InMaps(z)'
      BY DEF AgreeInv
    <3>2. OneHandler(z)'
      BY <3>1
    <3>3. InMaps(z)'
      <4>1. CASE userOf[z] # userOf[s]
        BY <3>1, <4>1
      <4>2. CASE userOf[z] = userOf[s]
        BY <3>1, <4>2
      <4> QED BY <4>1, <4>2
    <3> QED BY <3>2, <3>3
  <2>4. CASE CloseLeave(s)
    BY <2>4 DEF CloseLeave
  <2> QED BY <1>7, <2>1, <2>2, <2>3, <2>4 DEF CloseStep
<1>8. ASSUME NEW s \in Sessions, Reap(s) PROVE AgreeInv'
  BY <1>8 DEF Reap
<1>9. CASE ReapRemove
  BY <1>9 DEF ReapRemove
<1>10. CASE UNCHANGED vars
  BY <1>10 DEF vars
<1> QED
  BY <1>1, <1>2, <1>3, <1>4, <1>5, <1>6, <1>7, <1>8, <1>9, <1>10 DEF Next

\* A user whose handlers have never overlapped finds, whenever none of them runs,
\* the three maps in agreement about each of the user's sessions, whatever other
\* users and the heartbeat check do and whichever broadcast throws.
THEOREM MapsAgreeWithoutRaces == Spec => []MapsAgree
<1>1. Init => MemberInv /\ OwnerInv /\ AgreeInv
  BY NullAssumption DEF Init, MemberInv, OwnerInv, AgreeInv, Clean, OpenPcs
<1>2. TypeOK /\ RoomInv /\ MemberInv /\ [Next]_vars => MemberInv'
  BY MemberStep
<1>3. TypeOK /\ MemberInv /\ OwnerInv /\ [Next]_vars => OwnerInv'
  BY OwnerStep
<1>4. TypeOK /\ RoomInv /\ MemberInv /\ OwnerInv /\ AgreeInv /\ [Next]_vars => AgreeInv'
  BY AgreeStep
<1>5. TypeOK /\ OwnerInv /\ AgreeInv => MapsAgree
  <2> SUFFICES ASSUME TypeOK, OwnerInv, AgreeInv, NEW s \in Sessions, Clean(s),
                      ~Busy(userOf[s])
               PROVE  /\ s \in userSessions <=> conn[s] = "open"
                      /\ s \in userSessions <=> usernameToSession[userOf[s]] = s
                      /\ \A r \in Rooms :
                           s \in rooms[r] <=> s \in userSessions \ cut /\ roomOf[s] = r
    BY DEF MapsAgree, Clean
  <2>1. \A t \in Sessions : userOf[t] = userOf[s] =>
          pc[t] \in {"new", "idle"} /\ closePc[t] \in {"none", "done"}
    BY DEF Busy
  <2>2. InMaps(s) /\ pc[s] = "idle"
    BY <2>1 DEF AgreeInv, Clean, OwnerInv
  <2>3. \A x \in Sessions : ~Replaces(x, s)
    BY <2>1, NullAssumption DEF Replaces, OwnerInv
  <2> QED BY <2>1, <2>2, <2>3 DEF InMaps, Live, OwnerInv
<1> QED
  BY <1>1, <1>2, <1>3, <1>4, <1>5, RoomInvariant, PTL DEF Spec

=============================================================================
