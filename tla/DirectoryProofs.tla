--------------------------- MODULE DirectoryProofs ---------------------------
(***************************************************************************)
(* Proofs about Directory, for any number of requests, names and rooms.    *)
(* Rooms and accounts each have an inductive invariant of their own, on top *)
(* of the types.  They meet in the ids that tokens carry.                  *)
(***************************************************************************)
EXTENDS Directory, TLAPS

-----------------------------------------------------------------------------
(* Types.                                                                  *)

Typed == TypeOK /\ DOMAIN arg = Requests

LEMMA TypedInit == Init => Typed
  BY DEF Init, Typed, TypeOK, Requests, Pcs, RoomRows

\* Every request's parameters are there once it has begun.
LEMMA TypedStep == Typed /\ [Next]_vars => Typed'
<1> SUFFICES ASSUME Typed, [Next]_vars PROVE Typed'
  OBVIOUS
<1> USE RequestAssumption
<1> USE DEF Typed, TypeOK, Requests, accountVars, roomVars, Goto, Callers
<1>1. ASSUME NEW c \in Registrations, NEW n \in Names, NEW p \in Passwords,
             Register(c, n, p)
      PROVE  Typed'
  BY <1>1 DEF Register, Begin, Pcs
<1>2. ASSUME NEW c \in Registrations, CheckName(c) PROVE Typed'
  BY <1>2 DEF CheckName, Pcs, Answers
<1>3. ASSUME NEW c \in Registrations, InsertUser(c) PROVE Typed'
  <2>1. UserRow(c) \in [id : Nat, name : Names, pwd : Passwords, by : Registrations]
    BY <1>3 DEF InsertUser, UserRow
  <2> QED
    BY <1>3, <2>1 DEF InsertUser, Reply, Pcs, Answers
<1>4. ASSUME NEW c \in Logins, NEW n \in Names, NEW p \in Passwords,
             Login(c, n, p)
      PROVE  Typed'
  BY <1>4 DEF Login, Begin, Pcs
<1>5. ASSUME NEW c \in Logins, IssueToken(c) PROVE Typed'
  BY <1>5 DEF IssueToken, UsersNamed, Pcs, Answers
<1>6. ASSUME NEW c \in Creations, NEW w \in Callers, CreateRoom(c, w)
      PROVE  Typed'
  <2>1. CASE UNCHANGED <<rooms, shown, nextRoom>>
    BY <1>6, <2>1 DEF CreateRoom, Reply, Pcs, Answers
  <2>2. CASE ~ UNCHANGED <<rooms, shown, nextRoom>>
    <3>1. /\ nextRoom \in RoomIds
          /\ rooms' = rooms \cup {RoomRow(c, w)}
          /\ shown' = shown \cup {RoomRow(c, w)}
          /\ nextRoom' = nextRoom + 1
          /\ Reply(c, "ok")
          /\ UNCHANGED <<users, nextUser, tokens, log, arg, known>>
      BY <1>6, <2>2 DEF CreateRoom, NewRoomId
    <3>2. RoomRow(c, w) \in RoomRows /\ RoomRow(c, w).owner \in Callers
      <4>1. getCreatorId(w) \in Nat
        BY <1>6 DEF getCreatorId
      <4> QED
        BY <1>6, <3>1, <4>1 DEF RoomRow, RoomRows, NewRoomId
    <3>3. pc' \in [Requests -> Pcs]
      BY <3>1 DEF Reply, Pcs, Answers
    <3>4. /\ \A d \in Registrations \cup Logins : pc'[d] = pc[d]
          /\ \A d \in Deletions : pc'[d] = pc[d]
      BY <3>1 DEF Reply
    <3> QED
      BY <3>1, <3>2, <3>3, <3>4
  <2> QED
    BY <2>1, <2>2
<1>7. ASSUME NEW c \in Deletions, NEW r \in shown, NEW w \in Callers,
             DeleteRoom(c, r.id, w)
      PROVE  Typed'
  <2>1. r.id \in RoomIds
    BY <1>7 DEF RoomRows
  <2> QED
    BY <1>7, <2>1 DEF DeleteRoom, Begin, Pcs
<1>8. ASSUME NEW c \in Deletions, CheckCreator(c) PROVE Typed'
  BY <1>8 DEF CheckCreator, Pcs, Answers
<1>9. ASSUME NEW c \in Deletions, RemoveRoom(c) PROVE Typed'
  BY <1>9 DEF RemoveRoom, Reply, Pcs, Answers
<1>10. ASSUME NEW k \in Keys, Post(k) PROVE Typed'
  BY <1>10 DEF Post, RoomRows
<1>11. CASE UNCHANGED vars
  BY <1>11 DEF vars
<1> QED
  BY <1>1, <1>2, <1>3, <1>4, <1>5, <1>6, <1>7, <1>8, <1>9, <1>10, <1>11 DEF Next

\* Rows, parameters and answers have their types in every state.
THEOREM DirectoryTypeCorrect == Spec => []TypeOK
<1>1. Typed => TypeOK
  BY DEF Typed
<1> QED
  BY <1>1, TypedInit, TypedStep, PTL DEF Spec

-----------------------------------------------------------------------------
(* Rooms.                                                                  *)

\* Ids are never given twice, so what was true of the room that a deletion found
\* stays true of every room of that id, and each history has one room at most.
RoomsInv ==
  /\ \A r \in shown : r.id < nextRoom /\ r.creator = getCreatorId(r.owner)
  /\ \A k \in Keys : log[k] \subseteq {r.by : r \in {q \in shown : q.id = k}}
  /\ \A r, s \in shown : r.id = s.id => r = s
  /\ \A d \in Deletions : pc[d] # "idle" => arg[d].room < nextRoom
  /\ \A d \in Deletions : pc[d] = "delete" =>
       \A r \in shown : r.id = arg[d].room => r.creator = getCreatorId(arg[d].caller)
  /\ \A d \in Deletions : pc[d] = "ok" => \A r \in rooms : r.id # arg[d].room
  /\ DeletedOnce

\* A step that leaves the rooms and the deletions alone.
LEMMA RoomsUntouched ==
  ASSUME RoomsInv, UNCHANGED roomVars,
         \A d \in Deletions : pc'[d] = pc[d] /\ arg'[d] = arg[d]
  PROVE  RoomsInv'
BY DEF RoomsInv, DeletedOnce, roomVars

LEMMA RoomsInvInit == Init => RoomsInv
  BY DEF Init, RoomsInv, DeletedOnce, Requests

\* A new room has an id of its own.
LEMMA CreateKeepsRooms ==
  ASSUME Typed, RoomsInv, NEW c \in Creations, NEW w \in Callers,
         CreateRoom(c, w)
  PROVE  RoomsInv'
<1> USE RequestAssumption, RoomIdsAssumption
<1>1. \A d \in Deletions : pc'[d] = pc[d] /\ arg'[d] = arg[d]
  BY DEF CreateRoom, Reply, Goto, Typed, TypeOK, Requests
<1>2. CASE UNCHANGED <<rooms, shown, nextRoom>>
  BY <1>1, <1>2, RoomsUntouched DEF CreateRoom, roomVars
<1>3. CASE ~ UNCHANGED <<rooms, shown, nextRoom>>
  <2> DEFINE row == RoomRow(c, w)
  <2>1. /\ rooms' = rooms \cup {row} /\ shown' = shown \cup {row}
        /\ nextRoom' = nextRoom + 1 /\ log' = log
    BY <1>3 DEF CreateRoom
  <2>2. /\ nextRoom \in Nat /\ row.id = nextRoom
        /\ row.creator = getCreatorId(row.owner)
        /\ \A r \in shown : r.id \in Nat /\ r.id < nextRoom
        /\ rooms \subseteq shown
        /\ \A d \in Deletions : pc[d] # "idle" =>
             arg[d].room \in Nat /\ arg[d].room < nextRoom
    BY DEF Typed, TypeOK, RoomsInv, RoomRows, RoomRow, NewRoomId
  <2> HIDE DEF row
  <2>3. \A r \in shown' : r.id < nextRoom' /\ r.creator = getCreatorId(r.owner)
    BY <2>1, <2>2 DEF RoomsInv
  <2>4. \A k \in Keys : log'[k] \subseteq {r.by : r \in {q \in shown' : q.id = k}}
    BY <2>1 DEF RoomsInv
  <2>5. \A r, s \in shown' : r.id = s.id => r = s
    BY <2>1, <2>2 DEF RoomsInv
  <2>6. \A d \in Deletions : pc'[d] # "idle" => arg'[d].room < nextRoom'
    BY <2>1, <2>2, <1>1
  <2>7. \A d \in Deletions : pc'[d] = "delete" => \A r \in shown' :
          r.id = arg'[d].room => r.creator = getCreatorId(arg'[d].caller)
    BY <2>1, <2>2, <1>1 DEF RoomsInv
  <2>8. \A d \in Deletions : pc'[d] = "ok" => \A r \in rooms' : r.id # arg'[d].room
    BY <2>1, <2>2, <1>1 DEF RoomsInv
  <2>9. DeletedOnce'
    BY <1>1 DEF RoomsInv, DeletedOnce
  <2> QED
    BY <2>3, <2>4, <2>5, <2>6, <2>7, <2>8, <2>9 DEF RoomsInv, getCreatorId
<1> QED
  BY <1>2, <1>3

\* Of two deletions only the one that still finds the row is told so.
LEMMA RemoveKeepsRooms ==
  ASSUME Typed, RoomsInv, NEW c \in Deletions, RemoveRoom(c)
  PROVE  RoomsInv'
<1>1. /\ arg' = arg /\ shown' = shown /\ log' = log /\ nextRoom' = nextRoom
      /\ rooms' \subseteq rooms /\ c \in DOMAIN pc
      /\ \A d \in Deletions \ {c} : pc'[d] = pc[d]
      /\ pc[c] = "delete" /\ pc'[c] \in {"ok", "failed"}
  BY DEF RemoveRoom, Reply, Goto, roomVars, Typed, TypeOK, Requests
<1>2. pc'[c] = "ok" => /\ \E r \in rooms : r.id = arg[c].room
                       /\ \A r \in rooms' : r.id # arg[c].room
  <2>1. CASE UNCHANGED rooms /\ Goto(c, "failed")
    BY <2>1, <1>1 DEF Goto
  <2>2. CASE rooms' = {r \in rooms : r.id # arg[c].room}
    BY <2>2, <1>1 DEF RemoveRoom, Goto
  <2> QED
    BY <2>1, <2>2 DEF RemoveRoom
<1>3. DeletedOnce'
  BY <1>1, <1>2 DEF RoomsInv, DeletedOnce
<1> QED
  BY <1>1, <1>2, <1>3 DEF RoomsInv

LEMMA RoomsInvStep == Typed /\ RoomsInv /\ [Next]_vars => RoomsInv'
<1> SUFFICES ASSUME Typed, RoomsInv, [Next]_vars PROVE RoomsInv'
  OBVIOUS
<1> USE RequestAssumption
<1> USE DEF Goto
<1>1. ASSUME NEW c \in Registrations,
             \/ \E n \in Names, p \in Passwords : Register(c, n, p)
             \/ CheckName(c) \/ InsertUser(c)
      PROVE  RoomsInv'
  <2>1. UNCHANGED roomVars /\ \A d \in Deletions : pc'[d] = pc[d] /\ arg'[d] = arg[d]
    BY <1>1 DEF Register, Begin, CheckName, InsertUser, Reply, Typed, TypeOK, Requests
  <2> QED
    BY <2>1, RoomsUntouched
<1>2. ASSUME NEW c \in Logins,
             (\E n \in Names, p \in Passwords : Login(c, n, p)) \/ IssueToken(c)
      PROVE  RoomsInv'
  <2>1. UNCHANGED roomVars /\ \A d \in Deletions : pc'[d] = pc[d] /\ arg'[d] = arg[d]
    BY <1>2 DEF Login, Begin, IssueToken, Typed, TypeOK, Requests
  <2> QED
    BY <2>1, RoomsUntouched
<1>3. ASSUME NEW c \in Creations, NEW w \in Callers, CreateRoom(c, w)
      PROVE  RoomsInv'
  BY <1>3, CreateKeepsRooms
<1>4. ASSUME NEW c \in Deletions, NEW r \in shown, NEW w \in Callers,
             DeleteRoom(c, r.id, w)
      PROVE  RoomsInv'
  BY <1>4 DEF DeleteRoom, Begin, RoomsInv, DeletedOnce, roomVars, Typed, TypeOK, Requests
<1>5. ASSUME NEW c \in Deletions, CheckCreator(c) PROVE RoomsInv'
  <2>1. /\ UNCHANGED roomVars /\ arg' = arg /\ pc[c] = "find"
        /\ \A d \in Deletions \ {c} : pc'[d] = pc[d]
        /\ pc'[c] \in {"nobody", "delete", "denied", "failed"}
    BY <1>5 DEF CheckCreator, Typed, TypeOK, Requests
  <2>2. pc'[c] = "delete" =>
          \E r \in rooms : /\ r.id = arg[c].room
                           /\ r.creator = getCreatorId(arg[c].caller)
    BY <1>5 DEF CheckCreator, Typed, TypeOK, Requests
  <2> QED
    BY <2>1, <2>2 DEF RoomsInv, DeletedOnce, roomVars, Typed, TypeOK
<1>6. ASSUME NEW c \in Deletions, RemoveRoom(c) PROVE RoomsInv'
  BY <1>6, RemoveKeepsRooms
<1>7. ASSUME NEW k \in Keys, Post(k) PROVE RoomsInv'
  <2>1. \A i \in Keys : log'[i] \subseteq
          log[i] \cup {r.by : r \in {q \in shown : q.id = i}}
    BY <1>7 DEF Post, Typed, TypeOK
  <2> QED
    BY <1>7, <2>1 DEF Post, RoomsInv, DeletedOnce
<1>8. CASE UNCHANGED vars
  BY <1>8, RoomsUntouched DEF vars
<1> QED
  BY <1>1, <1>2, <1>3, <1>4, <1>5, <1>6, <1>7, <1>8 DEF Next

\* A history holds messages of one room only, whenever rooms are deleted and
\* created, and whoever goes on posting to a deleted room.
THEOREM RoomsKeepTheirHistories == Spec => []HistoriesStayApart
<1>1. Typed /\ RoomsInv => HistoriesStayApart
  <2> SUFFICES ASSUME Typed, RoomsInv, NEW r \in rooms
               PROVE  log[r.id] \subseteq {r.by}
    BY DEF HistoriesStayApart
  <2>1. r \in shown /\ r.id \in Keys
    BY DEF Typed, TypeOK, RoomRows, Keys
  <2> QED
    BY <2>1 DEF RoomsInv
<1> QED
  BY <1>1, TypedInit, TypedStep, RoomsInvInit, RoomsInvStep, PTL DEF Spec

\* Concurrent deletions of a room: at most one answers that it deleted it.
THEOREM OneDeletionSucceeds == Spec => []DeletedOnce
<1>1. RoomsInv => DeletedOnce
  BY DEF RoomsInv
<1> QED
  BY <1>1, TypedInit, TypedStep, RoomsInvInit, RoomsInvStep, PTL DEF Spec

-----------------------------------------------------------------------------
(* Accounts.                                                               *)

\* The UNIQUE key holds, no account changes or goes, none has the id 0, a
\* registration that was answered with success has its row, and tokens are made
\* of rows.
AccountsInv ==
  /\ nextUser > 0 /\ \A u \in users : 0 < u.id /\ u.id < nextUser
  /\ \A u, v \in users : SameName(u.name, v.name) \/ u.id = v.id => u = v
  /\ \A g \in Registrations : pc[g] = "ok" =>
       [by |-> g, name |-> arg[g].name, pwd |-> arg[g].pwd] \in
         {[by |-> u.by, name |-> u.name, pwd |-> u.pwd] : u \in users}
  /\ \A t \in tokens : \E u \in users : t = [name |-> u.name, id |-> u.id]
  /\ \A l \in Logins : \A g \in known[l] : pc[g] = "ok" /\ pc[l] # "idle"
  /\ RegisteredCanLogIn

\* A step that leaves the accounts and the requests about them alone.
LEMMA AccountsUntouched ==
  ASSUME AccountsInv, Typed, UNCHANGED <<accountVars, known>>,
         \A c \in Registrations \cup Logins : pc'[c] = pc[c] /\ arg'[c] = arg[c]
  PROVE  AccountsInv'
BY DEF AccountsInv, RegisteredCanLogIn, accountVars, Typed, TypeOK

\* A registration takes a step that writes no row and is not answered "ok".
LEMMA RegistrationMoves ==
  ASSUME AccountsInv, Typed, NEW c \in Registrations, pc[c] # "ok",
         UNCHANGED <<users, tokens, known>>, nextUser' \in {nextUser, nextUser + 1},
         pc'[c] # "ok",
         \A d \in Requests \ {c} : pc'[d] = pc[d] /\ arg'[d] = arg[d]
  PROVE  AccountsInv'
<1> USE RequestAssumption
<1>1. /\ nextUser \in Nat /\ nextUser > 0
      /\ \A u \in users : u.id \in Nat /\ 0 < u.id /\ u.id < nextUser
  BY DEF Typed, TypeOK, AccountsInv
<1>2. \A l \in Logins : c \notin known[l] /\ known[l] \subseteq Registrations
  BY DEF AccountsInv, Typed, TypeOK
<1>3. RegisteredCanLogIn'
  BY <1>2 DEF AccountsInv, RegisteredCanLogIn, Requests
<1> QED
  BY <1>1, <1>2, <1>3 DEF AccountsInv, Requests

\* INSERT succeeds: no row has the name, in any spelling.
LEMMA InsertKeepsAccounts ==
  ASSUME AccountsInv, Typed, NEW c \in Registrations, InsertUser(c)
  PROVE  AccountsInv'
<1> USE RequestAssumption
<1>1. /\ pc[c] = "insert" /\ pc'[c] \in {"ok", "failed"}
      /\ UNCHANGED <<tokens, roomVars, arg, known>>
      /\ \A d \in Requests \ {c} : pc'[d] = pc[d]
      /\ nextUser' \in {nextUser, nextUser + 1}
  BY DEF InsertUser, Reply, Goto, Typed, TypeOK, Requests
<1>2. CASE UNCHANGED users
  <2>1. pc'[c] # "ok"
    <3>1. users \cup {UserRow(c)} = users /\ UsersNamed(arg[c].name) = {} => FALSE
      <4>1. SUFFICES ASSUME UserRow(c) \in users, UsersNamed(arg[c].name) = {}
                     PROVE  FALSE
        OBVIOUS
      <4> QED
        BY <4>1 DEF UserRow, UsersNamed, SameName
    <3> QED
      BY <1>2, <3>1 DEF InsertUser, Goto, Typed, TypeOK, Requests
  <2> QED
    BY <1>1, <1>2, <2>1, RegistrationMoves
<1>3. CASE ~ UNCHANGED users
  <2>1. /\ users' = users \cup {UserRow(c)} /\ UsersNamed(arg[c].name) = {}
        /\ nextUser' = nextUser + 1
    BY <1>3 DEF InsertUser
  <2>2. /\ UserRow(c).id = nextUser /\ UserRow(c).name = arg[c].name
        /\ UserRow(c).pwd = arg[c].pwd /\ UserRow(c).by = c
    BY DEF UserRow
  <2>3. \A u \in users : /\ u.id \in Nat /\ nextUser \in Nat /\ u.id < nextUser
                         /\ ~ SameName(u.name, arg[c].name)
                         /\ ~ SameName(arg[c].name, u.name)
    BY <2>1 DEF Typed, TypeOK, AccountsInv, UsersNamed, SameName
  <2>4. nextUser' > 0 /\ \A u \in users' : 0 < u.id /\ u.id < nextUser'
    BY <2>1, <2>2, <2>3 DEF Typed, TypeOK, AccountsInv
  <2>5. \A u, v \in users' : SameName(u.name, v.name) \/ u.id = v.id => u = v
    BY <2>1, <2>2, <2>3 DEF AccountsInv
  <2>6. \A g \in Registrations : pc'[g] = "ok" =>
          [by |-> g, name |-> arg'[g].name, pwd |-> arg'[g].pwd] \in
            {[by |-> u.by, name |-> u.name, pwd |-> u.pwd] : u \in users'}
    BY <1>1, <2>1, <2>2 DEF AccountsInv, Requests
  <2>7. \A l \in Logins : c \notin known[l] /\ known[l] \subseteq Registrations
    BY <1>1 DEF AccountsInv, Typed, TypeOK
  <2>8. RegisteredCanLogIn'
    BY <1>1, <2>7 DEF AccountsInv, RegisteredCanLogIn, Requests
  <2> QED
    BY <1>1, <2>1, <2>4, <2>5, <2>6, <2>7, <2>8 DEF AccountsInv, Requests
<1> QED
  BY <1>2, <1>3

\* A login that begins knows of the registrations answered so far.
LEMMA LoginKeepsAccounts ==
  ASSUME AccountsInv, Typed, NEW c \in Logins, NEW n \in Names, NEW p \in Passwords,
         Login(c, n, p)
  PROVE  AccountsInv'
<1> USE RequestAssumption
<1>1. /\ UNCHANGED accountVars /\ pc'[c] = "find"
      /\ \A d \in Requests \ {c} : pc'[d] = pc[d] /\ arg'[d] = arg[d]
      /\ known'[c] = {g \in Registrations : pc[g] = "ok"}
      /\ \A l \in Logins \ {c} : known'[l] = known[l]
  BY DEF Login, Begin, Goto, Typed, TypeOK, Requests
<1>2. \A g \in Registrations : g \in Requests \ {c}
  BY DEF Requests
<1>3. RegisteredCanLogIn'
  BY <1>1, <1>2 DEF AccountsInv, RegisteredCanLogIn, Requests, Typed, TypeOK
<1> QED
  BY <1>1, <1>2, <1>3 DEF AccountsInv, accountVars, Requests, Typed, TypeOK

\* The row of every registration the login knows of is found.
LEMMA IssueKeepsAccounts ==
  ASSUME AccountsInv, Typed, NEW c \in Logins, IssueToken(c)
  PROVE  AccountsInv'
<1> USE RequestAssumption
<1>1. /\ UNCHANGED <<users, nextUser, arg, known>> /\ pc[c] = "find"
      /\ pc'[c] \in {"nobody", "ok", "wrong", "failed"}
      /\ \A d \in Requests \ {c} : pc'[d] = pc[d]
  BY DEF IssueToken, Goto, Typed, TypeOK, Requests
<1>2. \A t \in tokens' : \E u \in users : t = [name |-> u.name, id |-> u.id]
  BY DEF IssueToken, AccountsInv, UsersNamed
<1>3. ASSUME NEW g \in known[c], SameName(arg[g].name, arg[c].name),
             arg[g].pwd = arg[c].pwd
      PROVE  pc'[c] \in {"ok", "failed"}
  <2>1. g \in Registrations /\ pc[g] = "ok"
    BY <1>3 DEF AccountsInv, Typed, TypeOK
  <2>2. PICK w \in users : w.name = arg[g].name /\ w.pwd = arg[g].pwd
    BY <2>1 DEF AccountsInv
  <2>3. w \in UsersNamed(arg[c].name)
    BY <1>3, <2>2 DEF UsersNamed
  <2>4. \A u \in UsersNamed(arg[c].name) : u = w
    BY <2>3 DEF UsersNamed, AccountsInv, SameName
  <2> QED
    BY <1>3, <2>2, <2>3, <2>4 DEF IssueToken, Goto, Typed, TypeOK, Requests
<1>4. RegisteredCanLogIn'
  BY <1>1, <1>3 DEF AccountsInv, RegisteredCanLogIn, Requests
<1>5. \A g \in Registrations : g \in Requests \ {c}
  BY DEF Requests
<1> QED
  BY <1>1, <1>2, <1>4, <1>5 DEF AccountsInv, Requests, Typed, TypeOK

LEMMA AccountsInvInit == Init => AccountsInv
  BY DEF Init, AccountsInv, RegisteredCanLogIn, Requests

LEMMA AccountsInvStep == Typed /\ AccountsInv /\ [Next]_vars => AccountsInv'
<1> SUFFICES ASSUME Typed, AccountsInv, [Next]_vars PROVE AccountsInv'
  OBVIOUS
<1> USE RequestAssumption
<1>1. ASSUME NEW c \in Registrations,
             (\E n \in Names, p \in Passwords : Register(c, n, p)) \/ CheckName(c)
      PROVE  AccountsInv'
  <2>1. /\ pc[c] # "ok" /\ pc'[c] # "ok" /\ UNCHANGED <<accountVars, known>>
        /\ \A d \in Requests \ {c} : pc'[d] = pc[d] /\ arg'[d] = arg[d]
    BY <1>1 DEF Register, Begin, CheckName, Goto, Typed, TypeOK, Requests
  <2> QED
    BY <2>1, RegistrationMoves DEF accountVars
<1>2. ASSUME NEW c \in Registrations, InsertUser(c) PROVE AccountsInv'
  BY <1>2, InsertKeepsAccounts
<1>3. ASSUME NEW c \in Logins,
             (\E n \in Names, p \in Passwords : Login(c, n, p)) \/ IssueToken(c)
      PROVE  AccountsInv'
  BY <1>3, LoginKeepsAccounts, IssueKeepsAccounts
<1>4. ASSUME NEW c \in Creations, NEW w \in Callers, CreateRoom(c, w)
      PROVE  AccountsInv'
  <2>1. /\ UNCHANGED <<accountVars, known>>
        /\ \A d \in Registrations \cup Logins : pc'[d] = pc[d] /\ arg'[d] = arg[d]
    BY <1>4 DEF CreateRoom, Reply, Goto, Typed, TypeOK, Requests
  <2> QED
    BY <2>1, AccountsUntouched
<1>5. ASSUME NEW c \in Deletions,
             \/ \E r \in shown, w \in Callers : DeleteRoom(c, r.id, w)
             \/ CheckCreator(c) \/ RemoveRoom(c)
      PROVE  AccountsInv'
  <2>1. /\ UNCHANGED <<accountVars, known>>
        /\ \A d \in Registrations \cup Logins : pc'[d] = pc[d] /\ arg'[d] = arg[d]
    BY <1>5 DEF DeleteRoom, Begin, CheckCreator, RemoveRoom, Reply, Goto, Typed,
                TypeOK, Requests
  <2> QED
    BY <2>1, AccountsUntouched
<1>6. ASSUME (\E k \in Keys : Post(k)) \/ UNCHANGED vars PROVE AccountsInv'
  BY <1>6, AccountsUntouched DEF Post, vars
<1> QED
  BY <1>1, <1>2, <1>3, <1>4, <1>5, <1>6 DEF Next

\* Every registration that was answered with success owns the one row of its
\* name, however the checks and the insertions of others interleave with it.
THEOREM WinnersOwnTheirNames == Spec => []NameBelongsToWinner
<1>1. Typed /\ AccountsInv => NameBelongsToWinner
  <2> SUFFICES ASSUME Typed, AccountsInv, NEW c \in Registrations, pc[c] = "ok"
               PROVE  {u.by : u \in UsersNamed(arg[c].name)} = {c}
    BY DEF NameBelongsToWinner
  <2>1. PICK w \in users : w.by = c /\ w.name = arg[c].name
    BY DEF AccountsInv
  <2>2. UsersNamed(arg[c].name) = {w}
    BY <2>1 DEF UsersNamed, AccountsInv, SameName
  <2> QED
    BY <2>1, <2>2
<1> QED
  BY <1>1, TypedInit, TypedStep, AccountsInvInit, AccountsInvStep, PTL DEF Spec

\* A login finds the row of every registration answered before it began.
THEOREM RegistrationsLast == Spec => []RegisteredCanLogIn
<1>1. AccountsInv => RegisteredCanLogIn
  BY DEF AccountsInv
<1> QED
  BY <1>1, TypedInit, TypedStep, AccountsInvInit, AccountsInvStep, PTL DEF Spec

\* Tokens name each account in one spelling and no two accounts alike.
THEOREM TokensIdentify == Spec => []OneIdentity
<1>1. Typed /\ AccountsInv => OneIdentity
  BY DEF OneIdentity, AccountsInv, Typed, TypeOK
<1> QED
  BY <1>1, TypedInit, TypedStep, AccountsInvInit, AccountsInvStep, PTL DEF Spec

-----------------------------------------------------------------------------
(* Rooms and accounts.                                                     *)

\* Who shows a token owns his rooms: no account has the id 0 that stands for the
\* callers without a token, and no two accounts share an id, so that the row that
\* a deletion removes is its caller's own, although comparing the creator and
\* removing the row are two statements.  Of rooms created without a token the
\* theorem says nothing.
THEOREM RoomsGoByTheirCreator == Spec => OnlyCreatorDeletes
<1> DEFINE Removal == \A r \in rooms \ rooms' :
                        r.owner # NULL => \E c \in Deletions :
                          /\ pc[c] = "delete" /\ pc'[c] # "delete"
                          /\ arg[c].room = r.id
                          /\ arg[c].caller = r.owner
<1>1. Typed /\ RoomsInv /\ AccountsInv /\ [Next]_vars => Removal
  <2> SUFFICES ASSUME Typed, RoomsInv, AccountsInv, [Next]_vars,
                      NEW r \in rooms \ rooms', r.owner # NULL
               PROVE  \E c \in Deletions :
                        /\ pc[c] = "delete" /\ pc'[c] # "delete"
                        /\ arg[c].room = r.id
                        /\ arg[c].caller = r.owner
    OBVIOUS
  <2>1. PICK c \in Deletions : RemoveRoom(c)
    BY DEF Next, vars, roomVars, Register, CheckName, InsertUser, Login,
           IssueToken, CreateRoom, DeleteRoom, CheckCreator, Post
  <2>2. pc[c] = "delete" /\ pc'[c] # "delete" /\ r.id = arg[c].room
    BY <2>1 DEF RemoveRoom, Reply, Goto, Typed, TypeOK, Requests
  <2>3. getCreatorId(r.owner) = getCreatorId(arg[c].caller)
    BY <2>2 DEF RoomsInv, Typed, TypeOK
  <2>4. \A t \in tokens : t.id \in Nat /\ t.id > 0
    BY DEF AccountsInv, Typed, TypeOK
  <2>5. \A t, v \in tokens : t.id = v.id => t = v
    BY DEF AccountsInv
  <2>6. r.owner \in tokens /\ arg[c].caller \in Callers
    BY <2>2 DEF Typed, TypeOK, Callers
  <2>7. arg[c].caller = r.owner
    BY <2>3, <2>4, <2>5, <2>6 DEF getCreatorId, Callers
  <2> QED
    BY <2>2, <2>7
<1>2. Typed /\ RoomsInv /\ AccountsInv /\ [Next]_vars => [Removal]_vars
  BY <1>1
<1> QED
  BY <1>2, TypedInit, TypedStep, RoomsInvInit, RoomsInvStep, AccountsInvInit,
     AccountsInvStep, PTL DEF Spec, OnlyCreatorDeletes
==============================================================================
