------------------------------ MODULE Directory ------------------------------
(***************************************************************************)
(* Accounts and rooms: the servlets RegisterServlet, LoginServlet and      *)
(* RoomServlet over UserDAO and RoomDAO.                                   *)
(*                                                                         *)
(* A request runs on a thread of its own, and every DAO call is one SQL    *)
(* statement on a new connection, committed by itself; one action below is *)
(* one statement.  A statement may fail before the database has executed   *)
(* it, or after it when only the reply is lost: the DAO logs the           *)
(* SQLException and answers null or false.                                 *)
(*                                                                         *)
(* The column username compares without regard to case: a name is a word   *)
(* in one of two spellings.  Ids come from AUTO_INCREMENT counters.  The   *)
(* histories of the rooms are kept in Redis under the room's id: they      *)
(* outlive it, and may be there before it, as the endpoint takes any id.   *)
(***************************************************************************)
EXTENDS Integers

CONSTANTS
  Registrations, Logins, Creations, Deletions,  \* requests, each made once
  Words, Spellings,                             \* a name is a word, spelled
  Passwords,
  RoomIds,                                      \* bounds the ids of rooms
  NULL

Requests == Registrations \cup Logins \cup Creations \cup Deletions
Names    == Words \X Spellings

ASSUME RequestAssumption ==
  /\ Registrations \cap (Logins \cup Creations \cup Deletions) = {}
  /\ Logins \cap (Creations \cup Deletions) = {}
  /\ Creations \cap Deletions = {}

ASSUME RoomIdsAssumption == RoomIds \subseteq Nat /\ NULL \notin RoomIds

VARIABLES
  users,     \* table user: id, name, password, and the registration it is of
  nextUser,  \* its AUTO_INCREMENT counter
  rooms,     \* table room: id, creator, the creation it is of and the token
             \* which that showed, or NULL
  nextRoom,  \* its AUTO_INCREMENT counter
  tokens,    \* user names and ids for which /login has issued a token
  log,       \* chat:room:<id>: of which rooms it holds messages, by creation;
             \* what is posted while there was no room of that id yet is of none
  pc,        \* the next statement of a request, or its answer
  arg,       \* its parameters
  shown,     \* history variable: every room there ever was
  known      \* history variable: registrations that were answered with success
             \* when a login began

Keys    == RoomIds \cup {NULL}
Callers == tokens \cup {NULL}

accountVars == <<users, nextUser, tokens>>
roomVars    == <<rooms, nextRoom, log, shown>>
vars == <<accountVars, roomVars, pc, arg, known>>

Answers == {"ok", "exists", "failed", "nobody", "wrong", "denied"}
Pcs     == {"idle", "find", "insert", "delete"} \cup Answers

Init ==
  /\ users = {} /\ nextUser = 1
  /\ rooms = {} /\ nextRoom = 1
  /\ tokens = {}
  /\ log = [k \in Keys |-> {}]
  /\ pc = [c \in Requests |-> "idle"]
  /\ arg = [c \in Requests |-> NULL]
  /\ shown = {}
  /\ known = [l \in Logins |-> {}]

-----------------------------------------------------------------------------
(* Helpers.                                                                *)

Goto(c, label) == pc' = [pc EXCEPT ![c] = label]

SameName(m, n) == m[1] = n[1]

\* The rows that SELECT ... WHERE username = ? returns.
UsersNamed(n) == {u \in users : SameName(u.name, n)}

\* MUTANT: a parameter that is missing is not noticed.
BeginUnchecked(c, a, label) ==
  /\ pc[c] = "idle"
  /\ \E b \in {a, NULL} : arg' = [arg EXCEPT ![c] = b]
  /\ Goto(c, label)

\* A request comes in with all the parameters it needs.
Begin(c, a, label) ==
  /\ pc[c] = "idle"
  /\ arg' = [arg EXCEPT ![c] = a]
  /\ Goto(c, label)

\* The reply to an executed statement arrives, or an SQLException in its place.
Reply(c, label) == Goto(c, label) \/ Goto(c, "failed")

-----------------------------------------------------------------------------
(* /register.                                                              *)

Register(c, n, p) ==
  /\ Begin(c, [name |-> n, pwd |-> p], "find")
  /\ UNCHANGED <<accountVars, roomVars, known>>

\* findByUsername; null also stands for a failed statement.
CheckName(c) ==
  /\ c \in Registrations /\ pc[c] = "find"
  /\ \/ UsersNamed(arg[c].name) # {} /\ Goto(c, "exists")
     \/ Goto(c, "insert")
  /\ UNCHANGED <<accountVars, roomVars, arg, known>>

UserRow(c) ==
  [id |-> nextUser, name |-> arg[c].name, pwd |-> arg[c].pwd, by |-> c]

\* MUTANT: INSERT IGNORE, whose count of rows is not looked at.
InsertIgnores(c) ==
  /\ c \in Registrations /\ pc[c] = "insert"
  /\ nextUser' = nextUser + 1
  /\ users' = IF UsersNamed(arg[c].name) = {} THEN users \cup {UserRow(c)} ELSE users
  /\ Goto(c, "ok")
  /\ UNCHANGED <<tokens, roomVars, arg, known>>

\* MUTANT: REPLACE INTO.
InsertReplaces(c) ==
  /\ c \in Registrations /\ pc[c] = "insert"
  /\ nextUser' = nextUser + 1
  /\ users' = (users \ UsersNamed(arg[c].name)) \cup {UserRow(c)}
  /\ Goto(c, "ok")
  /\ UNCHANGED <<tokens, roomVars, arg, known>>

\* userDAO.register: the UNIQUE key refuses a name that is there by now, after
\* the counter has moved on.
InsertUser(c) ==
  /\ c \in Registrations /\ pc[c] = "insert"
  /\ \/ /\ nextUser' = nextUser + 1
        /\ IF UsersNamed(arg[c].name) = {}
             THEN users' = users \cup {UserRow(c)} /\ Reply(c, "ok")
             ELSE UNCHANGED users /\ Goto(c, "failed")
     \/ UNCHANGED <<users, nextUser>> /\ Goto(c, "failed")
  /\ UNCHANGED <<tokens, roomVars, arg, known>>

-----------------------------------------------------------------------------
(* /login.                                                                 *)

Login(c, n, p) ==
  /\ Begin(c, [name |-> n, pwd |-> p], "find")
  /\ known' = [known EXCEPT ![c] = {g \in Registrations : pc[g] = "ok"}]
  /\ UNCHANGED <<accountVars, roomVars>>

\* MUTANT: the token is made of the parameter.
IssueAsGiven(c) ==
  /\ c \in Logins /\ pc[c] = "find"
  /\ \/ UsersNamed(arg[c].name) = {} /\ Goto(c, "nobody") /\ UNCHANGED tokens
     \/ \E u \in UsersNamed(arg[c].name) :
          IF u.pwd = arg[c].pwd
            THEN /\ tokens' = tokens \cup {[name |-> arg[c].name, id |-> u.id]}
                 /\ Goto(c, "ok")
            ELSE Goto(c, "wrong") /\ UNCHANGED tokens
  /\ UNCHANGED <<users, nextUser, roomVars, arg, known>>

\* findByUsername, the comparison of the password, and the token, which carries
\* the name as it was registered.  "failed" is answered like "nobody".
IssueToken(c) ==
  /\ c \in Logins /\ pc[c] = "find"
  /\ \/ UsersNamed(arg[c].name) = {} /\ Goto(c, "nobody") /\ UNCHANGED tokens
     \/ \E u \in UsersNamed(arg[c].name) :
          IF u.pwd = arg[c].pwd
            THEN /\ tokens' = tokens \cup {[name |-> u.name, id |-> u.id]}
                 /\ Goto(c, "ok")
            ELSE Goto(c, "wrong") /\ UNCHANGED tokens
     \/ Goto(c, "failed") /\ UNCHANGED tokens
  /\ UNCHANGED <<users, nextUser, roomVars, arg, known>>

-----------------------------------------------------------------------------
(* /room/create and /room/delete.                                          *)

\* The user id in the caller's token; 0 for every caller without a valid one.
getCreatorId(caller) == IF caller = NULL THEN 0 ELSE caller.id

\* MUTANT: the smallest id that is greater than those of all rooms there are.
IdAfterLast == CHOOSE i \in 1..nextRoom :
  (\A r \in rooms : r.id < i) /\ (i = 1 \/ \E r \in rooms : r.id = i - 1)

\* AUTO_INCREMENT: an id is never given a second time.
NewRoomId == nextRoom

RoomRow(c, caller) ==
  [id |-> NewRoomId, creator |-> getCreatorId(caller), by |-> c, owner |-> caller]

\* roomDAO.createRoom.
CreateRoom(c, caller) ==
  /\ pc[c] = "idle"
  /\ \/ /\ NewRoomId \in RoomIds
        /\ rooms' = rooms \cup {RoomRow(c, caller)}
        /\ shown' = shown \cup {RoomRow(c, caller)}
        /\ nextRoom' = nextRoom + 1
        /\ Reply(c, "ok")
     \/ UNCHANGED <<rooms, shown, nextRoom>> /\ Goto(c, "failed")
  /\ UNCHANGED <<accountVars, log, arg, known>>

\* A room that the page of the user has listed, and that may be gone by now.
DeleteRoom(c, room, caller) ==
  /\ Begin(c, [room |-> room, caller |-> caller], "find")
  /\ UNCHANGED <<accountVars, roomVars, known>>

\* findById and the comparison with the creator.  "failed" is answered like
\* "nobody".
CheckCreator(c) ==
  /\ c \in Deletions /\ pc[c] = "find"
  /\ \/ (\A r \in rooms : r.id # arg[c].room) /\ Goto(c, "nobody")
     \/ \E r \in rooms :
          /\ r.id = arg[c].room
          /\ Goto(c, IF r.creator = getCreatorId(arg[c].caller) THEN "delete"
                                                             ELSE "denied")
     \/ Goto(c, "failed")
  /\ UNCHANGED <<accountVars, roomVars, arg, known>>

\* MUTANT: the count of deleted rows is not looked at.
RemoveUncounted(c) ==
  /\ c \in Deletions /\ pc[c] = "delete"
  /\ rooms' = {r \in rooms : r.id # arg[c].room}
  /\ Reply(c, "ok")
  /\ UNCHANGED <<accountVars, nextRoom, log, shown, arg, known>>

\* roomDAO.deleteRoom: DELETE ... WHERE id = ?
RemoveRoom(c) ==
  /\ c \in Deletions /\ pc[c] = "delete"
  /\ \/ /\ rooms' = {r \in rooms : r.id # arg[c].room}
        /\ IF rooms' # rooms THEN Reply(c, "ok") ELSE Goto(c, "failed")
     \/ UNCHANGED rooms /\ Goto(c, "failed")
  /\ UNCHANGED <<accountVars, nextRoom, log, shown, arg, known>>

\* A CHAT message is saved under the id that its sender's SWITCH_ROOM has named.
\* Nobody asks whether there is such a room: it may be deleted by now or still to
\* be created, and the id may be null.
Post(k) ==
  /\ log' = [log EXCEPT ![k] = @ \cup {r.by : r \in {q \in shown : q.id = k}}]
  /\ UNCHANGED <<accountVars, rooms, nextRoom, shown, pc, arg, known>>

-----------------------------------------------------------------------------
Next ==
  \/ \E c \in Registrations :
       \/ \E n \in Names, p \in Passwords : Register(c, n, p)
       \/ CheckName(c) \/ InsertUser(c)
  \/ \E c \in Logins :
       \/ \E n \in Names, p \in Passwords : Login(c, n, p)
       \/ IssueToken(c)
  \/ \E c \in Creations, t \in Callers : CreateRoom(c, t)
  \/ \E c \in Deletions :
       \/ \E r \in shown, t \in Callers : DeleteRoom(c, r.id, t)
       \/ CheckCreator(c) \/ RemoveRoom(c)
  \/ \E k \in Keys : Post(k)

Spec == Init /\ [][Next]_vars

-----------------------------------------------------------------------------
(* Properties.                                                             *)

RoomRows == [id : RoomIds, creator : Nat, by : Creations,
             owner : [name : Names, id : Nat] \cup {NULL}]

\* The tables hold rows of their columns' types, every request stands at a
\* statement or has its answer, and who showed a token has one that was issued.
TypeOK ==
  /\ users \subseteq [id : Nat, name : Names, pwd : Passwords, by : Registrations]
  /\ nextUser \in Nat
  /\ rooms \subseteq shown /\ shown \subseteq RoomRows
  /\ nextRoom \in Nat
  /\ tokens \subseteq [name : Names, id : Nat]
  /\ log \in [Keys -> SUBSET Creations]
  /\ pc \in [Requests -> Pcs]
  /\ \A c \in Registrations \cup Logins :
       pc[c] # "idle" => arg[c] \in [name : Names, pwd : Passwords]
  /\ \A c \in Deletions :
       pc[c] # "idle" => arg[c] \in [room : RoomIds, caller : Callers]
  /\ \A r \in shown : r.owner \in Callers
  /\ known \in [Logins -> SUBSET Registrations]

\* Two registrations of one name, in whatever spelling, that both found it free
\* cannot both be told that they have it: who is told so has the account.
NameBelongsToWinner == \A c \in Registrations :
  pc[c] = "ok" => {u.by : u \in UsersNamed(arg[c].name)} = {c}

\* Who was told that he is registered can log in from then on, in any spelling
\* of his name, unless the statement of the login itself fails.
RegisteredCanLogIn == \A l \in Logins : \A g \in known[l] :
  /\ SameName(arg[g].name, arg[l].name)
  /\ arg[g].pwd = arg[l].pwd
  => pc[l] \in {"find", "ok", "failed"}

\* Whatever spelling users log in with, an account appears to the endpoint under
\* the one name and id of its row, and two accounts never under the same.
OneIdentity == \A t \in tokens, u \in users :
  SameName(t.name, u.name) \/ t.id = u.id => t = [name |-> u.name, id |-> u.id]

\* The room of a user who showed a token is deleted by nobody but a caller with a
\* token of the same user, although the row goes by its id some time after its
\* creator was compared, and although all callers without a token share the
\* creator 0.  A room that was created without a token has no such protection:
\* every caller without one may delete it.
OnlyCreatorDeletes == [][\A r \in rooms \ rooms' :
  r.owner # NULL => \E c \in Deletions :
    /\ pc[c] = "delete" /\ pc'[c] # "delete"
    /\ arg[c].room = r.id
    /\ arg[c].caller = r.owner]_vars

\* Of all who delete a room at the same time at most one is told that he did.
DeletedOnce == \A c, d \in Deletions :
  pc[c] = "ok" /\ pc[d] = "ok" /\ arg[c].room = arg[d].room => c = d

\* The history of a room holds no message of another room, although histories
\* outlive their rooms and members of a deleted room go on chatting.  (It does
\* hold what was posted under its id before there was a room.)
HistoriesStayApart == \A r \in rooms : log[r.id] \subseteq {r.by}
=============================================================================
