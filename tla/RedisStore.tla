------------------------------ MODULE RedisStore ------------------------------
(***************************************************************************)
(* OfflineMessageService over RedisUtil's pool: messages are pushed to     *)
(* lists, read from them and expire, by calls that run at the same time.   *)
(*                                                                         *)
(* A call borrows a connection, sends one Redis command after the other    *)
(* and gives the connection back, on every path (try-with-resources).      *)
(* Redis executes one command at a time; a command may fail before it was  *)
(* executed, or after it when only the reply is lost.                      *)
(*                                                                         *)
(* The lists of rooms and of conversations are handled by the same code,   *)
(* so that rooms are left out; users are numbered in the order of          *)
(* String.compareTo.  A message has the name of the call that saves it.    *)
(***************************************************************************)
EXTENDS Integers, FiniteSets, SequencesExt, FiniteSetsExt

CONSTANTS
  Users,     \* user names, as numbers
  Savers,    \* calls of saveOfflineMessage and savePrivateMessage
  Readers,   \* calls of getOfflineMessages and getPrivateMessages
  MaxTotal,  \* size of the pool: 50
  MaxLen,    \* length that ltrim leaves: 500
  Limit,     \* how many messages a conversation is read: 50
  Joined,    \* of two names, in their order: the string that joins them by ":"
  NULL

ASSUME UserAssumption == Users \subseteq Nat
ASSUME CallAssumption == Savers \cap Readers = {} /\ NULL \notin Savers \cup Readers
ASSUME FiniteAssumption == IsFiniteSet(Savers)
ASSUME SizeAssumption == /\ MaxTotal \in Nat \ {0} /\ MaxLen \in Nat \ {0}
                         /\ Limit \in 1..MaxLen

\* Names may contain ":", so that two pairs of names may join to one string.
ASSUME JoinedAssumption == DOMAIN Joined = Users \X Users

Calls == Savers \cup Readers

\* MUTANT: the key is built in the order of the arguments.
PrivateKeyAsGiven(a, b) == <<"private", Joined[a, b]>>

\* Both users of a conversation reach the same list.
PrivateKey(a, b) == <<"private", IF a < b THEN Joined[a, b] ELSE Joined[b, a]>>

OfflineKey(a) == <<"offline", a>>

\* Nobody writes to himself.
Pairs == {p \in Users \X Users : p[1] # p[2]}
PrivateKeys == {PrivateKey(p[1], p[2]) : p \in Pairs}
Keys == PrivateKeys \cup {OfflineKey(a) : a \in Users}

VARIABLES
  type,      \* what Redis holds under a key: "none", "list" or something else
  list,      \* its list, newest first
  ttl,       \* keys that have a time to live
  pc,        \* the next command of each call
  key,       \* the key it works on
  borrowed,  \* calls that hold a connection of the pool
  result,    \* what a read returned
  pushed,    \* history variable: everything pushed to the key, newest first
  lost,      \* history variable: messages that went when a key expired or was deleted
  deletable, \* history variable: messages pushed while another call was to delete the key
  lapsed,    \* history variable: pushes that no ltrim of their key came after
  began      \* history variable: of each call its users, and of a read the saves of
             \* the same users that had ended when it began

dbVars   == <<type, list, ttl>>
callVars == <<pc, key, borrowed, result>>
histVars == <<pushed, lost, deletable, lapsed, began>>
vars == <<dbVars, callVars, histVars>>

Commands == {"type", "del", "push", "expire", "trim", "range"}
Pcs == {"idle", "wait", "done", "failed"} \cup Commands

Init ==
  /\ type \in [Keys -> {"none", "string"}]
  /\ list = [k \in Keys |-> <<>>]
  /\ ttl = {}
  /\ pc = [c \in Calls |-> "idle"]
  /\ key = [c \in Calls |-> NULL]
  /\ borrowed = {}
  /\ result = [r \in Readers |-> NULL]
  /\ pushed = [k \in Keys |-> <<>>]
  /\ lost = {} /\ deletable = {} /\ lapsed = {}
  /\ began = [c \in Calls |-> [of |-> {}, saved |-> {}]]

-----------------------------------------------------------------------------
(* Helpers.                                                                *)

Goto(c, label) == pc' = [pc EXCEPT ![c] = label] /\ UNCHANGED borrowed

\* MUTANT: a call that throws keeps its connection.
EndLeaks(c, label) ==
  /\ pc' = [pc EXCEPT ![c] = label]
  /\ borrowed' = IF label = "failed" THEN borrowed ELSE borrowed \ {c}

\* The call returns or throws; either way it gives its connection back.
End(c, label) ==
  /\ pc' = [pc EXCEPT ![c] = label]
  /\ borrowed' = borrowed \ {c}

\* A command was executed: the call goes on, or the reply is lost and it throws.
\* "done" ends it.
Then(c, label) ==
  \/ IF label = "done" THEN End(c, "done") ELSE Goto(c, label)
  \/ End(c, "failed")

\* The key is gone with all it holds.
Gone(k) ==
  /\ type' = [type EXCEPT ![k] = "none"]
  /\ list' = [list EXCEPT ![k] = <<>>]
  /\ ttl' = ttl \ {k}
  /\ lost' = lost \cup ToSet(list[k])

Trimmed(k) == k \in PrivateKeys

\* The end that lrange is called with, and the order in which a read returns it.
Returned(k) == IF Trimmed(k)
  THEN Reverse(SubSeq(list[k], 1, Min({Limit, Len(list[k])})))
  ELSE list[k]

-----------------------------------------------------------------------------
(* A call.                                                                 *)

\* The call starts; every connection may be in use.
Start(c, k, us) ==
  /\ pc[c] = "idle"
  /\ key' = [key EXCEPT ![c] = k]
  /\ Goto(c, "wait")
  /\ began' = [began EXCEPT ![c] = [of |-> us, saved |->
       {s \in Savers : c \in Readers /\ pc[s] = "done" /\ began[s].of = us}]]
  /\ UNCHANGED <<dbVars, result, pushed, lost, deletable, lapsed>>

\* Both orders of the two users occur, as sender and receiver or as reader.
StartAny(c) == \/ \E a \in Users : Start(c, OfflineKey(a), {a})
               \/ \E p \in Pairs : Start(c, PrivateKey(p[1], p[2]), {p[1], p[2]})

\* pool.getResource(); it throws when Redis cannot be reached.
GetJedis(c) ==
  /\ pc[c] = "wait"
  /\ Cardinality(borrowed) < MaxTotal
  /\ \/ pc' = [pc EXCEPT ![c] = "type"] /\ borrowed' = borrowed \cup {c}
     \/ End(c, "failed")
  /\ UNCHANGED <<dbVars, key, result, histVars>>

\* MUTANT: whatever the key holds is deleted.
TypeDeletesAll(c) ==
  /\ pc[c] = "type"
  /\ Then(c, CASE type[key[c]] # "none"                     -> "del"
               [] type[key[c]] = "none" /\ c \in Savers      -> "push"
               [] type[key[c]] = "none" /\ c \in Readers     -> "done")
  /\ UNCHANGED <<dbVars, key, result, histVars>>

\* A key of another type is deleted; a reader of no list is through.
AfterType(c) ==
  CASE type[key[c]] = "string"                    -> "del"
    [] type[key[c]] # "string" /\ c \in Savers    -> "push"
    [] type[key[c]] = "list"   /\ c \in Readers   -> "range"
    [] type[key[c]] = "none"   /\ c \in Readers   -> "done"

\* TYPE.
Type(c) ==
  /\ pc[c] = "type"
  /\ Then(c, AfterType(c))
  /\ result' = IF c \in Readers /\ type[key[c]] = "none" /\ pc'[c] = "done"
                 THEN [result EXCEPT ![c] = <<>>] ELSE result
  /\ UNCHANGED <<dbVars, key, histVars>>

\* DEL, whatever the key holds by now.
Del(c) ==
  /\ pc[c] = "del"
  /\ Gone(key[c])
  /\ Then(c, IF c \in Savers THEN "push" ELSE "done")
  /\ result' = IF c \in Readers /\ pc'[c] = "done"
                 THEN [result EXCEPT ![c] = <<>>] ELSE result
  /\ UNCHANGED <<key, pushed, deletable, lapsed, began>>

\* MUTANT: rpush.
PushLast(c) ==
  /\ pc[c] = "push"
  /\ type' = [type EXCEPT ![key[c]] = "list"]
  /\ list' = [list EXCEPT ![key[c]] = Append(@, c)]
  /\ pushed' = [pushed EXCEPT ![key[c]] = <<c>> \o @]
  /\ lapsed' = lapsed \cup {c}
  /\ Then(c, "expire")
  /\ UNCHANGED <<ttl, key, result, lost, deletable, began>>

\* LPUSH.  (It would fail on a key of another type; nothing writes such a key any
\* more, and the call has deleted the one there was.)
Push(c) ==
  /\ pc[c] = "push"
  /\ type' = [type EXCEPT ![key[c]] = "list"]
  /\ list' = [list EXCEPT ![key[c]] = <<c>> \o @]
  /\ pushed' = [pushed EXCEPT ![key[c]] = <<c>> \o @]
  /\ deletable' = IF \E d \in Calls : pc[d] = "del" /\ key[d] = key[c]
                    THEN deletable \cup {c} ELSE deletable
  /\ lapsed' = lapsed \cup {c}
  /\ Then(c, "expire")
  /\ UNCHANGED <<ttl, key, result, lost, began>>

\* MUTANT: the list is only trimmed, and lives for ever.
NoExpire(c) ==
  /\ pc[c] = "expire"
  /\ Then(c, IF Trimmed(key[c]) THEN "trim" ELSE "done")
  /\ UNCHANGED <<dbVars, key, result, histVars>>

\* EXPIRE, which does nothing to a key that is gone.
Expire(c) ==
  /\ pc[c] = "expire"
  /\ ttl' = IF type[key[c]] = "list" THEN ttl \cup {key[c]} ELSE ttl
  /\ Then(c, IF Trimmed(key[c]) THEN "trim" ELSE "done")
  /\ UNCHANGED <<type, list, key, result, histVars>>

\* MUTANT: ltrim ends one element late.
TrimTooLittle(c) ==
  /\ pc[c] = "trim"
  /\ list' = [list EXCEPT ![key[c]] = SubSeq(@, 1, Min({MaxLen + 1, Len(@)}))]
  /\ lapsed' = {d \in lapsed : key[d] # key[c]}
  /\ Then(c, "done")
  /\ UNCHANGED <<type, ttl, key, result, pushed, lost, deletable, began>>

\* LTRIM 0 MaxLen-1.
Trim(c) ==
  /\ pc[c] = "trim"
  /\ list' = [list EXCEPT ![key[c]] = SubSeq(@, 1, Min({MaxLen, Len(@)}))]
  /\ lapsed' = {d \in lapsed : key[d] # key[c]}
  /\ Then(c, "done")
  /\ UNCHANGED <<type, ttl, key, result, pushed, lost, deletable, began>>

\* LRANGE; a list that is gone by now reads as an empty one.
Range_(c) ==
  /\ pc[c] = "range"
  /\ \/ End(c, "done") /\ result' = [result EXCEPT ![c] = Returned(key[c])]
     \/ End(c, "failed") /\ UNCHANGED result
  /\ UNCHANGED <<dbVars, key, histVars>>

\* A command fails before Redis has executed it.
Fail(c) ==
  /\ pc[c] \in Commands \ {"range"}
  /\ End(c, "failed")
  /\ UNCHANGED <<dbVars, key, result, histVars>>

\* The seven days are over.
TimeOut(k) ==
  /\ k \in ttl
  /\ Gone(k)
  /\ UNCHANGED <<callVars, pushed, deletable, lapsed, began>>

-----------------------------------------------------------------------------
CallStep(c) == \/ Type(c) \/ Del(c) \/ Push(c) \/ Expire(c) \/ Trim(c)
               \/ Range_(c) \/ Fail(c)

Next == \/ \E c \in Calls : StartAny(c) \/ GetJedis(c) \/ CallStep(c)
        \/ \E k \in Keys : TimeOut(k)

Spec == Init /\ [][Next]_vars

\* A command is answered or times out after three seconds, and a thread that
\* waits for a connection gets one that stays free.
Fairness == \A c \in Calls : WF_vars(GetJedis(c)) /\ WF_vars(CallStep(c))

FairSpec == Spec /\ Fairness

-----------------------------------------------------------------------------
(* Properties.                                                             *)

\* The variables hold what the Java declarations and the control allow; a call
\* holds a connection exactly while it sends commands.
TypeOK ==
  /\ type \in [Keys -> {"none", "list", "string"}]
  /\ list \in [Keys -> Seq(Savers)]
  /\ ttl \subseteq Keys
  /\ pc \in [Calls -> Pcs]
  /\ key \in [Calls -> Keys \cup {NULL}]
  /\ borrowed = {c \in Calls : pc[c] \in Commands}
  /\ result \in [Readers -> Seq(Savers) \cup {NULL}]
  /\ pushed \in [Keys -> Seq(Savers)]
  /\ lost \subseteq Savers /\ deletable \subseteq Savers /\ lapsed \subseteq Savers
  /\ began \in [Calls -> [of : SUBSET Users, saved : SUBSET Savers]]

\* The lists implement BoundedLog, however calls overlap and wherever they fail:
\* each is the newest part of what was pushed to it, in the order of the pushes.
Log == INSTANCE BoundedLog WITH Messages <- Savers, Newest <- MaxLen
LogSpec == Log!Spec

\* A list of bounded length exceeds it only by pushes whose own ltrim, and every
\* later one, is still to come or has failed.
LengthBound == \A k \in PrivateKeys :
  Len(list[k]) <= MaxLen + Cardinality({c \in lapsed : key[c] = k})

\* A list without a time to live, which nobody would ever remove, is one whose
\* every push is still followed by an expire, or was by one that failed.
ExpiresUnlessFailed == \A k \in Keys : type[k] = "list" /\ k \notin ttl =>
  \A c \in ToSet(list[k]) : pc[c] \in {"expire", "failed"}

\* The repair of a key of the wrong type does not cost messages but in a race: a
\* message that was pushed while no other call was about to delete the key is
\* taken away by nothing but the trim and the end of its seven days.
DeletedOnlyInRace == [][\A c \in Calls, k \in Keys :
  pc[c] = "del" /\ pc'[c] # "del" /\ key[c] = k /\ type'[k] # type[k] =>
    ToSet(list[k]) \subseteq deletable]_vars

\* A read returns the saves that had ended when it began, by whichever of the two
\* users, but those that as many newer ones have pushed out of the part it reads,
\* or that expired or were deleted.
Newer(k, m) == Cardinality({n \in Savers : n \in ToSet(pushed[k]) /\
  \E i, j \in DOMAIN pushed[k] : pushed[k][i] = n /\ pushed[k][j] = m /\ i < j})
ReadsSeeSaves == \A r \in Readers : result[r] # NULL =>
  \A m \in began[r].saved \ lost :
    \/ m \in ToSet(result[r])
    \/ Trimmed(key[r]) /\ Newer(key[r], m) >= Limit

\* Every call ends, whatever fails: no connection is lost to the pool.
EveryCallEnds == \A c \in Calls : pc[c] = "wait" ~> pc[c] \in {"done", "failed"}
===============================================================================
