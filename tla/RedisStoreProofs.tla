--------------------------- MODULE RedisStoreProofs ---------------------------
(***************************************************************************)
(* Proofs about RedisStore, for any users, calls, sizes of the pool and    *)
(* lengths of the lists.                                                   *)
(***************************************************************************)
EXTENDS RedisStore, FiniteSetTheorems, TLAPS

-----------------------------------------------------------------------------
(* Keys.                                                                   *)

\* A conversation has one key, whichever of the two users asks for it.
THEOREM OneKeyPerConversation ==
  ASSUME NEW a \in Users, NEW b \in Users
  PROVE  PrivateKey(a, b) = PrivateKey(b, a)
<1>1. a \in Nat /\ b \in Nat
  BY UserAssumption
<1>2. CASE a = b
  BY <1>2
<1>3. ASSUME NEW u \in Users, NEW v \in Users, u < v
      PROVE  PrivateKey(u, v) = PrivateKey(v, u)
  <2>1. ~(v < u)
    BY <1>3, UserAssumption
  <2> QED BY <1>3, <2>1, Zenon DEF PrivateKey
<1>4. CASE a < b \/ b < a
  BY <1>3, <1>4
<1> QED BY <1>1, <1>2, <1>4

LEMMA KeyTypes ==
  /\ \A a \in Users : OfflineKey(a) \in Keys
  /\ \A p \in Pairs : PrivateKey(p[1], p[2]) \in Keys
BY DEF Keys, PrivateKeys

-----------------------------------------------------------------------------
(* Lists.                                                                  *)

LEMMA PushSet ==
  ASSUME NEW S, NEW s \in Seq(S), NEW x \in S
  PROVE  /\ <<x>> \o s \in Seq(S) /\ Len(<<x>> \o s) = Len(s) + 1
         /\ ToSet(<<x>> \o s) = {x} \cup ToSet(s)
<1> DEFINE t == <<x>> \o s
<1>1. /\ t \in Seq(S) /\ Len(t) = Len(s) + 1 /\ t[1] = x
      /\ \A i \in 1..Len(s) : t[i + 1] = s[i]
  OBVIOUS
<1>2. DOMAIN s = 1..Len(s) /\ DOMAIN t = 1..(Len(s) + 1) /\ Len(s) \in Nat
  BY <1>1
<1>3. \A i \in DOMAIN t : t[i] = x \/ \E j \in DOMAIN s : t[i] = s[j]
  <2> SUFFICES ASSUME NEW i \in DOMAIN t, i # 1 PROVE \E j \in DOMAIN s : t[i] = s[j]
    BY <1>1
  <2>1. i - 1 \in DOMAIN s /\ t[(i - 1) + 1] = s[i - 1] /\ (i - 1) + 1 = i
    BY <1>1, <1>2
  <2> QED BY <2>1
<1>4. 1 \in DOMAIN t /\ \A j \in DOMAIN s : \E i \in DOMAIN t : t[i] = s[j]
  <2>1. ASSUME NEW j \in DOMAIN s PROVE j + 1 \in DOMAIN t /\ t[j + 1] = s[j]
    BY <1>1, <1>2, <2>1
  <2> HIDE DEF t
  <2> QED BY <1>2, <2>1
<1> HIDE DEF t
<1>5. ToSet(t) = {x} \cup ToSet(s)
  BY <1>1, <1>3, <1>4 DEF ToSet
<1> QED BY <1>1, <1>5 DEF t

LEMMA MinOfTwo ==
  ASSUME NEW a \in Nat, NEW b \in Nat
  PROVE  Min({a, b}) = IF a <= b THEN a ELSE b
BY DEF Min

LEMMA FrontSet ==
  ASSUME NEW S, NEW s \in Seq(S), NEW n \in 0..Len(s)
  PROVE  /\ SubSeq(s, 1, n) \in Seq(S) /\ Len(SubSeq(s, 1, n)) = n
         /\ ToSet(SubSeq(s, 1, n)) \subseteq ToSet(s)
         /\ n = Len(s) => SubSeq(s, 1, n) = s
<1>1. /\ SubSeq(s, 1, n) \in Seq(S) /\ Len(SubSeq(s, 1, n)) = n
      /\ \A i \in 1..n : SubSeq(s, 1, n)[i] = s[i]
  OBVIOUS
<1>2. ToSet(SubSeq(s, 1, n)) \subseteq ToSet(s)
  BY <1>1 DEF ToSet
<1>3. n = Len(s) => SubSeq(s, 1, n) = s
  BY <1>1
<1> QED BY <1>1, <1>2, <1>3

-----------------------------------------------------------------------------
(* Types and control.                                                      *)

\* A call that has begun has a key, only calls of the kind that sends it are at a
\* command, and what is in a list was pushed there by its call.
Control ==
  /\ \A c \in Calls : /\ pc[c] # "idle" => key[c] \in Keys
                      /\ pc[c] \in {"push", "expire", "trim"} => c \in Savers
                      /\ pc[c] = "range" => c \in Readers
  /\ \A k \in Keys : type[k] # "list" => list[k] = <<>>
  /\ \A k \in Keys : \A c \in ToSet(list[k]) :
       key[c] = k /\ pc[c] \in {"expire", "trim", "done", "failed"}
  /\ \A c \in lapsed : pc[c] \in {"expire", "trim", "done", "failed"}

Typed == TypeOK /\ Control

\* The variables that stay, and the labels, that Type and GetJedis leave to be shown.
LEMMA EndType ==
  ASSUME TypeOK, NEW c \in Calls, NEW label \in {"done", "failed"}, End(c, label)
  PROVE  /\ pc' = [pc EXCEPT ![c] = label] /\ pc' \in [Calls -> Pcs]
         /\ borrowed' = {d \in Calls : pc'[d] \in Commands}
<1>1. pc' = [pc EXCEPT ![c] = label] /\ pc \in [Calls -> Pcs]
  BY DEF End, TypeOK
<1>2. label \in Pcs /\ label \notin Commands
  BY DEF Pcs, Commands
<1> QED BY <1>1, <1>2 DEF End, TypeOK

LEMMA ThenType ==
  ASSUME TypeOK, NEW c \in Calls, NEW label \in Commands \cup {"done"}, Then(c, label),
         pc[c] \in Commands
  PROVE  /\ pc' = [pc EXCEPT ![c] = label] \/ pc' = [pc EXCEPT ![c] = "failed"]
         /\ pc' \in [Calls -> Pcs]
         /\ borrowed' = {d \in Calls : pc'[d] \in Commands}
<1>1. CASE End(c, "failed")
  BY <1>1, EndType
<1>2. CASE label = "done" /\ End(c, "done")
  BY <1>2, EndType
<1>3. CASE label # "done" /\ Goto(c, label)
  <2>1. pc' = [pc EXCEPT ![c] = label] /\ pc \in [Calls -> Pcs] /\ label \in Commands
        /\ borrowed' = borrowed
    BY <1>3 DEF Goto, TypeOK
  <2> QED BY <2>1 DEF TypeOK, Pcs
<1> QED BY <1>1, <1>2, <1>3 DEF Then

LEMMA StartType ==
  ASSUME Typed, NEW c \in Calls, NEW k \in Keys, NEW us \in SUBSET Users,
         Start(c, k, us)
  PROVE  Typed'
<1>1. /\ pc[c] = "idle" /\ key' = [key EXCEPT ![c] = k] /\ pc' = [pc EXCEPT ![c] = "wait"]
      /\ UNCHANGED <<type, list, ttl, borrowed, result, pushed, lost, deletable, lapsed>>
  BY DEF Start, Goto, dbVars
<1>2. pc' \in [Calls -> Pcs] /\ key' \in [Calls -> Keys \cup {NULL}]
  BY <1>1 DEF Typed, TypeOK, Pcs
<1>3. borrowed' = {d \in Calls : pc'[d] \in Commands}
  BY <1>1 DEF Typed, TypeOK, Commands
<1>4. began' \in [Calls -> [of : SUBSET Users, saved : SUBSET Savers]]
  <2> DEFINE saved == {s \in Savers : c \in Readers /\ pc[s] = "done" /\ began[s].of = us}
  <2>1. began' = [began EXCEPT ![c] = [of |-> us, saved |-> saved]] /\ saved \in SUBSET Savers
    BY DEF Start
  <2> HIDE DEF saved
  <2> QED BY <2>1 DEF Typed, TypeOK
<1>5. TypeOK'
  BY <1>1, <1>2, <1>3, <1>4 DEF Typed, TypeOK
<1>6. \A d \in Calls : d # c => pc'[d] = pc[d] /\ key'[d] = key[d]
  BY <1>1 DEF Typed, TypeOK
<1>7. pc'[c] = "wait" /\ key'[c] = k
  BY <1>1 DEF Typed, TypeOK
<1>8. \A d \in lapsed : d \in Calls /\ d # c
  BY <1>1 DEF Typed, TypeOK, Control, Calls
<1>9. \A i \in Keys : \A d \in ToSet(list[i]) : d \in Calls /\ d # c
  <2>1. \A i \in Keys : ToSet(list[i]) \subseteq Calls
    BY DEF Typed, TypeOK, Calls, ToSet
  <2> QED BY <1>1, <2>1 DEF Typed, Control
<1>10. Control'
  BY <1>1, <1>6, <1>7, <1>8, <1>9 DEF Typed, Control
<1> QED BY <1>5, <1>10 DEF Typed

\* A call goes on with its next command and changes no list.
LEMMA MoveType ==
  ASSUME Typed, NEW c \in Calls, NEW label \in Pcs, pc[c] # "idle",
         pc' = [pc EXCEPT ![c] = label],
         borrowed' = {d \in Calls : pc'[d] \in Commands},
         UNCHANGED <<type, list, key, pushed, lost, deletable, lapsed, began>>,
         ttl' \subseteq Keys,
         result' \in [Readers -> Seq(Savers) \cup {NULL}],
         label \in {"push", "expire", "trim"} => c \in Savers,
         label = "range" => c \in Readers,
         pc[c] \in {"expire", "trim"} => label \in {"expire", "trim", "done", "failed"},
         pc[c] \notin {"done", "failed"}
  PROVE  Typed'
<1>1. pc' \in [Calls -> Pcs] /\ pc'[c] = label /\ \A d \in Calls \ {c} : pc'[d] = pc[d]
  BY DEF Typed, TypeOK
<1>2. TypeOK'
  BY <1>1 DEF Typed, TypeOK
<1>3. lapsed \subseteq Calls /\ \A k \in Keys : ToSet(list[k]) \subseteq Calls
  BY DEF Typed, TypeOK, Calls, ToSet
<1>4. Control'
  BY <1>1, <1>3 DEF Typed, Control
<1> QED BY <1>2, <1>4 DEF Typed

LEMMA GoneFacts ==
  ASSUME Typed, NEW k \in Keys, Gone(k)
  PROVE  /\ type' \in [Keys -> {"none", "list", "string"}] /\ list' \in [Keys -> Seq(Savers)]
         /\ ttl' \subseteq Keys /\ lost' \subseteq Savers
         /\ list'[k] = <<>> /\ type'[k] = "none"
         /\ \A j \in Keys \ {k} : list'[j] = list[j] /\ type'[j] = type[j]
  BY DEF Gone, Typed, TypeOK, ToSet

\* A key is gone, and the call that deleted it, if any, goes on.
LEMMA GoneType ==
  ASSUME Typed, NEW k \in Keys, Gone(k), UNCHANGED <<key, pushed, deletable, lapsed, began>>,
         result' \in [Readers -> Seq(Savers) \cup {NULL}],
         \/ UNCHANGED <<pc, borrowed>>
         \/ \E c \in Calls, label \in Pcs :
              /\ pc[c] = "del" /\ pc' = [pc EXCEPT ![c] = label]
              /\ borrowed' = {d \in Calls : pc'[d] \in Commands}
              /\ label \in {"push", "expire", "trim"} => c \in Savers
              /\ label # "range"
  PROVE  Typed'
<1>0. TypeOK /\ Control
  BY DEF Typed
<1>1. /\ type' \in [Keys -> {"none", "list", "string"}] /\ list' \in [Keys -> Seq(Savers)]
      /\ ttl' \subseteq Keys /\ lost' \subseteq Savers
      /\ list'[k] = <<>> /\ type'[k] = "none"
      /\ \A j \in Keys \ {k} : list'[j] = list[j] /\ type'[j] = type[j]
  BY GoneFacts
<1>2. /\ pc' \in [Calls -> Pcs] /\ borrowed' = {d \in Calls : pc'[d] \in Commands}
  BY <1>0 DEF TypeOK
<1>3. \A d \in Calls : /\ pc'[d] # "idle" => pc[d] # "idle"
                       /\ pc'[d] \in {"push", "expire", "trim"} => d \in Savers
                       /\ pc'[d] = "range" => d \in Readers
                       /\ pc[d] # "del" => pc'[d] = pc[d]
  BY <1>0 DEF TypeOK, Control
<1>4. lapsed \subseteq Calls /\ \A j \in Keys : ToSet(list[j]) \subseteq Calls
  BY <1>0 DEF TypeOK, Calls, ToSet
<1>5. ToSet(<<>>) = {}
  BY DEF ToSet
<1>6. TypeOK'
  BY <1>0, <1>1, <1>2 DEF TypeOK
<1>7. Control'
  <2>1. \A d \in Calls : /\ pc'[d] # "idle" => key'[d] \in Keys
                         /\ pc'[d] \in {"push", "expire", "trim"} => d \in Savers
                         /\ pc'[d] = "range" => d \in Readers
    BY <1>0, <1>3 DEF Control
  <2>2. \A j \in Keys : type'[j] # "list" => list'[j] = <<>>
    BY <1>0, <1>1 DEF Control
  <2>3. \A d \in Calls : pc[d] \in {"expire", "trim", "done", "failed"} => pc'[d] = pc[d]
    BY <1>3
  <2>4. \A j \in Keys : \A d \in ToSet(list'[j]) :
          key'[d] = j /\ pc'[d] \in {"expire", "trim", "done", "failed"}
    <3>1. \A d \in ToSet(list'[k]) : FALSE
      BY <1>1, <1>5
    <3>2. \A j \in Keys \ {k} : list'[j] = list[j]
      BY <1>1
    <3> QED BY <1>0, <1>4, <2>3, <3>1, <3>2 DEF Control
  <2>5. \A d \in lapsed' : pc'[d] \in {"expire", "trim", "done", "failed"}
    BY <1>0, <1>4, <2>3 DEF Control
  <2> QED BY <2>1, <2>2, <2>4, <2>5 DEF Control
<1> QED BY <1>6, <1>7 DEF Typed

\* LPUSH: the message of the call heads its list.
LEMMA PushType ==
  ASSUME Typed, NEW c \in Calls, Push(c)
  PROVE  Typed'
<1> DEFINE k == key[c]
<1>0. TypeOK /\ Control /\ pc[c] = "push" /\ k \in Keys /\ c \in Savers
  BY DEF Typed, Push, Control
<1>1. \E label \in {"expire", "failed"} : pc' = [pc EXCEPT ![c] = label]
  BY <1>0, ThenType DEF Push, Commands
<1>2. pc' \in [Calls -> Pcs] /\ borrowed' = {d \in Calls : pc'[d] \in Commands}
  BY <1>0, ThenType DEF Push, Commands
<1>3. /\ type' = [type EXCEPT ![k] = "list"] /\ list' = [list EXCEPT ![k] = <<c>> \o @]
      /\ pushed' = [pushed EXCEPT ![k] = <<c>> \o @] /\ lapsed' = lapsed \cup {c}
      /\ deletable' \in {deletable, deletable \cup {c}}
      /\ UNCHANGED <<ttl, key, result, lost, began>>
  BY DEF Push
<1>4. list[k] \in Seq(Savers) /\ pushed[k] \in Seq(Savers)
  BY <1>0 DEF TypeOK
<1>5. /\ <<c>> \o list[k] \in Seq(Savers) /\ <<c>> \o pushed[k] \in Seq(Savers)
      /\ ToSet(<<c>> \o list[k]) = {c} \cup ToSet(list[k])
  BY <1>0, <1>4, PushSet
<1>6. TypeOK'
  BY <1>0, <1>2, <1>3, <1>5 DEF TypeOK
<1>7. /\ \A j \in Keys \ {k} : list'[j] = list[j] /\ type'[j] = type[j]
      /\ type'[k] = "list" /\ ToSet(list'[k]) = {c} \cup ToSet(list[k])
  BY <1>0, <1>3, <1>5 DEF TypeOK
<1>8. \A d \in Calls \ {c} : pc'[d] = pc[d]
  BY <1>0, <1>1 DEF TypeOK
<1>9. pc'[c] \in {"expire", "failed"}
  BY <1>0, <1>1 DEF TypeOK
<1>10. lapsed \subseteq Calls /\ \A j \in Keys : ToSet(list[j]) \subseteq Calls
  BY <1>0 DEF TypeOK, Calls, ToSet
<1>11. \A d \in Calls : /\ pc'[d] # "idle" => key[d] \in Keys
                        /\ pc'[d] \in {"push", "expire", "trim"} => d \in Savers
                        /\ pc'[d] = "range" => d \in Readers
  BY <1>0, <1>8, <1>9 DEF Control
<1>12. \A j \in Keys : \A d \in ToSet(list'[j]) :
         key[d] = j /\ pc'[d] \in {"expire", "trim", "done", "failed"}
  BY <1>0, <1>7, <1>8, <1>9, <1>10 DEF Control
<1>13. Control'
  BY <1>0, <1>3, <1>7, <1>8, <1>9, <1>10, <1>11, <1>12 DEF Control
<1> QED BY <1>6, <1>13 DEF Typed

\* LTRIM: the list keeps its front.
LEMMA TrimFacts ==
  ASSUME TypeOK, NEW c \in Calls, key[c] \in Keys, Trim(c)
  PROVE  LET k == key[c]
             n == IF MaxLen <= Len(list[k]) THEN MaxLen ELSE Len(list[k])
         IN  /\ n \in 0..Len(list[k]) /\ list[k] \in Seq(Savers)
             /\ list' = [list EXCEPT ![k] = SubSeq(@, 1, n)]
             /\ list'[k] \in Seq(Savers) /\ Len(list'[k]) = n
             /\ ToSet(list'[k]) \subseteq ToSet(list[k])
             /\ n < MaxLen => list'[k] = list[k]
             /\ \A j \in Keys \ {k} : list'[j] = list[j]
<1> DEFINE k == key[c]
           n == IF MaxLen <= Len(list[k]) THEN MaxLen ELSE Len(list[k])
<1>1. list[k] \in Seq(Savers) /\ Len(list[k]) \in Nat /\ MaxLen \in Nat
  BY SizeAssumption DEF TypeOK
<1>2. Min({MaxLen, Len(list[k])}) = n
  BY <1>1, MinOfTwo
<1>3. list' = [list EXCEPT ![k] = SubSeq(@, 1, n)]
  BY <1>2 DEF Trim
<1>4. n \in 0..Len(list[k]) /\ (n < MaxLen => n = Len(list[k]))
  BY <1>1
<1> HIDE DEF n
<1>5. /\ SubSeq(list[k], 1, n) \in Seq(Savers) /\ Len(SubSeq(list[k], 1, n)) = n
      /\ ToSet(SubSeq(list[k], 1, n)) \subseteq ToSet(list[k])
      /\ n = Len(list[k]) => SubSeq(list[k], 1, n) = list[k]
  BY <1>1, <1>4, FrontSet
<1>6. /\ list'[k] = SubSeq(list[k], 1, n)
      /\ \A j \in Keys \ {k} : list'[j] = list[j]
  BY <1>3 DEF TypeOK
<1> QED BY <1>1, <1>3, <1>4, <1>5, <1>6 DEF n

LEMMA TrimType ==
  ASSUME Typed, NEW c \in Calls, Trim(c)
  PROVE  Typed'
<1> DEFINE k == key[c]
<1>0. TypeOK /\ Control /\ pc[c] = "trim" /\ k \in Keys
  BY DEF Typed, Trim, Control
<1>1. \E label \in {"done", "failed"} : pc' = [pc EXCEPT ![c] = label]
  BY <1>0, ThenType DEF Trim, Commands
<1>2. pc' \in [Calls -> Pcs] /\ borrowed' = {d \in Calls : pc'[d] \in Commands}
  BY <1>0, ThenType DEF Trim, Commands
<1>3. /\ list'[k] \in Seq(Savers) /\ ToSet(list'[k]) \subseteq ToSet(list[k])
      /\ \A j \in Keys \ {k} : list'[j] = list[j]
      /\ DOMAIN list' = Keys /\ list' = [j \in Keys |-> list'[j]]
      /\ Len(list'[k]) <= Len(list[k]) /\ list[k] \in Seq(Savers)
  <2> DEFINE n == IF MaxLen <= Len(list[k]) THEN MaxLen ELSE Len(list[k])
  <2>1. /\ n \in 0..Len(list[k]) /\ list[k] \in Seq(Savers)
        /\ list' = [list EXCEPT ![k] = SubSeq(@, 1, n)]
        /\ list'[k] \in Seq(Savers) /\ Len(list'[k]) = n
        /\ ToSet(list'[k]) \subseteq ToSet(list[k])
        /\ \A j \in Keys \ {k} : list'[j] = list[j]
    BY <1>0, TrimFacts
  <2> HIDE DEF n
  <2>2. list \in [Keys -> Seq(Savers)] /\ Len(list[k]) \in Nat
    BY <1>0, <2>1 DEF TypeOK
  <2>3. DOMAIN list' = Keys /\ list' = [j \in Keys |-> list'[j]]
    BY <2>1, <2>2
  <2> QED BY <2>1, <2>2, <2>3
<1>4. UNCHANGED <<type, ttl, key, result, pushed, lost, deletable, began>> /\ lapsed' \subseteq lapsed
  BY DEF Trim
<1>5. list' \in [Keys -> Seq(Savers)]
  BY <1>0, <1>3 DEF TypeOK
<1>6. TypeOK'
  BY <1>0, <1>2, <1>4, <1>5 DEF TypeOK
<1>7. /\ \A d \in Calls \ {c} : pc'[d] = pc[d]
      /\ pc'[c] \in {"done", "failed"}
  BY <1>0, <1>1 DEF TypeOK
<1>8. lapsed \subseteq Calls /\ \A j \in Keys : ToSet(list[j]) \subseteq Calls
  BY <1>0 DEF TypeOK, Calls, ToSet
<1>9. \A j \in Keys : list[j] = <<>> => list'[j] = <<>>
  <2>1. list[k] = <<>> => Len(list'[k]) = 0
    BY <1>3
  <2> QED BY <1>3, <2>1
<1>10. \A j \in Keys : ToSet(list'[j]) \subseteq ToSet(list[j])
  BY <1>3
<1>11. \A d \in Calls : /\ pc'[d] # "idle" => key'[d] \in Keys
                        /\ pc'[d] \in {"push", "expire", "trim"} => d \in Savers
                        /\ pc'[d] = "range" => d \in Readers
  BY <1>0, <1>4, <1>7 DEF Control
<1>12. \A j \in Keys : \A d \in ToSet(list'[j]) :
         key'[d] = j /\ pc'[d] \in {"expire", "trim", "done", "failed"}
  BY <1>0, <1>4, <1>7, <1>8, <1>10 DEF Control
<1>13. Control'
  BY <1>0, <1>4, <1>7, <1>8, <1>9, <1>11, <1>12 DEF Control
<1> QED BY <1>6, <1>13 DEF Typed

LEMMA ReturnedType ==
  ASSUME TypeOK, NEW k \in Keys PROVE Returned(k) \in Seq(Savers)
<1> DEFINE n == Min({Limit, Len(list[k])})
<1>1. list[k] \in Seq(Savers) /\ Limit \in Nat
  BY SizeAssumption DEF TypeOK
<1>2. n \in 0..Len(list[k])
  BY <1>1, MinOfTwo
<1> HIDE DEF n
<1>3. SubSeq(list[k], 1, n) \in Seq(Savers)
  BY <1>1, <1>2, FrontSet
<1>4. \A s \in Seq(Savers) : Reverse(s) \in Seq(Savers)
  BY DEF Reverse
<1> QED BY <1>1, <1>3, <1>4 DEF Returned, n

\* What TYPE makes the call do next.
LEMMA AfterTypeLabel ==
  ASSUME TypeOK, Control, NEW c \in Calls, pc[c] = "type"
  PROVE  /\ AfterType(c) \in {"del", "push", "range", "done"}
         /\ AfterType(c) = "push" => c \in Savers
         /\ AfterType(c) = "range" => c \in Readers
         /\ AfterType(c) = "del" => type[key[c]] = "string"
<1>1. /\ type[key[c]] \in {"none", "list", "string"}
      /\ c \in Savers <=> c \notin Readers
  BY CallAssumption DEF TypeOK, Control, Calls
<1>2. CASE type[key[c]] = "string"
  BY <1>2 DEF AfterType
<1>3. CASE type[key[c]] # "string" /\ c \in Savers
  BY <1>1, <1>3 DEF AfterType
<1>4. CASE type[key[c]] = "list" /\ c \in Readers
  BY <1>1, <1>4 DEF AfterType
<1>5. CASE type[key[c]] = "none" /\ c \in Readers
  BY <1>1, <1>5 DEF AfterType
<1> QED BY <1>1, <1>2, <1>3, <1>4, <1>5

LEMMA TypedInit == Init => Typed
<1> SUFFICES ASSUME Init PROVE Typed
  OBVIOUS
<1>1. TypeOK
  <2>1. borrowed = {c \in Calls : pc[c] \in Commands}
    BY DEF Init, Commands
  <2> QED BY <2>1 DEF Init, TypeOK, Pcs
<1>2. Control
  BY DEF Init, Control, ToSet
<1> QED BY <1>1, <1>2 DEF Typed

LEMMA TypedStep == ASSUME Typed, [Next]_vars PROVE Typed'
<1> USE CallAssumption
<1> USE DEF dbVars, callVars, histVars
<1>0. TypeOK /\ Control
  BY DEF Typed
<1>1. ASSUME NEW c \in Calls, StartAny(c) PROVE Typed'
  <2>1. ASSUME NEW a \in Users, Start(c, OfflineKey(a), {a}) PROVE Typed'
    BY <2>1, KeyTypes, StartType
  <2>2. ASSUME NEW p \in Pairs, Start(c, PrivateKey(p[1], p[2]), {p[1], p[2]})
        PROVE  Typed'
    <3>1. {p[1], p[2]} \in SUBSET Users /\ PrivateKey(p[1], p[2]) \in Keys
      BY KeyTypes DEF Pairs
    <3> QED BY <2>2, <3>1, StartType
  <2> QED BY <1>1, <2>1, <2>2 DEF StartAny
<1>2. ASSUME NEW c \in Calls, GetJedis(c) PROVE Typed'
  <2>1. pc[c] = "wait" /\ UNCHANGED <<dbVars, key, result, histVars>>
    BY <1>2 DEF GetJedis
  <2>2. CASE pc' = [pc EXCEPT ![c] = "type"] /\ borrowed' = borrowed \cup {c}
    <3>1. borrowed' = {d \in Calls : pc'[d] \in Commands}
      BY <1>0, <2>1, <2>2 DEF TypeOK, Commands
    <3> QED BY <1>0, <2>1, <2>2, <3>1, MoveType DEF Pcs, Commands, TypeOK
  <2>3. CASE End(c, "failed")
    BY <1>0, <2>1, <2>3, EndType, MoveType DEF Pcs, TypeOK
  <2> QED BY <1>2, <2>2, <2>3 DEF GetJedis
<1>3. ASSUME NEW c \in Calls, Type(c) PROVE Typed'
  <2> DEFINE label == AfterType(c)
  <2>1. pc[c] = "type" /\ Then(c, label) /\ UNCHANGED <<dbVars, key, histVars>>
    BY <1>3 DEF Type
  <2>2. /\ label \in {"del", "push", "range", "done"}
        /\ label = "push" => c \in Savers
        /\ label = "range" => c \in Readers
    BY <1>0, <2>1, AfterTypeLabel
  <2>3. result' \in [Readers -> Seq(Savers) \cup {NULL}]
    <3>1. result' \in {result, [result EXCEPT ![c] = <<>>]}
      BY <1>3 DEF Type
    <3>2. <<>> \in Seq(Savers)
      OBVIOUS
    <3> QED BY <1>0, <3>1, <3>2 DEF TypeOK
  <2> HIDE DEF label
  <2>4. /\ pc' = [pc EXCEPT ![c] = label] \/ pc' = [pc EXCEPT ![c] = "failed"]
        /\ borrowed' = {d \in Calls : pc'[d] \in Commands}
    BY <1>0, <2>1, <2>2, ThenType DEF Commands
  <2>5. ttl' \subseteq Keys
    BY <1>0, <2>1 DEF TypeOK
  <2> QED BY <2>1, <2>2, <2>3, <2>4, <2>5, MoveType DEF Pcs, Commands
<1>4. ASSUME NEW c \in Calls, Del(c) PROVE Typed'
  <2> DEFINE label == IF c \in Savers THEN "push" ELSE "done"
  <2>1. /\ pc[c] = "del" /\ Then(c, label) /\ Gone(key[c]) /\ key[c] \in Keys
        /\ UNCHANGED <<key, pushed, deletable, lapsed, began>>
    BY <1>0, <1>4 DEF Del, Control
  <2>2. result' \in [Readers -> Seq(Savers) \cup {NULL}]
    <3>1. result' \in {result, [result EXCEPT ![c] = <<>>]}
      BY <1>4 DEF Del
    <3>2. <<>> \in Seq(Savers)
      OBVIOUS
    <3> QED BY <1>0, <3>1, <3>2 DEF TypeOK
  <2>3. label \in {"push", "done"} /\ (label = "push" => c \in Savers)
    OBVIOUS
  <2> HIDE DEF label
  <2>4. /\ pc' = [pc EXCEPT ![c] = label] \/ pc' = [pc EXCEPT ![c] = "failed"]
        /\ borrowed' = {d \in Calls : pc'[d] \in Commands}
    BY <1>0, <2>1, <2>3, ThenType DEF Commands
  <2>5. \E l \in Pcs : /\ pc' = [pc EXCEPT ![c] = l]
                       /\ l \in {"push", "expire", "trim"} => c \in Savers
                       /\ l # "range"
    BY <2>3, <2>4 DEF Pcs, Commands
  <2> QED BY <2>1, <2>2, <2>4, <2>5, GoneType
<1>5. ASSUME NEW c \in Calls, Push(c) PROVE Typed'
  BY <1>5, PushType
<1>6. ASSUME NEW c \in Calls, Expire(c) PROVE Typed'
  <2> DEFINE label == IF Trimmed(key[c]) THEN "trim" ELSE "done"
  <2>1. /\ pc[c] = "expire" /\ Then(c, label) /\ key[c] \in Keys /\ c \in Savers
        /\ UNCHANGED <<type, list, key, result, histVars>>
    BY <1>0, <1>6 DEF Expire, Control
  <2>2. ttl' \subseteq Keys
    BY <1>0, <1>6, <2>1 DEF Expire, TypeOK
  <2>3. label \in {"trim", "done"}
    OBVIOUS
  <2> HIDE DEF label
  <2>4. /\ pc' = [pc EXCEPT ![c] = label] \/ pc' = [pc EXCEPT ![c] = "failed"]
        /\ borrowed' = {d \in Calls : pc'[d] \in Commands}
    BY <1>0, <2>1, <2>3, ThenType DEF Commands
  <2>5. result' \in [Readers -> Seq(Savers) \cup {NULL}]
    BY <1>0, <2>1 DEF TypeOK
  <2> QED BY <2>1, <2>2, <2>3, <2>4, <2>5, MoveType DEF Pcs, Commands
<1>7. ASSUME NEW c \in Calls, Trim(c) PROVE Typed'
  BY <1>7, TrimType
<1>8. ASSUME NEW c \in Calls, Range_(c) PROVE Typed'
  <2>1. /\ pc[c] = "range" /\ key[c] \in Keys
        /\ UNCHANGED <<dbVars, key, histVars>>
    BY <1>0, <1>8 DEF Range_, Control
  <2>2. result' \in [Readers -> Seq(Savers) \cup {NULL}]
    <3>1. result' \in {result, [result EXCEPT ![c] = Returned(key[c])]}
      BY <1>8 DEF Range_
    <3>2. Returned(key[c]) \in Seq(Savers)
      BY <1>0, <2>1, ReturnedType
    <3> QED BY <1>0, <3>1, <3>2 DEF TypeOK
  <2>3. \E l \in {"done", "failed"} : /\ pc' = [pc EXCEPT ![c] = l]
                                     /\ borrowed' = {d \in Calls : pc'[d] \in Commands}
    BY <1>0, <1>8, EndType DEF Range_
  <2>4. ttl' \subseteq Keys
    BY <1>0, <2>1 DEF TypeOK
  <2> QED BY <2>1, <2>2, <2>3, <2>4, MoveType DEF Pcs
<1>9. ASSUME NEW c \in Calls, Fail(c) PROVE Typed'
  <2>1. /\ pc[c] \in Commands /\ UNCHANGED <<dbVars, key, result, histVars>>
        /\ End(c, "failed")
    BY <1>9 DEF Fail
  <2>2. /\ pc' = [pc EXCEPT ![c] = "failed"]
        /\ borrowed' = {d \in Calls : pc'[d] \in Commands}
    BY <1>0, <2>1, EndType
  <2>3. ttl' \subseteq Keys /\ result' \in [Readers -> Seq(Savers) \cup {NULL}]
    BY <1>0, <2>1 DEF TypeOK
  <2> QED BY <2>1, <2>2, <2>3, MoveType DEF Pcs, Commands
<1>10. ASSUME NEW k \in Keys, TimeOut(k) PROVE Typed'
  <2>1. Gone(k) /\ UNCHANGED <<callVars, pushed, deletable, lapsed, began>>
    BY <1>10 DEF TimeOut
  <2>2. result' \in [Readers -> Seq(Savers) \cup {NULL}]
    BY <1>0, <2>1 DEF TypeOK
  <2> QED BY <2>1, <2>2, GoneType
<1>11. CASE UNCHANGED vars
  BY <1>0, <1>11 DEF vars, Typed, TypeOK, Control
<1> QED
  BY <1>1, <1>2, <1>3, <1>4, <1>5, <1>6, <1>7, <1>8, <1>9, <1>10, <1>11
     DEF Next, CallStep

\* Keys, lists and calls have their types, and exactly the calls that are at a
\* command hold a connection, whatever fails.
THEOREM StoreTypeCorrect == Spec => []TypeOK
<1>1. Typed => TypeOK
  BY DEF Typed
<1> QED BY <1>1, TypedInit, TypedStep, PTL DEF Spec

LEMMA TypedAlways == Spec => []Typed
BY TypedInit, TypedStep, PTL DEF Spec

-----------------------------------------------------------------------------
(* What the steps do to the lists.                                         *)

\* LPUSH: one message more in one list.
LEMMA PushFacts ==
  ASSUME Typed, NEW c \in Calls, Push(c)
  PROVE  /\ pc[c] = "push" /\ key[c] \in Keys /\ c \in Savers
         /\ pc'[c] \in {"expire", "failed"} /\ \A d \in Calls \ {c} : pc'[d] = pc[d]
         /\ list[key[c]] \in Seq(Savers) /\ Len(list'[key[c]]) = Len(list[key[c]]) + 1
         /\ list'[key[c]] = <<c>> \o list[key[c]]
         /\ ToSet(list'[key[c]]) = {c} \cup ToSet(list[key[c]]) /\ type'[key[c]] = "list"
         /\ \A j \in Keys \ {key[c]} : list'[j] = list[j] /\ type'[j] = type[j]
         /\ key' = key /\ ttl' = ttl /\ lapsed' = lapsed \cup {c}
<1>1. TypeOK /\ Control /\ pc[c] = "push" /\ key[c] \in Keys /\ c \in Savers
  BY DEF Typed, Push, Control
<1>2. \E label \in {"expire", "failed"} : pc' = [pc EXCEPT ![c] = label]
  BY <1>1, ThenType DEF Push, Commands
<1>3. pc'[c] \in {"expire", "failed"} /\ \A d \in Calls \ {c} : pc'[d] = pc[d]
  BY <1>1, <1>2 DEF TypeOK
<1>4. list[key[c]] \in Seq(Savers)
  BY <1>1 DEF TypeOK
<1>5. /\ list'[key[c]] = <<c>> \o list[key[c]] /\ type'[key[c]] = "list"
      /\ \A j \in Keys \ {key[c]} : list'[j] = list[j] /\ type'[j] = type[j]
      /\ key' = key /\ ttl' = ttl /\ lapsed' = lapsed \cup {c}
  BY <1>1 DEF Push, TypeOK
<1> QED BY <1>1, <1>3, <1>4, <1>5, PushSet

\* A command moves no other call.
LEMMA ThenMoves ==
  ASSUME TypeOK, NEW c \in Calls, NEW label, Then(c, label)
  PROVE  /\ \A d \in Calls \ {c} : pc'[d] = pc[d]
         /\ pc'[c] \in {label, "failed"}
<1>1. pc' = [pc EXCEPT ![c] = label] \/ pc' = [pc EXCEPT ![c] = "failed"]
  BY DEF Then, End, Goto
<1> QED BY <1>1 DEF TypeOK

LEMMA EndMoves ==
  ASSUME TypeOK, NEW c \in Calls, NEW label, End(c, label)
  PROVE  pc'[c] = label /\ \A d \in Calls \ {c} : pc'[d] = pc[d]
BY DEF TypeOK, End

\* A step that starts a call, or moves it on without touching a list.
Moved ==
  /\ UNCHANGED <<type, list, ttl, deletable, lapsed>>
  /\ \A c \in Calls :
       /\ key'[c] # key[c] => pc[c] = "idle" /\ pc'[c] = "wait"
       /\ pc'[c] # pc[c] => pc[c] \notin {"expire", "failed"} \/ pc'[c] = "failed"
       /\ pc'[c] = "del" /\ pc[c] # "del" => pc[c] = "type" /\ type[key[c]] = "string"

\* A step that makes a key go; the call that deletes it, if any, goes on.
Went(k) ==
  /\ Gone(k) /\ UNCHANGED <<key, deletable, lapsed>>
  /\ \A c \in Calls : pc'[c] # pc[c] => pc[c] = "del" /\ key[c] = k /\ pc'[c] # "del"

\* There are no other steps than these.
LEMMA StepKinds ==
  ASSUME Typed, [Next]_vars
  PROVE  \/ \E c \in Calls : Push(c) \/ Trim(c) \/ Expire(c)
         \/ \E k \in Keys : Went(k)
         \/ Moved
<1> USE DEF dbVars, callVars, histVars
<1>0. TypeOK /\ Control
  BY DEF Typed
<1>1. ASSUME NEW c \in Calls, NEW k \in Keys, NEW us, Start(c, k, us) PROVE Moved
  BY <1>0, <1>1 DEF Start, Goto, TypeOK, Moved
<1>2. ASSUME NEW c \in Calls, GetJedis(c) PROVE Moved
  <2>1. pc[c] = "wait" /\ UNCHANGED <<dbVars, key, histVars>>
        /\ (pc' = [pc EXCEPT ![c] = "type"] \/ End(c, "failed"))
    BY <1>2 DEF GetJedis
  <2>2. pc'[c] \in {"type", "failed"} /\ \A d \in Calls \ {c} : pc'[d] = pc[d]
    BY <1>0, <2>1, EndMoves DEF TypeOK
  <2> QED BY <2>1, <2>2 DEF Moved
<1>3. ASSUME NEW c \in Calls, Type(c) PROVE Moved
  <2> DEFINE label == AfterType(c)
  <2>1. pc[c] = "type" /\ Then(c, label) /\ UNCHANGED <<dbVars, key, histVars>>
    BY <1>3 DEF Type
  <2>2. label = "del" => type[key[c]] = "string"
    BY <1>0, <2>1, AfterTypeLabel
  <2> HIDE DEF label
  <2>3. pc'[c] \in {label, "failed"} /\ \A d \in Calls \ {c} : pc'[d] = pc[d]
    BY <1>0, <2>1, ThenMoves
  <2> QED BY <2>1, <2>2, <2>3 DEF Moved
<1>4. ASSUME NEW c \in Calls, Del(c) PROVE Went(key[c]) /\ key[c] \in Keys
  <2>1. /\ pc[c] = "del" /\ key[c] \in Keys /\ Gone(key[c]) /\ UNCHANGED <<key, deletable, lapsed>>
        /\ Then(c, IF c \in Savers THEN "push" ELSE "done")
    BY <1>0, <1>4 DEF Del, Control
  <2>2. pc'[c] # "del" /\ \A d \in Calls \ {c} : pc'[d] = pc[d]
    BY <1>0, <2>1, ThenMoves
  <2> QED BY <2>1, <2>2 DEF Went
<1>5. ASSUME NEW c \in Calls, Range_(c) PROVE Moved
  <2>1. pc[c] = "range" /\ UNCHANGED <<dbVars, key, histVars>>
        /\ (End(c, "done") \/ End(c, "failed"))
    BY <1>5 DEF Range_
  <2>2. pc'[c] \in {"done", "failed"} /\ \A d \in Calls \ {c} : pc'[d] = pc[d]
    BY <1>0, <2>1, EndMoves
  <2> QED BY <2>1, <2>2 DEF Moved
<1>6. ASSUME NEW c \in Calls, Fail(c) PROVE Moved
  <2>1. UNCHANGED <<dbVars, key, histVars>> /\ End(c, "failed")
    BY <1>6 DEF Fail
  <2>2. pc'[c] = "failed" /\ \A d \in Calls \ {c} : pc'[d] = pc[d]
    BY <1>0, <2>1, EndMoves
  <2> QED BY <2>1, <2>2 DEF Moved
<1>7. ASSUME NEW k \in Keys, TimeOut(k) PROVE Went(k)
  BY <1>7 DEF TimeOut, Went
<1>8. UNCHANGED vars => Moved
  BY DEF vars, Moved
<1>9. ASSUME NEW c \in Calls, StartAny(c) PROVE Moved
  BY <1>1, <1>9, KeyTypes DEF StartAny
<1> QED BY <1>2, <1>3, <1>4, <1>5, <1>6, <1>7, <1>8, <1>9 DEF Next, CallStep

LEMMA GoneLists ==
  ASSUME Typed, NEW k \in Keys, Gone(k)
  PROVE  /\ list' = [list EXCEPT ![k] = <<>>] /\ list'[k] = <<>> /\ ToSet(list'[k]) = {}
         /\ type'[k] = "none" /\ ttl' = ttl \ {k}
         /\ \A j \in Keys \ {k} : list'[j] = list[j] /\ type'[j] = type[j]
<1>1. ToSet(<<>>) = {}
  BY DEF ToSet
<1> QED BY <1>1, GoneFacts DEF Gone

LEMMA ListsOfSavers == ASSUME Typed, NEW k \in Keys PROVE ToSet(list[k]) \subseteq Calls
BY DEF Typed, TypeOK, Calls, ToSet

LEMMA ExpireFacts ==
  ASSUME Typed, NEW c \in Calls, Expire(c)
  PROVE  /\ UNCHANGED <<type, list, key, deletable, lapsed>> /\ key[c] \in Keys
         /\ ttl' = IF type[key[c]] = "list" THEN ttl \cup {key[c]} ELSE ttl
         /\ pc'[c] \in {"trim", "done", "failed"} /\ \A d \in Calls \ {c} : pc'[d] = pc[d]
<1>1. TypeOK /\ Control /\ pc[c] = "expire"
  BY DEF Typed, Expire
<1>2. Then(c, IF Trimmed(key[c]) THEN "trim" ELSE "done")
  BY DEF Expire
<1>3. pc'[c] \in {"trim", "done", "failed"} /\ \A d \in Calls \ {c} : pc'[d] = pc[d]
  BY <1>1, <1>2, ThenMoves
<1>4. key[c] \in Keys
  BY <1>1 DEF Control
<1> QED BY <1>3, <1>4 DEF Expire, histVars

LEMMA TrimMoves ==
  ASSUME Typed, NEW c \in Calls, Trim(c)
  PROVE  /\ UNCHANGED <<type, ttl, key, deletable>> /\ key[c] \in Keys /\ pc[c] = "trim"
         /\ lapsed' = {d \in lapsed : key[d] # key[c]}
         /\ pc'[c] \in {"done", "failed"} /\ \A d \in Calls \ {c} : pc'[d] = pc[d]
         /\ list[key[c]] \in Seq(Savers) /\ list'[key[c]] \in Seq(Savers)
         /\ Len(list'[key[c]]) <= MaxLen
         /\ ToSet(list'[key[c]]) \subseteq ToSet(list[key[c]])
         /\ \A j \in Keys \ {key[c]} : list'[j] = list[j]
<1>1. TypeOK /\ Control /\ pc[c] = "trim" /\ Then(c, "done") /\ key[c] \in Keys
  BY DEF Typed, Trim, Control
<1>2. pc'[c] \in {"done", "failed"} /\ \A d \in Calls \ {c} : pc'[d] = pc[d]
  BY <1>1, ThenMoves
<1>3. /\ list[key[c]] \in Seq(Savers) /\ list'[key[c]] \in Seq(Savers)
      /\ Len(list'[key[c]]) = IF MaxLen <= Len(list[key[c]]) THEN MaxLen ELSE Len(list[key[c]])
      /\ ToSet(list'[key[c]]) \subseteq ToSet(list[key[c]])
      /\ \A j \in Keys \ {key[c]} : list'[j] = list[j]
  BY <1>1, TrimFacts
<1>4. Len(list'[key[c]]) <= MaxLen
  BY <1>3, SizeAssumption
<1> QED BY <1>1, <1>2, <1>3, <1>4 DEF Trim

-----------------------------------------------------------------------------
(* Times to live.                                                          *)

LEMMA ExpiresStep ==
  ASSUME Typed, Typed', ExpiresUnlessFailed, [Next]_vars
  PROVE  ExpiresUnlessFailed'
<1> SUFFICES ASSUME NEW j \in Keys, type'[j] = "list", j \notin ttl',
                    NEW d \in ToSet(list'[j])
             PROVE  pc'[d] \in {"expire", "failed"}
  BY DEF ExpiresUnlessFailed
<1>0. TypeOK /\ Control /\ ToSet(list[j]) \subseteq Calls
  BY ListsOfSavers DEF Typed
<1>1. ASSUME NEW c \in Calls, Push(c) PROVE pc'[d] \in {"expire", "failed"}
  <2>1. CASE d = c
    BY <1>1, <2>1, PushFacts
  <2>2. CASE d # c
    <3>0. ttl' = ttl /\ (j = key[c] \/ list'[j] = list[j])
      BY <1>1, PushFacts
    <3>1. d \in ToSet(list[j]) /\ ttl' = ttl
      <4>1. j = key[c] => ToSet(list'[j]) = {c} \cup ToSet(list[j])
        BY <1>1, PushFacts
      <4> QED BY <2>2, <3>0, <4>1
    <3>2. type[j] = "list"
      BY <1>0, <3>1 DEF Control, ToSet
    <3>3. pc[d] \in {"expire", "failed"} /\ d \in Calls
      BY <1>0, <3>1, <3>2 DEF ExpiresUnlessFailed
    <3> QED BY <1>1, <2>2, <3>3, PushFacts
  <2> QED BY <2>1, <2>2
<1>2. ASSUME NEW c \in Calls, Trim(c) PROVE pc'[d] \in {"expire", "failed"}
  <2>1. type' = type /\ ttl' = ttl /\ d \in ToSet(list[j])
    BY <1>2, TrimMoves
  <2>2. pc[d] \in {"expire", "failed"} /\ d \in Calls
    BY <1>0, <2>1 DEF ExpiresUnlessFailed
  <2> QED BY <1>2, <2>2, TrimMoves
<1>3. ASSUME NEW c \in Calls, Expire(c) PROVE pc'[d] \in {"expire", "failed"}
  <2>1. type' = type /\ j \notin ttl /\ d \in ToSet(list[j]) /\ j # key[c]
    BY <1>3, ExpireFacts
  <2>2. pc[d] \in {"expire", "failed"} /\ d \in Calls /\ key[d] = j
    BY <1>0, <2>1 DEF ExpiresUnlessFailed, Control
  <2> QED BY <1>3, <2>1, <2>2, ExpireFacts
<1>4. ASSUME NEW k \in Keys, Went(k) PROVE pc'[d] \in {"expire", "failed"}
  <2>1. Gone(k) /\ \A c \in Calls : pc'[c] # pc[c] => pc[c] = "del"
    BY <1>4 DEF Went
  <2>2. j # k /\ type[j] = "list" /\ j \notin ttl /\ d \in ToSet(list[j])
    BY <2>1, GoneLists
  <2>3. pc[d] \in {"expire", "failed"} /\ d \in Calls
    BY <1>0, <2>2 DEF ExpiresUnlessFailed
  <2> QED BY <2>1, <2>3
<1>5. CASE Moved
  <2>1. type[j] = "list" /\ j \notin ttl /\ d \in ToSet(list[j])
    BY <1>5 DEF Moved
  <2>2. pc[d] \in {"expire", "failed"} /\ d \in Calls
    BY <1>0, <2>1 DEF ExpiresUnlessFailed
  <2> QED BY <1>5, <2>2 DEF Moved
<1> QED BY <1>1, <1>2, <1>3, <1>4, <1>5, StepKinds

\* A list that would never go is one whose pushes all lack their expire: one
\* expire that comes through is enough for what was pushed before it and after it.
THEOREM ListsExpire == Spec => []ExpiresUnlessFailed
<1>1. Init => ExpiresUnlessFailed
  BY DEF Init, ExpiresUnlessFailed
<1> QED BY <1>1, ExpiresStep, TypedAlways, PTL DEF Spec

-----------------------------------------------------------------------------
(* The repair of a key of the wrong type.                                  *)

\* While a call is about to delete a key, its list only holds what was pushed
\* since the call looked at it.
DelKnows == \A c \in Calls : pc[c] = "del" => ToSet(list[key[c]]) \subseteq deletable

LEMMA DelKnowsStep ==
  ASSUME Typed, DelKnows, [Next]_vars
  PROVE  DelKnows'
<1> SUFFICES ASSUME NEW d \in Calls, pc'[d] = "del"
             PROVE  ToSet(list'[key'[d]]) \subseteq deletable'
  BY DEF DelKnows
<1>0. TypeOK /\ Control
  BY DEF Typed
<1>1. ASSUME NEW c \in Calls, Push(c) PROVE ToSet(list'[key'[d]]) \subseteq deletable'
  <2>1. pc[d] = "del" /\ key' = key
    BY <1>1, PushFacts
  <2>2. key[d] \in Keys /\ ToSet(list[key[d]]) \subseteq deletable
    BY <1>0, <2>1 DEF Control, DelKnows
  <2>3. deletable \subseteq deletable' /\ (key[d] = key[c] => c \in deletable')
    BY <1>1, <2>1 DEF Push
  <2>4. \/ key[d] = key[c] /\ ToSet(list'[key[d]]) = {c} \cup ToSet(list[key[d]])
        \/ key[d] # key[c] /\ list'[key[d]] = list[key[d]]
    <3>1. CASE key[d] = key[c]
      BY <1>1, <3>1, PushFacts
    <3>2. CASE key[d] # key[c]
      BY <1>1, <2>2, <3>2, PushFacts
    <3> QED BY <3>1, <3>2
  <2> QED BY <2>1, <2>2, <2>3, <2>4
<1>2. ASSUME NEW c \in Calls, Trim(c) PROVE ToSet(list'[key'[d]]) \subseteq deletable'
  <2>1. pc[d] = "del" /\ key' = key /\ deletable' = deletable
    BY <1>2, TrimMoves
  <2>2. key[d] \in Keys /\ ToSet(list[key[d]]) \subseteq deletable
    BY <1>0, <2>1 DEF Control, DelKnows
  <2>3. ToSet(list'[key[d]]) \subseteq ToSet(list[key[d]])
    BY <1>2, <2>2, TrimMoves
  <2> QED BY <2>1, <2>2, <2>3
<1>3. ASSUME NEW c \in Calls, Expire(c) PROVE ToSet(list'[key'[d]]) \subseteq deletable'
  BY <1>3, ExpireFacts DEF DelKnows
<1>4. ASSUME NEW k \in Keys, Went(k) PROVE ToSet(list'[key'[d]]) \subseteq deletable'
  <2>1. Gone(k) /\ key' = key /\ deletable' = deletable /\ pc[d] = "del"
    BY <1>4 DEF Went
  <2>2. key[d] \in Keys /\ ToSet(list[key[d]]) \subseteq deletable
    BY <1>0, <2>1 DEF Control, DelKnows
  <2> QED BY <2>1, <2>2, GoneLists
<1>5. CASE Moved
  <2>1. key'[d] = key[d] /\ list' = list /\ deletable' = deletable
    BY <1>5 DEF Moved
  <2>2. CASE pc[d] = "del"
    BY <2>1, <2>2 DEF DelKnows
  <2>3. CASE pc[d] # "del"
    <3>1. type[key[d]] = "string" /\ key[d] \in Keys
      <4>1. type[key[d]] = "string" /\ pc[d] # "idle"
        BY <1>5, <2>3 DEF Moved
      <4> QED BY <1>0, <4>1 DEF Control
    <3>2. list[key[d]] = <<>>
      BY <1>0, <3>1 DEF Control
    <3>3. ToSet(list[key[d]]) = {}
      BY <3>2 DEF ToSet
    <3> QED BY <2>1, <3>3
  <2> QED BY <2>2, <2>3
<1> QED BY <1>1, <1>2, <1>3, <1>4, <1>5, StepKinds

\* Only a message that was pushed while another call was about to delete the key
\* can go with it.
THEOREM OnlyRacesDelete == Spec => DeletedOnlyInRace
<1>1. Init => DelKnows
  BY DEF Init, DelKnows
<1>2. DelKnows =>
        \A c \in Calls, k \in Keys :
          pc[c] = "del" /\ pc'[c] # "del" /\ key[c] = k /\ type'[k] # type[k] =>
            ToSet(list[k]) \subseteq deletable
  BY DEF DelKnows
<1>3. Spec => []DelKnows
  BY <1>1, DelKnowsStep, TypedAlways, PTL DEF Spec
<1> QED BY <1>2, <1>3, PTL DEF DeletedOnlyInRace

-----------------------------------------------------------------------------
(* Lengths.                                                                *)

LEMMA LengthStep ==
  ASSUME Typed, LengthBound, [Next]_vars
  PROVE  LengthBound'
<1> SUFFICES ASSUME NEW j \in PrivateKeys
             PROVE  Len(list'[j]) <= MaxLen + Cardinality({c \in lapsed' : key'[c] = j})
  BY DEF LengthBound
<1> DEFINE L == {c \in lapsed : key[c] = j}
           M == {c \in lapsed' : key'[c] = j}
<1>0. TypeOK /\ Control /\ j \in Keys
  BY DEF Typed, Keys
<1>1. /\ list[j] \in Seq(Savers) /\ Len(list[j]) \in Nat /\ MaxLen \in Nat
      /\ L \subseteq Savers /\ Len(list[j]) <= MaxLen + Cardinality(L)
  <2>1. list[j] \in Seq(Savers) /\ Len(list[j]) \in Nat /\ MaxLen \in Nat
    BY <1>0, SizeAssumption DEF TypeOK
  <2>2. L \subseteq Savers
    BY <1>0 DEF TypeOK
  <2>3. Len(list[j]) <= MaxLen + Cardinality(L)
    BY Zenon DEF LengthBound
  <2> QED BY <2>1, <2>2, <2>3
<1>2. IsFiniteSet(L) /\ Cardinality(L) \in Nat
  BY <1>1, FiniteAssumption, FS_Subset, FS_CardinalityType
<1>3. ASSUME NEW c \in Calls, Push(c) PROVE Len(list'[j]) <= MaxLen + Cardinality(M)
  <2>1. pc[c] = "push" /\ key' = key /\ lapsed' = lapsed \cup {c} /\ c \notin lapsed
    BY <1>0, <1>3, PushFacts DEF Control
  <2>2. CASE j = key[c]
    <3>1. M = L \cup {c} /\ c \notin L
      BY <2>1, <2>2
    <3>2. Cardinality(M) = Cardinality(L) + 1
      BY <1>2, <3>1, FS_AddElement
    <3>3. Len(list'[j]) = Len(list[j]) + 1
      BY <1>3, <2>2, PushFacts
    <3> HIDE DEF L, M
    <3> QED BY <1>1, <1>2, <3>2, <3>3
  <2>3. CASE j # key[c]
    <3>1. M = L
      BY <2>1, <2>3
    <3>2. list'[j] = list[j]
      BY <1>0, <1>3, <2>3, PushFacts
    <3> QED BY <1>1, <3>1, <3>2
  <2> QED BY <2>2, <2>3
<1>4. ASSUME NEW c \in Calls, Trim(c) PROVE Len(list'[j]) <= MaxLen + Cardinality(M)
  <2>1. key' = key /\ lapsed' = {d \in lapsed : key[d] # key[c]}
    BY <1>4, TrimMoves
  <2>2. CASE j = key[c]
    <3>1. M = {}
      BY <2>1, <2>2
    <3>2. Len(list'[j]) <= MaxLen /\ Len(list'[j]) \in Nat
      BY <1>4, <2>2, TrimMoves
    <3>3. Cardinality(M) = 0
      BY <3>1, FS_EmptySet
    <3> HIDE DEF M
    <3> QED BY <1>1, <3>2, <3>3
  <2>3. CASE j # key[c]
    <3>1. M = L
      BY <2>1, <2>3
    <3>2. list'[j] = list[j]
      BY <1>0, <1>4, <2>3, TrimMoves
    <3> QED BY <1>1, <3>1, <3>2
  <2> QED BY <2>2, <2>3
<1>5. ASSUME NEW c \in Calls, Expire(c) PROVE Len(list'[j]) <= MaxLen + Cardinality(M)
  <2>1. M = L /\ list' = list
    BY <1>5, ExpireFacts
  <2> QED BY <1>1, <2>1
<1>6. ASSUME NEW k \in Keys, Went(k) PROVE Len(list'[j]) <= MaxLen + Cardinality(M)
  <2>1. M = L /\ Gone(k)
    BY <1>6 DEF Went
  <2>2. list'[j] = list[j] \/ list'[j] = <<>>
    BY <1>0, <2>1, GoneLists
  <2>3. Len(list'[j]) <= Len(list[j]) /\ Len(list'[j]) \in Nat
    BY <1>1, <2>2
  <2>4. Len(list[j]) <= MaxLen + Cardinality(M)
    BY <1>1, <2>1
  <2> HIDE DEF L, M
  <2> QED BY <1>1, <1>2, <2>1, <2>3, <2>4
<1>7. CASE Moved
  <2>1. \A c \in lapsed : c \in Calls /\ pc[c] # "idle"
    BY <1>0 DEF TypeOK, Control, Calls
  <2>2. lapsed' = lapsed /\ list' = list /\ \A c \in lapsed : key'[c] = key[c]
    BY <1>7, <2>1 DEF Moved
  <2>3. M = L
    BY <2>2
  <2> QED BY <1>1, <2>2, <2>3
<1> QED BY <1>3, <1>4, <1>5, <1>6, <1>7, StepKinds

\* The list of a conversation is longer than its bound by no more messages than
\* pushes that no trim followed, and the next trim makes good for all of them.
THEOREM ListsAreBounded == Spec => []LengthBound
<1>1. Init => LengthBound
  <2> SUFFICES ASSUME Init, NEW k \in PrivateKeys
               PROVE  Len(list[k]) <= MaxLen + Cardinality({c \in lapsed : key[c] = k})
    BY DEF LengthBound
  <2>1. Len(list[k]) = 0 /\ {c \in lapsed : key[c] = k} = {}
    BY DEF Init, Keys
  <2> QED BY <2>1, SizeAssumption, FS_EmptySet
<1> QED BY <1>1, LengthStep, TypedAlways, PTL DEF Spec

-----------------------------------------------------------------------------
(* The lists are bounded logs.                                             *)

LEMMA LogStep == ASSUME Typed, [Next]_vars PROVE [Log!Next]_list
<1>0. TypeOK /\ Control
  BY DEF Typed
<1>1. ASSUME NEW c \in Calls, Push(c) PROVE Log!Next
  <2>1. key[c] \in Keys /\ c \in Savers
    BY <1>1, PushFacts
  <2>2. Log!Push(key[c], c)
    BY <1>1 DEF Push, Log!Push
  <2> QED BY <2>1, <2>2 DEF Log!Next
<1>2. ASSUME NEW c \in Calls, Trim(c) PROVE [Log!Next]_list
  <2> DEFINE k == key[c]
             n == IF MaxLen <= Len(list[k]) THEN MaxLen ELSE Len(list[k])
  <2>1. k \in Keys
    BY <1>2, TrimMoves
  <2>2. /\ n \in 0..Len(list[k]) /\ list[k] \in Seq(Savers)
        /\ list' = [list EXCEPT ![k] = SubSeq(@, 1, n)]
        /\ n < MaxLen => list'[k] = list[k]
        /\ \A j \in Keys \ {k} : list'[j] = list[j]
    BY <1>0, <1>2, <2>1, TrimFacts
  <2>3. CASE n >= MaxLen
    <3>1. Log!DropOldest(k, n)
      BY <2>2, <2>3 DEF Log!DropOldest
    <3> QED BY <2>1, <2>2, <3>1 DEF Log!Next
  <2>4. CASE n < MaxLen
    <3>1. DOMAIN list' = Keys /\ DOMAIN list = Keys /\ \A j \in Keys : list'[j] = list[j]
      BY <1>0, <2>2, <2>4 DEF TypeOK
    <3>2. list = [j \in Keys |-> list[j]] /\ list' = [j \in Keys |-> list'[j]]
      BY <1>0, <2>2 DEF TypeOK
    <3> QED BY <3>1, <3>2
  <2>5. n >= MaxLen \/ n < MaxLen
    BY <2>2, SizeAssumption
  <2> QED BY <2>3, <2>4, <2>5
<1>3. ASSUME NEW c \in Calls, Expire(c) PROVE list' = list
  BY <1>3, ExpireFacts
<1>4. ASSUME NEW k \in Keys, Went(k) PROVE Log!Next
  <2>1. Log!Clear(k)
    BY <1>4 DEF Went, Gone, Log!Clear
  <2> QED BY <2>1 DEF Log!Next
<1>5. Moved => list' = list
  BY DEF Moved
<1> QED BY <1>1, <1>2, <1>3, <1>4, <1>5, StepKinds

\* Whatever runs at the same time and wherever it fails, a list only ever gains a
\* newest message, loses its oldest ones or goes as a whole.
THEOREM ListsImplementLogs == Spec => LogSpec
<1>1. Init => Log!Init
  BY DEF Init, Log!Init
<1> QED BY <1>1, LogStep, TypedAlways, PTL DEF Spec, LogSpec, Log!Spec

-----------------------------------------------------------------------------
(* What a read returns.                                                    *)

\* The messages before m in a list of pushes: those pushed later.
Before(s, m) == {n \in Savers : n \in ToSet(s) /\
  \E i, j \in DOMAIN s : s[i] = n /\ s[j] = m /\ i < j}

LEMMA BeforeFinite ==
  ASSUME NEW s, NEW m
  PROVE  /\ Before(s, m) \subseteq Savers /\ IsFiniteSet(Before(s, m))
         /\ Cardinality(Before(s, m)) \in Nat
<1>1. Before(s, m) \subseteq Savers
  BY DEF Before
<1> QED BY <1>1, FiniteAssumption, FS_Subset, FS_CardinalityType

\* A push leaves a message as many newer ones as it had, or one more.
LEMMA BeforeGrows ==
  ASSUME NEW s \in Seq(Savers), NEW x \in Savers, NEW m
  PROVE  Cardinality(Before(s, m)) <= Cardinality(Before(<<x>> \o s, m))
<1> DEFINE t == <<x>> \o s
<1>1. /\ t \in Seq(Savers) /\ Len(t) = Len(s) + 1 /\ Len(s) \in Nat
      /\ ToSet(t) = {x} \cup ToSet(s)
  BY PushSet
<1>2. \A i \in DOMAIN s : i + 1 \in DOMAIN t /\ t[i + 1] = s[i] /\ i \in Nat
  OBVIOUS
<1> HIDE DEF t
<1>3. Before(s, m) \subseteq Before(t, m)
  <2> SUFFICES ASSUME NEW n \in Savers, n \in ToSet(s), NEW i \in DOMAIN s, NEW j \in DOMAIN s,
                      s[i] = n, s[j] = m, i < j
               PROVE  n \in Before(t, m)
    BY DEF Before
  <2>1. t[i + 1] = n /\ t[j + 1] = m /\ i + 1 < j + 1
    BY <1>2
  <2> QED BY <1>1, <1>2, <2>1 DEF Before
<1> QED BY <1>3, BeforeFinite, FS_Subset DEF t

\* The message at place p of pushes by different calls has all those before it.
LEMMA BeforeCount ==
  ASSUME NEW s \in Seq(Savers), NEW p \in DOMAIN s, NEW n \in Nat, n < p,
         \A i, j \in DOMAIN s : s[i] = s[j] => i = j
  PROVE  Cardinality(Before(s, s[p])) >= n
<1> DEFINE f == [i \in 1..n |-> s[i]]
<1>1. DOMAIN s = 1..Len(s) /\ Len(s) \in Nat
  OBVIOUS
<1>2. \A i \in 1..n : i \in DOMAIN s /\ i < p
  BY <1>1
<1>3. \A i \in 1..n : f[i] \in Before(s, s[p])
  <2> SUFFICES ASSUME NEW i \in 1..n PROVE s[i] \in Before(s, s[p])
    OBVIOUS
  <2>1. i \in DOMAIN s /\ i < p /\ s[i] \in Savers /\ s[i] \in ToSet(s)
    BY <1>2 DEF ToSet
  <2> QED BY <2>1 DEF Before
<1>4. \A i, j \in 1..n : f[i] = f[j] => i = j
  BY <1>2
<1>5. f \in Injection(1..n, Before(s, s[p]))
  BY <1>3, <1>4 DEF Injection, IsInjective
<1>6. Cardinality(1..n) = n
  BY FS_Interval
<1>7. Cardinality(1..n) <= Cardinality(Before(s, s[p]))
  BY <1>5, BeforeFinite, FS_Injection
<1> QED BY <1>6, <1>7, BeforeFinite

LEMMA ReverseSet ==
  ASSUME NEW S, NEW s \in Seq(S) PROVE ToSet(Reverse(s)) = ToSet(s)
<1>1. /\ DOMAIN s = 1..Len(s) /\ DOMAIN Reverse(s) = 1..Len(s) /\ Len(s) \in Nat
      /\ \A i \in 1..Len(s) : Reverse(s)[i] = s[Len(s) - i + 1]
  BY DEF Reverse
<1>2. \A i \in 1..Len(s) : Len(s) - i + 1 \in 1..Len(s) /\ Len(s) - (Len(s) - i + 1) + 1 = i
  BY <1>1
<1>3. ToSet(Reverse(s)) = {Reverse(s)[i] : i \in 1..Len(s)} /\ ToSet(s) = {s[i] : i \in 1..Len(s)}
  BY <1>1 DEF ToSet
<1> QED BY <1>1, <1>2, <1>3

\* A call that is past its push.
Past == {"expire", "trim", "done", "failed"}

\* Every list is the newest part of the pushes to its key, each by another call;
\* what is neither in the list nor lost has MaxLen newer messages.
PushedInv ==
  /\ \A k \in Keys : \A s \in ToSet(pushed[k]) : key[s] = k /\ pc[s] \in Past
  /\ \A k \in Keys : \A i, j \in DOMAIN pushed[k] : pushed[k][i] = pushed[k][j] => i = j
  /\ \A k \in Keys : /\ Len(list[k]) <= Len(pushed[k])
                     /\ \A i \in 1..Len(list[k]) : list[k][i] = pushed[k][i]
  /\ \A s \in Savers : pc[s] \in Past \ {"failed"} => s \in ToSet(pushed[key[s]])
  /\ \A c \in Calls : pc[c] = "trim" => Trimmed(key[c])
  /\ \A k \in Keys : \A m \in ToSet(pushed[k]) \ lost :
       \/ m \in ToSet(list[k])
       \/ Trimmed(k) /\ Cardinality(Before(pushed[k], m)) >= MaxLen

\* A step that neither pushes, trims nor sets a time to live.
Kept ==
  /\ pushed' = pushed
  /\ UNCHANGED <<list, lost>> \/ \E k \in Keys : Gone(k)
  /\ \A c \in Calls :
       /\ pc[c] # "idle" => key'[c] = key[c] /\ pc'[c] # "idle"
       /\ pc[c] \in Past => pc'[c] \in Past
       /\ pc'[c] = "trim" => pc[c] = "trim"
       /\ c \in Savers /\ pc'[c] \in Past \ {"failed"} => pc'[c] = pc[c]
       /\ pc[c] \in {"done", "failed"} => pc'[c] = pc[c]

\* What a step makes of a read: nothing, an empty list of what holds no list, or
\* the part of the list that it returns.
ReadOf(r) ==
  \/ result'[r] = result[r]
  \/ /\ pc[r] # "idle" /\ pc'[r] = "done" /\ key'[r] = key[r]
     /\ \/ result'[r] = <<>> /\ list'[key[r]] = <<>> /\ key[r] \in Keys
        \/ result'[r] = Returned(key[r]) /\ list' = list /\ lost' = lost /\ key[r] \in Keys

\* The key of these users.
KeyOf(k, us) ==
  \/ \E a \in Users : k = OfflineKey(a) /\ us = {a}
  \/ \E p \in Pairs : k = PrivateKey(p[1], p[2]) /\ us = {p[1], p[2]}

\* The same users have the same key; others may share it.
LEMMA KeyOfUsers ==
  ASSUME NEW k, NEW j, NEW us, KeyOf(k, us), KeyOf(j, us) PROVE k = j
<1>1. ASSUME NEW a, NEW p \in Pairs, {a} = {p[1], p[2]} PROVE FALSE
  BY <1>1 DEF Pairs
<1>2. ASSUME NEW p \in Pairs, NEW q \in Pairs, {p[1], p[2]} = {q[1], q[2]}
      PROVE  PrivateKey(p[1], p[2]) = PrivateKey(q[1], q[2])
  <2>1. /\ p[1] \in Users /\ p[2] \in Users
        /\ \/ p[1] = q[1] /\ p[2] = q[2]
           \/ p[1] = q[2] /\ p[2] = q[1]
    BY <1>2 DEF Pairs
  <2> QED BY <2>1, OneKeyPerConversation
<1> QED BY <1>1, <1>2 DEF KeyOf

\* Who a call is of, and what a read must see, is fixed when it begins.
MustOf(c) ==
  \/ began'[c] = began[c] /\ (pc[c] # "idle" \/ pc'[c] = pc[c])
  \/ /\ pc[c] = "idle" /\ pc'[c] = "wait" /\ KeyOf(key'[c], began'[c].of)
     /\ began'[c].saved \subseteq
          {s \in Savers : pc[s] = "done" /\ began[s].of = began'[c].of}

LEMMA KeptSteps ==
  ASSUME Typed, [Next]_vars
  PROVE  /\ Kept \/ \E c \in Calls : Push(c) \/ Trim(c) \/ Expire(c)
         /\ (\A r \in Readers : ReadOf(r)) /\ \A d \in Calls : MustOf(d)
<1> USE DEF dbVars, callVars, histVars
<1>0. TypeOK /\ Control
  BY DEF Typed
<1>1. ASSUME NEW c \in Calls, NEW k \in Keys, NEW us \in SUBSET Users,
             Start(c, k, us), KeyOf(k, us)
      PROVE  Kept /\ (\A r \in Readers : ReadOf(r)) /\ \A d \in Calls : MustOf(d)
  <2>1. /\ pc[c] = "idle" /\ pc'[c] = "wait" /\ \A d \in Calls \ {c} : pc'[d] = pc[d]
        /\ key'[c] = k /\ \A d \in Calls \ {c} : key'[d] = key[d]
        /\ UNCHANGED <<dbVars, result, pushed, lost>>
    BY <1>0, <1>1 DEF Start, Goto, TypeOK
  <2>2. Kept
    BY <2>1 DEF Kept, Past
  <2>3. \A d \in Calls \ {c} : began'[d] = began[d]
    BY <1>0, <1>1 DEF Start, TypeOK
  <2>4. /\ began'[c].of = us
        /\ began'[c].saved \subseteq {s \in Savers : pc[s] = "done" /\ began[s].of = us}
    BY <1>0, <1>1, <2>1 DEF Start, TypeOK
  <2>5. ASSUME NEW d \in Calls PROVE MustOf(d)
    <3>1. CASE d = c
      BY <1>1, <2>1, <2>4, <3>1 DEF MustOf
    <3>2. CASE d # c
      BY <2>1, <2>3, <3>2 DEF MustOf
    <3> QED BY <3>1, <3>2
  <2> QED BY <2>1, <2>2, <2>5 DEF ReadOf
<1>2. ASSUME NEW c \in Calls, GetJedis(c)
      PROVE  Kept /\ (\A r \in Readers : ReadOf(r)) /\ \A d \in Calls : MustOf(d)
  <2>1. pc[c] = "wait" /\ UNCHANGED <<dbVars, key, result, histVars>>
        /\ (pc' = [pc EXCEPT ![c] = "type"] \/ End(c, "failed"))
    BY <1>2 DEF GetJedis
  <2>2. pc'[c] \in {"type", "failed"} /\ \A d \in Calls \ {c} : pc'[d] = pc[d]
    BY <1>0, <2>1, EndMoves DEF TypeOK
  <2> QED BY <2>1, <2>2 DEF Kept, Past, ReadOf, MustOf, Calls
<1>3. ASSUME NEW c \in Calls, Type(c)
      PROVE  Kept /\ (\A r \in Readers : ReadOf(r)) /\ \A d \in Calls : MustOf(d)
  <2> DEFINE label == AfterType(c)
  <2>1. pc[c] = "type" /\ Then(c, label) /\ UNCHANGED <<dbVars, key, histVars>>
    BY <1>3 DEF Type
  <2>2. /\ label \in {"del", "push", "range", "done"}
        /\ label = "done" => c \notin Savers
    <3>1. c \in Savers => label \in {"del", "push"}
      BY <1>0, CallAssumption DEF AfterType
    <3> QED BY <1>0, <2>1, <3>1, AfterTypeLabel
  <2> HIDE DEF label
  <2>3. pc'[c] \in {label, "failed"} /\ \A d \in Calls \ {c} : pc'[d] = pc[d]
    BY <1>0, <2>1, ThenMoves
  <2>4. Kept
    BY <2>1, <2>2, <2>3 DEF Kept, Past
  <2>5. \A r \in Readers : ReadOf(r)
    <3>1. CASE result' = result
      BY <3>1 DEF ReadOf
    <3>2. CASE /\ c \in Readers /\ type[key[c]] = "none" /\ pc'[c] = "done"
               /\ result' = [result EXCEPT ![c] = <<>>]
      <4>1. list[key[c]] = <<>> /\ key[c] \in Keys
        BY <1>0, <2>1, <3>2 DEF Control
      <4>2. \A r \in Readers : result'[r] = IF r = c THEN <<>> ELSE result[r]
        BY <1>0, <3>2 DEF TypeOK
      <4> QED BY <2>1, <3>2, <4>1, <4>2 DEF ReadOf
    <3> QED BY <1>3, <3>1, <3>2 DEF Type
  <2> QED BY <2>1, <2>3, <2>4, <2>5 DEF MustOf, Calls
<1>4. ASSUME NEW c \in Calls, Del(c)
      PROVE  Kept /\ (\A r \in Readers : ReadOf(r)) /\ \A d \in Calls : MustOf(d)
  <2>1. /\ pc[c] = "del" /\ key[c] \in Keys /\ Gone(key[c])
        /\ UNCHANGED <<key, pushed, began>>
        /\ Then(c, IF c \in Savers THEN "push" ELSE "done")
    BY <1>0, <1>4 DEF Del, Control
  <2>2. /\ pc'[c] \in {"push", "done", "failed"} /\ (c \in Savers => pc'[c] # "done")
        /\ \A d \in Calls \ {c} : pc'[d] = pc[d]
    BY <1>0, <2>1, ThenMoves
  <2>3. Kept
    BY <2>1, <2>2 DEF Kept, Past
  <2>4. \A r \in Readers : ReadOf(r)
    <3>1. CASE result' = result
      BY <3>1 DEF ReadOf
    <3>2. CASE /\ c \in Readers /\ pc'[c] = "done"
               /\ result' = [result EXCEPT ![c] = <<>>]
      <4>1. list'[key[c]] = <<>>
        BY <2>1, GoneFacts
      <4>2. \A r \in Readers : result'[r] = IF r = c THEN <<>> ELSE result[r]
        BY <1>0, <3>2 DEF TypeOK
      <4> QED BY <2>1, <3>2, <4>1, <4>2 DEF ReadOf
    <3> QED BY <1>4, <3>1, <3>2 DEF Del
  <2> QED BY <2>1, <2>2, <2>3, <2>4 DEF MustOf, Calls
<1>5. ASSUME NEW c \in Calls, Range_(c)
      PROVE  Kept /\ (\A r \in Readers : ReadOf(r)) /\ \A d \in Calls : MustOf(d)
  <2>1. /\ pc[c] = "range" /\ UNCHANGED <<dbVars, key, histVars>>
        /\ \/ End(c, "done") /\ result' = [result EXCEPT ![c] = Returned(key[c])]
           \/ End(c, "failed") /\ UNCHANGED result
        /\ c \in Readers /\ c \notin Savers /\ key[c] \in Keys
    BY <1>0, <1>5, CallAssumption DEF Range_, Control
  <2>2. pc'[c] \in {"done", "failed"} /\ \A d \in Calls \ {c} : pc'[d] = pc[d]
    BY <1>0, <2>1, EndMoves
  <2>3. Kept
    BY <2>1, <2>2 DEF Kept, Past
  <2>4. \A r \in Readers : ReadOf(r)
    <3>1. CASE result' = result
      BY <3>1 DEF ReadOf
    <3>2. CASE End(c, "done") /\ result' = [result EXCEPT ![c] = Returned(key[c])]
      <4>1. pc'[c] = "done"
        BY <1>0, <3>2, EndMoves
      <4>2. \A r \in Readers : result'[r] = IF r = c THEN Returned(key[c]) ELSE result[r]
        BY <1>0, <3>2 DEF TypeOK
      <4> QED BY <2>1, <4>1, <4>2 DEF ReadOf
    <3> QED BY <2>1, <3>1, <3>2
  <2> QED BY <2>1, <2>2, <2>3, <2>4 DEF MustOf, Calls
<1>6. ASSUME NEW c \in Calls, Fail(c)
      PROVE  Kept /\ (\A r \in Readers : ReadOf(r)) /\ \A d \in Calls : MustOf(d)
  <2>1. UNCHANGED <<dbVars, key, result, histVars>> /\ End(c, "failed")
        /\ pc[c] \notin {"idle", "done", "failed"}
    BY <1>6 DEF Fail, Commands
  <2>2. pc'[c] = "failed" /\ \A d \in Calls \ {c} : pc'[d] = pc[d]
    BY <1>0, <2>1, EndMoves
  <2> QED BY <2>1, <2>2 DEF Kept, Past, ReadOf, MustOf, Calls
<1>7. ASSUME NEW k \in Keys, TimeOut(k)
      PROVE  Kept /\ (\A r \in Readers : ReadOf(r)) /\ \A d \in Calls : MustOf(d)
  BY <1>7 DEF TimeOut, Kept, Past, ReadOf, MustOf
<1>8. CASE UNCHANGED vars
  BY <1>8 DEF vars, Kept, Past, ReadOf, MustOf
<1>9. ASSUME NEW c \in Calls, Push(c) \/ Trim(c) \/ Expire(c)
      PROVE  (\A r \in Readers : ReadOf(r)) /\ \A d \in Calls : MustOf(d)
  <2>1. UNCHANGED <<result, began>>
    BY <1>9 DEF Push, Trim, Expire
  <2>2. pc[c] # "idle" /\ \A d \in Calls \ {c} : pc'[d] = pc[d]
    BY <1>9, PushFacts, TrimMoves, ExpireFacts DEF Push, Trim, Expire
  <2> QED BY <2>1, <2>2 DEF ReadOf, MustOf, Calls
<1>10. ASSUME NEW c \in Calls, StartAny(c)
       PROVE  Kept /\ (\A r \in Readers : ReadOf(r)) /\ \A d \in Calls : MustOf(d)
  <2>1. CASE \E a \in Users : Start(c, OfflineKey(a), {a})
    <3>1. PICK a \in Users : Start(c, OfflineKey(a), {a})
      BY <2>1
    <3> QED BY <1>1, <3>1, KeyTypes DEF KeyOf
  <2>2. CASE \E p \in Pairs : Start(c, PrivateKey(p[1], p[2]), {p[1], p[2]})
    <3>1. PICK p \in Pairs : Start(c, PrivateKey(p[1], p[2]), {p[1], p[2]})
      BY <2>2
    <3>2. {p[1], p[2]} \in SUBSET Users
      BY DEF Pairs
    <3> QED BY <1>1, <3>1, <3>2, KeyTypes DEF KeyOf
  <2> QED BY <1>10, <2>1, <2>2 DEF StartAny
<1> QED
  BY <1>2, <1>3, <1>4, <1>5, <1>6, <1>7, <1>8, <1>9, <1>10 DEF Next, CallStep

\* LPUSH, seen by the pushes.
LEMMA PushedByPush ==
  ASSUME Typed, PushedInv, NEW c \in Calls, Push(c)
  PROVE  PushedInv'
<1> DEFINE k == key[c]
<1>0. TypeOK /\ Control
  BY DEF Typed
<1>1. /\ pc[c] = "push" /\ k \in Keys /\ c \in Savers /\ pc'[c] \in {"expire", "failed"}
      /\ \A d \in Calls \ {c} : pc'[d] = pc[d]
      /\ key' = key /\ list'[k] = <<c>> \o list[k] /\ ToSet(list'[k]) = {c} \cup ToSet(list[k])
      /\ \A j \in Keys \ {k} : list'[j] = list[j]
  BY PushFacts
<1>2. /\ pushed'[k] = <<c>> \o pushed[k] /\ \A j \in Keys \ {k} : pushed'[j] = pushed[j]
      /\ lost' = lost /\ list[k] \in Seq(Savers) /\ pushed[k] \in Seq(Savers)
  BY <1>0, <1>1 DEF Push, TypeOK
<1>3. /\ pushed'[k] \in Seq(Savers) /\ Len(pushed'[k]) = Len(pushed[k]) + 1
      /\ ToSet(pushed'[k]) = {c} \cup ToSet(pushed[k])
      /\ Len(list'[k]) = Len(list[k]) + 1
      /\ Len(list[k]) \in Nat /\ Len(pushed[k]) \in Nat
      /\ DOMAIN pushed[k] = 1..Len(pushed[k]) /\ DOMAIN pushed'[k] = 1..(Len(pushed[k]) + 1)
  BY <1>1, <1>2, PushSet
<1>4. /\ \A i \in 1..(Len(pushed[k]) + 1) :
           pushed'[k][i] = IF i = 1 THEN c ELSE pushed[k][i - 1]
      /\ \A i \in 1..(Len(list[k]) + 1) : list'[k][i] = IF i = 1 THEN c ELSE list[k][i - 1]
  BY <1>1, <1>2
<1>5. \A j \in Keys : ToSet(pushed[j]) \subseteq Calls /\ c \notin ToSet(pushed[j])
  <2>1. \A j \in Keys : ToSet(pushed[j]) \subseteq Calls
    BY <1>0 DEF TypeOK, Calls, ToSet
  <2> QED BY <1>1, <2>1 DEF PushedInv, Past
<1> HIDE DEF k
<1>6. \A j \in Keys : \A s \in ToSet(pushed'[j]) : key'[s] = j /\ pc'[s] \in Past
  <2> SUFFICES ASSUME NEW j \in Keys, NEW s \in ToSet(pushed'[j])
               PROVE  key[s] = j /\ pc'[s] \in Past
    BY <1>1
  <2>1. CASE s = c
    <3>1. j = k
      BY <1>2, <1>5, <2>1
    <3> QED BY <1>1, <2>1, <3>1 DEF Past, k
  <2>2. CASE s # c
    <3>1. s \in ToSet(pushed[j])
      BY <1>2, <1>3, <2>2
    <3> QED BY <1>1, <1>5, <2>2, <3>1 DEF PushedInv
  <2> QED BY <2>1, <2>2
<1>7. \A j \in Keys : \A i, h \in DOMAIN pushed'[j] :
        pushed'[j][i] = pushed'[j][h] => i = h
  <2>1. ASSUME NEW i \in DOMAIN pushed'[k], NEW h \in DOMAIN pushed'[k],
               pushed'[k][i] = pushed'[k][h]
        PROVE  i = h
    <3>1. \A x \in DOMAIN pushed[k] : pushed[k][x] # c
      BY <1>1, <1>5 DEF ToSet
    <3>2. i \in Nat /\ h \in Nat
      BY <1>3
    <3>3. i # 1 => i - 1 \in DOMAIN pushed[k] /\ pushed'[k][i] = pushed[k][i - 1]
      BY <1>3, <1>4
    <3>4. h # 1 => h - 1 \in DOMAIN pushed[k] /\ pushed'[k][h] = pushed[k][h - 1]
      BY <1>3, <1>4
    <3>5. (i = 1 => pushed'[k][i] = c) /\ (h = 1 => pushed'[k][h] = c)
      BY <1>3, <1>4
    <3>6. CASE i # 1 /\ h # 1
      <4>1. i - 1 = h - 1
        BY <1>1, <2>1, <3>3, <3>4, <3>6 DEF PushedInv
      <4> QED BY <3>2, <4>1
    <3> QED BY <2>1, <3>1, <3>3, <3>4, <3>5, <3>6
  <2> QED BY <1>2, <2>1 DEF PushedInv
<1>8. \A j \in Keys : /\ Len(list'[j]) <= Len(pushed'[j])
                      /\ \A i \in 1..Len(list'[j]) : list'[j][i] = pushed'[j][i]
  <2>1. Len(list[k]) <= Len(pushed[k]) /\ \A i \in 1..Len(list[k]) : list[k][i] = pushed[k][i]
    BY <1>1 DEF PushedInv
  <2>2. ASSUME NEW i \in 1..Len(list'[k]) PROVE list'[k][i] = pushed'[k][i]
    <3>1. i \in 1..(Len(list[k]) + 1) /\ i \in 1..(Len(pushed[k]) + 1)
      BY <1>3, <2>1
    <3>2. i # 1 => i - 1 \in 1..Len(list[k])
      BY <1>3, <3>1
    <3> QED BY <1>4, <2>1, <3>1, <3>2
  <2>3. Len(list'[k]) <= Len(pushed'[k])
    BY <1>3, <2>1
  <2>4. \A j \in Keys \ {k} : list'[j] = list[j] /\ pushed'[j] = pushed[j]
    BY <1>1, <1>2
  <2>5. ASSUME NEW j \in Keys, j # k
        PROVE  /\ Len(list'[j]) <= Len(pushed'[j])
               /\ \A i \in 1..Len(list'[j]) : list'[j][i] = pushed'[j][i]
    BY <2>4, <2>5 DEF PushedInv
  <2> QED BY <2>2, <2>3, <2>5
<1>9. \A s \in Savers : pc'[s] \in Past \ {"failed"} => s \in ToSet(pushed'[key'[s]])
  <2> SUFFICES ASSUME NEW s \in Savers, pc'[s] \in Past \ {"failed"}
               PROVE  s \in ToSet(pushed'[key[s]])
    BY <1>1
  <2>1. CASE s = c
    BY <1>3, <2>1 DEF k
  <2>2. CASE s # c
    <3>1. pc[s] \in Past \ {"failed"} /\ s \in Calls
      BY <1>1, <2>2 DEF Calls
    <3>2. s \in ToSet(pushed[key[s]]) /\ key[s] \in Keys
      BY <1>0, <3>1 DEF PushedInv, Control, Past
    <3> QED BY <1>2, <1>3, <3>2
  <2> QED BY <2>1, <2>2
<1>10. \A d \in Calls : pc'[d] = "trim" => Trimmed(key'[d])
  BY <1>1 DEF PushedInv
<1>11. \A j \in Keys : \A m \in ToSet(pushed'[j]) \ lost' :
         \/ m \in ToSet(list'[j])
         \/ Trimmed(j) /\ Cardinality(Before(pushed'[j], m)) >= MaxLen
  <2> SUFFICES ASSUME NEW m \in ToSet(pushed'[k]) \ lost, m # c, m \notin ToSet(list[k])
               PROVE  Trimmed(k) /\ Cardinality(Before(pushed'[k], m)) >= MaxLen
    BY <1>1, <1>2 DEF PushedInv
  <2>1. Trimmed(k) /\ Cardinality(Before(pushed[k], m)) >= MaxLen
    BY <1>1, <1>3 DEF PushedInv
  <2>2. Cardinality(Before(pushed[k], m)) <= Cardinality(Before(pushed'[k], m))
    BY <1>1, <1>2, BeforeGrows
  <2>3. /\ Cardinality(Before(pushed[k], m)) \in Nat /\ MaxLen \in Nat
        /\ Cardinality(Before(pushed'[k], m)) \in Nat
    BY BeforeFinite, SizeAssumption
  <2> QED BY <2>1, <2>2, <2>3
<1> QED BY <1>6, <1>7, <1>8, <1>9, <1>10, <1>11 DEF PushedInv

\* LTRIM, seen by the pushes: what it takes has MaxLen newer messages.
LEMMA PushedByTrim ==
  ASSUME Typed, PushedInv, NEW c \in Calls, Trim(c)
  PROVE  PushedInv'
<1> DEFINE k == key[c]
           n == IF MaxLen <= Len(list[k]) THEN MaxLen ELSE Len(list[k])
<1>0. TypeOK /\ Control
  BY DEF Typed
<1>1. /\ k \in Keys /\ pc[c] = "trim" /\ pc'[c] \in {"done", "failed"}
      /\ \A d \in Calls \ {c} : pc'[d] = pc[d]
      /\ UNCHANGED <<key, pushed, lost>>
      /\ \A j \in Keys \ {k} : list'[j] = list[j]
  BY TrimMoves DEF Trim
<1>2. /\ n \in 0..Len(list[k]) /\ list[k] \in Seq(Savers)
      /\ list' = [list EXCEPT ![k] = SubSeq(@, 1, n)]
      /\ Len(list'[k]) = n /\ list'[k] \in Seq(Savers)
      /\ n < MaxLen => list'[k] = list[k]
  BY <1>0, <1>1, TrimFacts
<1>3. Trimmed(k) /\ MaxLen \in Nat /\ n <= MaxLen
  BY <1>1, <1>2, SizeAssumption DEF PushedInv
<1> HIDE DEF n, k
<1>4. list'[k] = SubSeq(list[k], 1, n)
  BY <1>0, <1>1, <1>2 DEF TypeOK
<1>5. /\ \A i \in 1..n : list'[k][i] = list[k][i] /\ i \in 1..Len(list[k])
      /\ Len(list[k]) \in Nat
  BY <1>2, <1>4
<1>6. Len(list[k]) <= Len(pushed[k]) /\ \A i \in 1..Len(list[k]) : list[k][i] = pushed[k][i]
  BY <1>1 DEF PushedInv
<1>7. pushed[k] \in Seq(Savers) /\ Len(pushed[k]) \in Nat
      /\ DOMAIN pushed[k] = 1..Len(pushed[k])
  BY <1>0, <1>1 DEF TypeOK
<1>8. \A j \in Keys : /\ Len(list'[j]) <= Len(pushed'[j])
                      /\ \A i \in 1..Len(list'[j]) : list'[j][i] = pushed'[j][i]
  <2>1. Len(list'[k]) <= Len(pushed[k])
    BY <1>2, <1>5, <1>6, <1>7
  <2>2. \A i \in 1..Len(list'[k]) : list'[k][i] = pushed[k][i]
    BY <1>2, <1>5, <1>6
  <2> QED BY <1>1, <2>1, <2>2 DEF PushedInv
<1>9. ASSUME NEW m \in ToSet(pushed[k]) \ lost, m \notin ToSet(list'[k])
      PROVE  Trimmed(k) /\ Cardinality(Before(pushed[k], m)) >= MaxLen
  <2>1. CASE m \in ToSet(list[k])
    <3>1. PICK p \in 1..Len(list[k]) : list[k][p] = m
      BY <1>2, <2>1 DEF ToSet
    <3>2. n = MaxLen
      BY <1>2, <1>3, <1>9, <2>1
    <3>3. p > n
      <4>1. p \in 1..n => list'[k][p] = m /\ p \in DOMAIN list'[k]
        BY <1>2, <1>5, <3>1
      <4>2. p \notin 1..n
        BY <1>9, <4>1 DEF ToSet
      <4> QED BY <1>2, <1>5, <4>2
    <3>4. p \in DOMAIN pushed[k] /\ pushed[k][p] = m
      BY <1>5, <1>6, <1>7, <3>1
    <3>5. \A i, j \in DOMAIN pushed[k] : pushed[k][i] = pushed[k][j] => i = j
      BY <1>1 DEF PushedInv
    <3>6. Cardinality(Before(pushed[k], pushed[k][p])) >= MaxLen
      BY <1>3, <1>7, <3>2, <3>3, <3>4, <3>5, BeforeCount
    <3> QED BY <1>3, <3>4, <3>6
  <2>2. CASE m \notin ToSet(list[k])
    BY <1>1, <2>2 DEF PushedInv
  <2> QED BY <2>1, <2>2
<1>10. \A j \in Keys : \A m \in ToSet(pushed'[j]) \ lost' :
         \/ m \in ToSet(list'[j])
         \/ Trimmed(j) /\ Cardinality(Before(pushed'[j], m)) >= MaxLen
  BY <1>1, <1>9 DEF PushedInv
<1>11. \A j \in Keys : ToSet(pushed[j]) \subseteq Calls
  BY <1>0 DEF TypeOK, Calls, ToSet
<1>12. \A j \in Keys : \A s \in ToSet(pushed'[j]) : key'[s] = j /\ pc'[s] \in Past
  BY <1>1, <1>11 DEF PushedInv, Past
<1>13. \A s \in Savers : pc'[s] \in Past \ {"failed"} => s \in ToSet(pushed'[key'[s]])
  BY <1>1 DEF PushedInv, Past, Calls
<1>14. \A d \in Calls : pc'[d] = "trim" => Trimmed(key'[d])
  BY <1>1 DEF PushedInv
<1> QED BY <1>1, <1>8, <1>10, <1>12, <1>13, <1>14 DEF PushedInv

LEMMA PushedStep ==
  ASSUME Typed, PushedInv, [Next]_vars
  PROVE  PushedInv'
<1>0. TypeOK /\ Control
  BY DEF Typed
<1>1. \A j \in Keys : ToSet(pushed[j]) \subseteq Calls
  BY <1>0 DEF TypeOK, Calls, ToSet
<1>2. ASSUME NEW c \in Calls, Expire(c) PROVE PushedInv'
  <2>1. /\ pc[c] = "expire" /\ UNCHANGED <<list, key, pushed, lost>>
        /\ Then(c, IF Trimmed(key[c]) THEN "trim" ELSE "done")
    BY <1>2 DEF Expire, histVars
  <2>2. /\ pc'[c] \in {"trim", "done", "failed"} /\ (pc'[c] = "trim" => Trimmed(key[c]))
        /\ \A d \in Calls \ {c} : pc'[d] = pc[d]
    BY <1>0, <2>1, ThenMoves
  <2>3. \A d \in Calls : /\ pc[d] \in Past => pc'[d] \in Past
                         /\ d \in Savers /\ pc'[d] \in Past \ {"failed"} =>
                              pc[d] \in Past \ {"failed"}
                         /\ pc'[d] = "trim" => Trimmed(key[d])
    BY <2>1, <2>2 DEF Past, PushedInv
  <2> QED BY <1>1, <2>1, <2>3 DEF PushedInv, Calls
<1>3. CASE Kept
  <2>1. \A d \in Calls : pc[d] \in Past => key'[d] = key[d] /\ pc'[d] \in Past
    BY <1>3 DEF Kept, Past
  <2>2. \A k \in Keys : \A s \in ToSet(pushed'[k]) : key'[s] = k /\ pc'[s] \in Past
    BY <1>1, <1>3, <2>1 DEF Kept, PushedInv
  <2>3. \A s \in Savers : pc'[s] \in Past \ {"failed"} => s \in ToSet(pushed'[key'[s]])
    <3> SUFFICES ASSUME NEW s \in Savers, pc'[s] \in Past \ {"failed"}
                 PROVE  s \in ToSet(pushed'[key'[s]])
      OBVIOUS
    <3>1. s \in Calls /\ pc'[s] = pc[s] /\ key'[s] = key[s] /\ pushed' = pushed
      BY <1>3 DEF Kept, Past, Calls
    <3> QED BY <3>1 DEF PushedInv
  <2>4. \A c \in Calls : pc'[c] = "trim" => Trimmed(key'[c])
    BY <1>3 DEF Kept, Past, PushedInv
  <2>5. CASE UNCHANGED <<list, lost>>
    BY <1>3, <2>2, <2>3, <2>4, <2>5 DEF Kept, PushedInv
  <2>6. ASSUME NEW k \in Keys, Gone(k) PROVE PushedInv'
    <3>1. /\ list'[k] = <<>> /\ \A j \in Keys \ {k} : list'[j] = list[j]
          /\ lost' = lost \cup ToSet(list[k]) /\ pushed' = pushed
      BY <1>3, <2>6, GoneLists DEF Kept, Gone
    <3>2. \A j \in Keys : Len(pushed[j]) \in Nat
      BY <1>0 DEF TypeOK
    <3>3. \A j \in Keys : /\ Len(list'[j]) <= Len(pushed'[j])
                          /\ \A i \in 1..Len(list'[j]) : list'[j][i] = pushed'[j][i]
      BY <3>1, <3>2 DEF PushedInv
    <3>4. \A j \in Keys : \A m \in ToSet(pushed'[j]) \ lost' :
            \/ m \in ToSet(list'[j])
            \/ Trimmed(j) /\ Cardinality(Before(pushed'[j], m)) >= MaxLen
      BY <3>1 DEF PushedInv
    <3> QED BY <2>2, <2>3, <2>4, <3>1, <3>3, <3>4 DEF PushedInv
  <2> QED BY <1>3, <2>5, <2>6 DEF Kept
<1> QED BY <1>2, <1>3, KeptSteps, PushedByPush, PushedByTrim

\* A call works on the key of its users, so that what a read must see was pushed
\* to its key before it began; and a result that is there stays.
MustInv ==
  /\ \A c \in Calls : /\ IF pc[c] = "idle" THEN began[c].saved = {}
                                           ELSE KeyOf(key[c], began[c].of)
                      /\ \A m \in began[c].saved : pc[m] = "done" /\ key[m] = key[c]
  /\ \A r \in Readers : result[r] # NULL => pc[r] = "done"

LEMMA MustStep ==
  ASSUME Typed, MustInv, [Next]_vars
  PROVE  MustInv'
<1>0. TypeOK /\ Control
  BY DEF Typed
<1>1. \A c \in Calls : /\ pc[c] # "idle" => key'[c] = key[c] /\ pc'[c] # "idle"
                       /\ pc[c] = "done" => pc'[c] = "done"
  <2>1. ASSUME NEW c \in Calls, Push(c) \/ Trim(c) \/ Expire(c)
        PROVE  /\ key' = key /\ pc'[c] # "idle" /\ pc[c] # "done"
               /\ \A d \in Calls \ {c} : pc'[d] = pc[d]
    BY <2>1, PushFacts, TrimMoves, ExpireFacts DEF Push, Trim, Expire
  <2> QED BY <2>1, KeptSteps DEF Kept
<1>2. ASSUME NEW r \in Readers PROVE result'[r] # NULL => pc'[r] = "done"
  <2>1. ReadOf(r) /\ r \in Calls
    BY KeptSteps DEF Calls
  <2> QED BY <1>1, <2>1 DEF ReadOf, MustInv
<1>3. ASSUME NEW c \in Calls
      PROVE  /\ IF pc'[c] = "idle" THEN began'[c].saved = {}
                                  ELSE KeyOf(key'[c], began'[c].of)
             /\ \A m \in began'[c].saved : pc'[m] = "done" /\ key'[m] = key'[c]
  <2>1. began[c].saved \subseteq Calls
    BY <1>0 DEF TypeOK, Calls
  <2>2. CASE began'[c] = began[c] /\ pc[c] # "idle"
    BY <1>1, <2>1, <2>2 DEF MustInv
  <2>3. CASE began'[c] = began[c] /\ pc[c] = "idle" /\ pc'[c] = pc[c]
    BY <2>3 DEF MustInv
  <2>4. CASE /\ pc[c] = "idle" /\ pc'[c] = "wait" /\ KeyOf(key'[c], began'[c].of)
             /\ began'[c].saved \subseteq
                  {s \in Savers : pc[s] = "done" /\ began[s].of = began'[c].of}
    <3>1. ASSUME NEW m \in began'[c].saved PROVE pc'[m] = "done" /\ key'[m] = key'[c]
      <4>1. m \in Calls /\ pc[m] = "done" /\ began[m].of = began'[c].of
        BY <2>4, <3>1 DEF Calls
      <4>2. KeyOf(key[m], began'[c].of)
        BY <4>1 DEF MustInv
      <4>3. key[m] = key'[c]
        BY <2>4, <4>2, KeyOfUsers
      <4> QED BY <1>1, <4>1, <4>3
    <3> QED BY <2>4, <3>1
  <2> QED BY <2>2, <2>3, <2>4, KeptSteps DEF MustOf
<1> QED BY <1>2, <1>3 DEF MustInv

\* The part of a list that is read leaves out only what has Limit newer messages.
LEMMA ReturnedHolds ==
  ASSUME Typed, PushedInv, NEW k \in Keys, NEW m \in ToSet(pushed[k]) \ lost
  PROVE  \/ m \in ToSet(Returned(k))
         \/ Trimmed(k) /\ Cardinality(Before(pushed[k], m)) >= Limit
<1>0. TypeOK
  BY DEF Typed
<1>1. MaxLen \in Nat /\ Limit \in Nat /\ Limit <= MaxLen
  BY SizeAssumption
<1>2. /\ list[k] \in Seq(Savers) /\ Len(list[k]) \in Nat /\ pushed[k] \in Seq(Savers)
      /\ DOMAIN pushed[k] = 1..Len(pushed[k]) /\ DOMAIN list[k] = 1..Len(list[k])
      /\ Len(pushed[k]) \in Nat
  BY <1>0 DEF TypeOK
<1>3. CASE m \notin ToSet(list[k])
  <2>1. Trimmed(k) /\ Cardinality(Before(pushed[k], m)) >= MaxLen
    BY <1>3 DEF PushedInv
  <2> QED BY <1>1, <2>1, BeforeFinite
<1>4. CASE m \in ToSet(list[k]) /\ ~Trimmed(k)
  BY <1>4 DEF Returned
<1>5. CASE m \in ToSet(list[k]) /\ Trimmed(k)
  <2> DEFINE n == Min({Limit, Len(list[k])})
  <2>1. n = IF Limit <= Len(list[k]) THEN Limit ELSE Len(list[k])
    BY <1>1, <1>2, MinOfTwo
  <2> HIDE DEF n
  <2>2. n \in 0..Len(list[k])
    BY <1>1, <1>2, <2>1
  <2>3. PICK p \in 1..Len(list[k]) : list[k][p] = m
    BY <1>2, <1>5 DEF ToSet
  <2>4. CASE p <= n
    <3>1. /\ SubSeq(list[k], 1, n) \in Seq(Savers) /\ p \in DOMAIN SubSeq(list[k], 1, n)
          /\ SubSeq(list[k], 1, n)[p] = m
      BY <1>2, <2>2, <2>3, <2>4
    <3>2. m \in ToSet(SubSeq(list[k], 1, n))
      BY <3>1 DEF ToSet
    <3>3. m \in ToSet(Reverse(SubSeq(list[k], 1, n)))
      BY <3>1, <3>2, ReverseSet
    <3> QED BY <1>5, <3>3 DEF Returned, n
  <2>5. CASE p > n
    <3>1. n = Limit
      BY <1>1, <1>2, <2>1, <2>3, <2>5
    <3>2. p \in DOMAIN pushed[k] /\ pushed[k][p] = m
      BY <1>2, <2>3 DEF PushedInv
    <3>3. \A i, j \in DOMAIN pushed[k] : pushed[k][i] = pushed[k][j] => i = j
      BY DEF PushedInv
    <3>4. Cardinality(Before(pushed[k], pushed[k][p])) >= Limit
      BY <1>1, <1>2, <2>5, <3>1, <3>2, <3>3, BeforeCount
    <3> QED BY <1>5, <3>2, <3>4
  <2>6. p <= n \/ p > n
    BY <2>2, <2>3
  <2> QED BY <2>4, <2>5, <2>6
<1> QED BY <1>3, <1>4, <1>5

\* The property, with the newer messages as a set of a list of pushes.
ReadInv == \A r \in Readers : result[r] # NULL =>
  \A m \in began[r].saved \ lost :
    \/ m \in ToSet(result[r])
    \/ Trimmed(key[r]) /\ Cardinality(Before(pushed[key[r]], m)) >= Limit

LEMMA ReadStep ==
  ASSUME Typed, PushedInv, PushedInv', MustInv, MustInv', ReadInv, [Next]_vars
  PROVE  ReadInv'
<1>0. TypeOK /\ Control
  BY DEF Typed
<1> SUFFICES ASSUME NEW r \in Readers, result'[r] # NULL, NEW m \in began'[r].saved \ lost'
             PROVE  \/ m \in ToSet(result'[r])
                    \/ /\ Trimmed(key'[r])
                       /\ Cardinality(Before(pushed'[key'[r]], m)) >= Limit
  BY DEF ReadInv
<1>1. r \in Calls /\ m \in Savers /\ m \in Calls /\ Limit \in Nat /\ MaxLen \in Nat /\ Limit <= MaxLen
  <2>1. ReadOf(r) /\ MustOf(r) /\ r \in Calls
    BY KeptSteps DEF Calls
  <2>2. began'[r].saved \subseteq Savers
    BY <1>0, <2>1 DEF MustOf, TypeOK
  <2> QED BY <2>2, SizeAssumption DEF Calls
<1>2. pc'[r] = "done"
  BY DEF MustInv
<1>3. began'[r] = began[r]
  BY <1>1, <1>2, KeptSteps DEF MustOf
<1>4. pc[m] = "done" /\ key[m] = key[r] /\ m \in ToSet(pushed[key[r]]) /\ key[r] \in Keys
  <2>1. pc[m] = "done" /\ key[m] = key[r]
    BY <1>1, <1>3 DEF MustInv
  <2> QED BY <1>0, <1>1, <2>1 DEF PushedInv, Past, Control
<1>5. lost \subseteq lost' /\ pc[r] # "idle"
  <2>1. lost \subseteq lost'
    BY KeptSteps DEF Kept, Gone, Push, Trim, Expire, histVars
  <2> QED BY <1>1, <1>2, <2>1, KeptSteps DEF MustOf
<1>6. key'[r] = key[r]
  <2>1. ASSUME NEW c \in Calls, Push(c) \/ Trim(c) \/ Expire(c) PROVE key' = key
    BY <2>1 DEF Push, Trim, Expire
  <2> QED BY <1>1, <1>5, <2>1, KeptSteps DEF Kept
<1>7. Cardinality(Before(pushed[key[r]], m)) <= Cardinality(Before(pushed'[key[r]], m))
  <2>1. CASE pushed'[key[r]] = pushed[key[r]]
    BY <2>1, BeforeFinite
  <2>2. ASSUME NEW c \in Calls, Push(c), key[c] = key[r]
        PROVE  Cardinality(Before(pushed[key[r]], m)) <= Cardinality(Before(pushed'[key[r]], m))
    <3>1. c \in Savers /\ pushed[key[r]] \in Seq(Savers)
      BY <1>0, <1>4, <2>2, PushFacts DEF TypeOK
    <3>2. pushed'[key[r]] = <<c>> \o pushed[key[r]]
      BY <1>0, <1>4, <2>2 DEF Push, TypeOK
    <3> QED BY <3>1, <3>2, BeforeGrows
  <2>3. ASSUME NEW c \in Calls, Push(c), key[c] # key[r]
        PROVE  pushed'[key[r]] = pushed[key[r]]
    BY <1>0, <1>4, <2>3 DEF Push, TypeOK
  <2>4. ASSUME NEW c \in Calls, Trim(c) \/ Expire(c) PROVE pushed' = pushed
    BY <2>4 DEF Trim, Expire, histVars
  <2> QED BY <2>1, <2>2, <2>3, <2>4, KeptSteps DEF Kept
<1>8. /\ Cardinality(Before(pushed[key[r]], m)) \in Nat
      /\ Cardinality(Before(pushed'[key[r]], m)) \in Nat
  BY BeforeFinite
<1>9. CASE result'[r] = result[r]
  <2>1. \/ m \in ToSet(result[r])
        \/ Trimmed(key[r]) /\ Cardinality(Before(pushed[key[r]], m)) >= Limit
    BY <1>3, <1>5, <1>9 DEF ReadInv
  <2> QED BY <1>1, <1>6, <1>7, <1>8, <1>9, <2>1
<1>10. CASE result'[r] = <<>> /\ list'[key[r]] = <<>>
  <2>1. m \in ToSet(pushed'[key[r]])
    <3>1. pc'[m] = "done" /\ key'[m] = key'[r]
      BY <1>1 DEF MustInv
    <3> QED BY <1>1, <1>6, <3>1 DEF PushedInv, Past
  <2>2. m \notin ToSet(list'[key[r]])
    BY <1>10 DEF ToSet
  <2>3. Trimmed(key[r]) /\ Cardinality(Before(pushed'[key[r]], m)) >= MaxLen
    BY <1>4, <2>1, <2>2 DEF PushedInv
  <2> QED BY <1>1, <1>6, <1>8, <2>3
<1>11. CASE result'[r] = Returned(key[r]) /\ list' = list /\ lost' = lost
  <2>1. \/ m \in ToSet(Returned(key[r]))
        \/ Trimmed(key[r]) /\ Cardinality(Before(pushed[key[r]], m)) >= Limit
    BY <1>4, <1>11, ReturnedHolds
  <2> QED BY <1>1, <1>6, <1>7, <1>8, <1>11, <2>1
<1> QED BY <1>9, <1>10, <1>11, KeptSteps DEF ReadOf

\* A read misses a save that had ended before it began only if the list was gone
\* meanwhile, or if it has as many newer messages as a read returns.
THEOREM ReadsReturnSaves == Spec => []ReadsSeeSaves
<1>1. Init => PushedInv /\ MustInv /\ ReadInv
  <2>1. Init => PushedInv
    BY DEF Init, PushedInv, Past, ToSet, Calls
  <2>2. Init => MustInv /\ ReadInv
    BY DEF Init, MustInv, ReadInv
  <2> QED BY <2>1, <2>2
<1>2. ReadInv => ReadsSeeSaves
  <2>1. \A k, m : Newer(k, m) = Cardinality(Before(pushed[k], m))
    BY DEF Newer, Before
  <2> QED BY <2>1 DEF ReadInv, ReadsSeeSaves
<1>3. Typed /\ PushedInv /\ [Next]_vars => PushedInv'
  BY PushedStep
<1>4. Typed /\ MustInv /\ [Next]_vars => MustInv'
  BY MustStep
<1>5. Typed /\ PushedInv /\ PushedInv' /\ MustInv /\ MustInv' /\ ReadInv /\ [Next]_vars
        => ReadInv'
  BY ReadStep
<1> QED BY <1>1, <1>2, <1>3, <1>4, <1>5, TypedAlways, PTL DEF Spec

-----------------------------------------------------------------------------
(* A call comes to its end.                                                *)

\* How many steps a call has at most before it, by its next command.
StepsLeft == [idle |-> 7, wait |-> 6, type |-> 5, del |-> 4, push |-> 3, expire |-> 2,
              trim |-> 1, range |-> 1, done |-> 0, failed |-> 0]

\* No step of any call or of the clock takes a call back.
CallsAdvance == [][\A c \in Calls :
  pc'[c] = pc[c] \/ StepsLeft[pc'[c]] < StepsLeft[pc[c]]]_vars

\* A full pool is held by calls that still have commands to send.
FullPoolIsBusy == \A c \in Calls : pc[c] = "wait" /\ Cardinality(borrowed) >= MaxTotal =>
  \E d \in Calls : d # c /\ pc[d] \in Commands

\* A call never sends a command twice nor starts over, whatever fails and whatever
\* others do to its key: six steps after it was made it is through.
THEOREM CallsOnlyAdvance == Spec => CallsAdvance
<1>1. ASSUME Typed, [Next]_vars, NEW c \in Calls
      PROVE  pc'[c] = pc[c] \/ StepsLeft[pc'[c]] < StepsLeft[pc[c]]
  <2>0. TypeOK /\ Control
    BY <1>1 DEF Typed
  <2>1. ASSUME NEW d \in Calls, NEW from, NEW to, pc[d] = from, pc'[d] = to,
               StepsLeft[to] < StepsLeft[from], \A e \in Calls \ {d} : pc'[e] = pc[e]
        PROVE  pc'[c] = pc[c] \/ StepsLeft[pc'[c]] < StepsLeft[pc[c]]
    BY <2>1
  <2>2. ASSUME NEW d \in Calls, NEW label, pc[d] \in Commands, Then(d, label),
               StepsLeft[label] < StepsLeft[pc[d]]
        PROVE  pc'[c] = pc[c] \/ StepsLeft[pc'[c]] < StepsLeft[pc[c]]
    <3>1. pc'[d] \in {label, "failed"} /\ \A e \in Calls \ {d} : pc'[e] = pc[e]
      BY <2>0, <2>2, ThenMoves
    <3>2. StepsLeft["failed"] < StepsLeft[pc[d]]
      BY <2>2 DEF Commands, StepsLeft
    <3> QED BY <2>1, <2>2, <3>1, <3>2
  <2>3. ASSUME NEW d \in Calls, StartAny(d)
        PROVE  pc'[c] = pc[c] \/ StepsLeft[pc'[c]] < StepsLeft[pc[c]]
    <3>1. pc[d] = "idle" /\ pc' = [pc EXCEPT ![d] = "wait"]
      BY <2>3 DEF StartAny, Start, Goto
    <3> QED BY <2>0, <3>1 DEF TypeOK, StepsLeft
  <2>4. ASSUME NEW d \in Calls, GetJedis(d)
        PROVE  pc'[c] = pc[c] \/ StepsLeft[pc'[c]] < StepsLeft[pc[c]]
    <3>1. pc[d] = "wait" /\ (pc' = [pc EXCEPT ![d] = "type"] \/ pc' = [pc EXCEPT ![d] = "failed"])
      BY <2>4 DEF GetJedis, End
    <3> QED BY <2>0, <3>1 DEF TypeOK, StepsLeft
  <2>5. ASSUME NEW d \in Calls, Type(d)
        PROVE  pc'[c] = pc[c] \/ StepsLeft[pc'[c]] < StepsLeft[pc[c]]
    <3>1. pc[d] = "type" /\ Then(d, AfterType(d))
      BY <2>5 DEF Type
    <3>2. AfterType(d) \in {"del", "push", "range", "done"}
      BY <2>0, <3>1, AfterTypeLabel
    <3>3. StepsLeft[AfterType(d)] < StepsLeft["type"]
      BY <3>2 DEF StepsLeft
    <3> QED BY <2>2, <3>1, <3>3 DEF Commands
  <2>6. ASSUME NEW d \in Calls, Del(d)
        PROVE  pc'[c] = pc[c] \/ StepsLeft[pc'[c]] < StepsLeft[pc[c]]
    <3>1. PICK label \in {"push", "done"} : pc[d] = "del" /\ Then(d, label)
      BY <2>6 DEF Del
    <3>2. StepsLeft[label] < StepsLeft["del"]
      BY DEF StepsLeft
    <3> QED BY <2>2, <3>1, <3>2 DEF Commands
  <2>7. ASSUME NEW d \in Calls, Push(d) \/ Expire(d) \/ Trim(d)
        PROVE  pc'[c] = pc[c] \/ StepsLeft[pc'[c]] < StepsLeft[pc[c]]
    <3>1. \/ pc[d] = "push" /\ Then(d, "expire")
          \/ pc[d] = "expire" /\ (Then(d, "trim") \/ Then(d, "done"))
          \/ pc[d] = "trim" /\ Then(d, "done")
      BY <2>7 DEF Push, Expire, Trim
    <3>2. /\ StepsLeft["expire"] < StepsLeft["push"]
          /\ StepsLeft["trim"] < StepsLeft["expire"] /\ StepsLeft["done"] < StepsLeft["expire"]
          /\ StepsLeft["done"] < StepsLeft["trim"]
      BY DEF StepsLeft
    <3> QED BY <2>2, <3>1, <3>2 DEF Commands
  <2>8. ASSUME NEW d \in Calls, Range_(d) \/ Fail(d)
        PROVE  pc'[c] = pc[c] \/ StepsLeft[pc'[c]] < StepsLeft[pc[c]]
    <3>1. PICK label \in {"done", "failed"} : pc[d] \in Commands /\ End(d, label)
      BY <2>8 DEF Range_, Fail, Commands
    <3>2. pc'[d] = label /\ \A e \in Calls \ {d} : pc'[e] = pc[e]
      BY <2>0, <3>1, EndMoves
    <3>3. StepsLeft[label] < StepsLeft[pc[d]]
      BY <3>1 DEF Commands, StepsLeft
    <3> QED BY <2>1, <3>2, <3>3
  <2>9. (\E k \in Keys : TimeOut(k)) \/ UNCHANGED vars => pc' = pc
    BY DEF TimeOut, callVars, vars
  <2> QED BY <1>1, <2>3, <2>4, <2>5, <2>6, <2>7, <2>8, <2>9 DEF Next, CallStep
<1>2. Typed /\ [Next]_vars => [\A c \in Calls :
        pc'[c] = pc[c] \/ StepsLeft[pc'[c]] < StepsLeft[pc[c]]]_vars
  BY <1>1
<1> QED BY <1>2, TypedAlways, PTL DEF Spec, CallsAdvance

\* Whoever waits for a connection waits for calls that use theirs: none is lost to
\* the pool, and none is kept by a call that waits itself.
THEOREM PoolIsBusy == Spec => []FullPoolIsBusy
<1>1. Typed => FullPoolIsBusy
  <2> SUFFICES ASSUME Typed, NEW c \in Calls, pc[c] = "wait", Cardinality(borrowed) >= MaxTotal
               PROVE  \E d \in Calls : d # c /\ pc[d] \in Commands
    BY DEF FullPoolIsBusy
  <2>1. borrowed # {}
    <3>1. Cardinality({}) = 0
      BY FS_EmptySet
    <3> QED BY <3>1, SizeAssumption
  <2>2. borrowed = {d \in Calls : pc[d] \in Commands}
    BY DEF Typed, TypeOK
  <2>3. PICK d \in borrowed : TRUE
    BY <2>1
  <2> QED BY <2>2, <2>3 DEF Commands
<1> QED BY <1>1, TypedAlways, PTL
==============================================================================
