---------------------------- MODULE SseChatProofs ----------------------------
(***************************************************************************)
(* Proofs about SseChat, for any clients, posts and number of threads.     *)
(***************************************************************************)
EXTENDS SseChat, SequenceTheorems, TLAPS

-----------------------------------------------------------------------------
(* Lists of clients.                                                       *)

LEMMA AppendFacts ==
  ASSUME NEW S, NEW s \in Seq(S), IsInjective(s), NEW x \in S, x \notin ToSet(s)
  PROVE  /\ Append(s, x) \in Seq(S) /\ IsInjective(Append(s, x))
         /\ ToSet(Append(s, x)) = ToSet(s) \cup {x}
<1> DEFINE t == Append(s, x)
<1>1. /\ t \in Seq(S) /\ Len(t) = Len(s) + 1 /\ Len(s) \in Nat /\ t[Len(s) + 1] = x
      /\ \A i \in 1..Len(s) : t[i] = s[i]
  OBVIOUS
<1>2. DOMAIN s = 1..Len(s) /\ DOMAIN t = 1..(Len(s) + 1)
  BY <1>1
<1> HIDE DEF t
<1>3. DOMAIN t = DOMAIN s \cup {Len(s) + 1} /\ Len(s) + 1 \notin DOMAIN s
  BY <1>1, <1>2
<1>4. \A i \in DOMAIN s : t[i] = s[i]
  BY <1>1, <1>2
<1>5. ToSet(t) = ToSet(s) \cup {x}
  BY <1>1, <1>3, <1>4 DEF ToSet
<1>6. \A i \in DOMAIN s : s[i] # x
  BY DEF ToSet
<1>7. IsInjective(t)
  BY <1>1, <1>3, <1>4, <1>6 DEF IsInjective
<1> QED BY <1>1, <1>5, <1>7 DEF t

LEMMA RemoveFacts ==
  ASSUME NEW S, NEW s \in Seq(S), IsInjective(s), NEW x
  PROVE  /\ RemoveFirst(s, x) \in Seq(S) /\ IsInjective(RemoveFirst(s, x))
         /\ ToSet(RemoveFirst(s, x)) \subseteq ToSet(s) \ {x}
<1>1. CASE ~ \E i \in 1..Len(s) : s[i] = x
  <2>1. x \notin ToSet(s)
    BY <1>1 DEF ToSet
  <2> QED BY <1>1, <2>1 DEF RemoveFirst
<1>2. CASE \E i \in 1..Len(s) : s[i] = x
  <2>1. PICK k \in 1..Len(s) : s[k] = x
    BY <1>2
  <2>2. DOMAIN s = 1..Len(s) /\ Len(s) \in Nat
    OBVIOUS
  <2>3. {i \in 1..Len(s) : s[i] = x} = {k}
    BY <2>1, <2>2 DEF IsInjective
  <2>4. Min({k}) = k
    BY DEF Min
  <2> DEFINE t == RemoveAt(s, k)
  <2>5. RemoveFirst(s, x) = t
    BY <1>2, <2>3, <2>4 DEF RemoveFirst, SelectInSeq
  <2>6. /\ t \in Seq(S) /\ Len(t) = Len(s) - 1
        /\ \A i \in 1..Len(t) : t[i] = IF i < k THEN s[i] ELSE s[i + 1]
    <3> DEFINE u == SubSeq(s, 1, k - 1)
               v == SubSeq(s, k + 1, Len(s))
    <3>1. /\ u \in Seq(S) /\ Len(u) = k - 1 /\ \A i \in 1..(k - 1) : u[i] = s[i]
      BY <2>1, <2>2
    <3>2. /\ v \in Seq(S) /\ Len(v) = Len(s) - k
          /\ \A i \in 1..(Len(s) - k) : v[i] = s[k + i]
      <4>1. /\ k \in Nat /\ k + 1 \in Int /\ Len(s) \in Int /\ k <= Len(s)
            /\ \A i \in (k + 1)..Len(s) : s[i] \in S
        BY <2>1, <2>2
      <4>2. /\ v \in Seq(S)
            /\ Len(v) = IF k + 1 <= Len(s) THEN Len(s) - (k + 1) + 1 ELSE 0
            /\ \A i \in 1..(Len(s) - (k + 1) + 1) : v[i] = s[(k + 1) + i - 1]
        BY <4>1, SubSeqProperties
      <4> HIDE DEF v
      <4>3. Len(s) - (k + 1) + 1 = Len(s) - k
        BY <4>1
      <4>4. \A i \in 1..(Len(s) - k) : (k + 1) + i - 1 = k + i
        BY <4>1
      <4>5. Len(v) = Len(s) - k
        BY <4>1, <4>2
      <4> QED BY <4>2, <4>3, <4>4, <4>5
    <3>3. t = u \o v
      BY DEF RemoveAt
    <3> HIDE DEF u, v, t
    <3>4. /\ t \in Seq(S) /\ Len(t) = Len(u) + Len(v)
          /\ \A i \in 1..Len(t) : t[i] = IF i <= Len(u) THEN u[i] ELSE v[i - Len(u)]
      <4>1. /\ u \o v \in Seq(S) /\ Len(u \o v) = Len(u) + Len(v)
            /\ \A i \in 1..(Len(u) + Len(v)) :
                 (u \o v)[i] = IF i <= Len(u) THEN u[i] ELSE v[i - Len(u)]
        BY <3>1, <3>2, ConcatProperties
      <4> QED BY <3>3, <4>1, Zenon
    <3>5. Len(t) = Len(s) - 1
      BY <2>1, <2>2, <3>1, <3>2, <3>4
    <3>6. ASSUME NEW i \in 1..Len(t) PROVE t[i] = IF i < k THEN s[i] ELSE s[i + 1]
      <4>1. CASE i < k
        BY <2>1, <2>2, <3>1, <3>4, <4>1
      <4>2. CASE ~(i < k)
        <5>1. i - Len(u) \in 1..(Len(s) - k) /\ k + (i - Len(u)) = i + 1 /\ ~(i <= Len(u))
          BY <2>1, <2>2, <3>1, <3>5, <4>2
        <5> QED BY <3>2, <3>4, <4>2, <5>1
      <4> QED BY <4>1, <4>2
    <3> QED BY <3>4, <3>5, <3>6
  <2> HIDE DEF t
  <2>7. DOMAIN t = 1..Len(t)
    BY <2>6
  <2>8. \A i \in DOMAIN t : \E j \in DOMAIN s \ {k} : t[i] = s[j]
    <3> TAKE i \in DOMAIN t
    <3> DEFINE j == IF i < k THEN i ELSE i + 1
    <3>1. j \in DOMAIN s /\ j # k /\ t[i] = s[j]
      BY <2>1, <2>2, <2>6, <2>7
    <3> QED BY <3>1
  <2>9. ToSet(t) \subseteq ToSet(s) \ {x}
    BY <2>1, <2>2, <2>8 DEF ToSet, IsInjective
  <2>10. IsInjective(t)
    <3> SUFFICES ASSUME NEW i \in DOMAIN t, NEW j \in DOMAIN t, t[i] = t[j] PROVE i = j
      BY DEF IsInjective
    <3> DEFINE at(n) == IF n < k THEN n ELSE n + 1
    <3>1. at(i) \in DOMAIN s /\ at(j) \in DOMAIN s /\ t[i] = s[at(i)] /\ t[j] = s[at(j)]
      BY <2>1, <2>2, <2>6, <2>7
    <3>2. at(i) = at(j)
      BY <3>1 DEF IsInjective
    <3> QED BY <2>1, <2>6, <2>7, <3>2
  <2> QED BY <2>5, <2>6, <2>9, <2>10
<1> QED BY <1>1, <1>2

LEMMA HeadTail ==
  ASSUME NEW S, NEW s \in Seq(S), s # <<>>
  PROVE  Head(s) \in S /\ Tail(s) \in Seq(S) /\ ToSet(s) = {Head(s)} \cup ToSet(Tail(s))
<1>1. /\ Head(s) \in S /\ Tail(s) \in Seq(S) /\ Len(s) \in Nat \ {0} /\ Head(s) = s[1]
      /\ Len(Tail(s)) = Len(s) - 1
      /\ \A i \in 1..(Len(s) - 1) : Tail(s)[i] = s[i + 1]
  OBVIOUS
<1>2. DOMAIN s = 1..Len(s) /\ DOMAIN Tail(s) = 1..(Len(s) - 1)
  BY <1>1
<1>3. \A i \in DOMAIN s : s[i] = Head(s) \/ \E j \in DOMAIN Tail(s) : s[i] = Tail(s)[j]
  <2> SUFFICES ASSUME NEW i \in DOMAIN s, i # 1
               PROVE  \E j \in DOMAIN Tail(s) : s[i] = Tail(s)[j]
    BY <1>1
  <2>1. i - 1 \in DOMAIN Tail(s) /\ Tail(s)[i - 1] = s[(i - 1) + 1] /\ (i - 1) + 1 = i
    BY <1>1, <1>2
  <2> QED BY <2>1
<1>4. 1 \in DOMAIN s /\ \A j \in DOMAIN Tail(s) : j + 1 \in DOMAIN s /\ Tail(s)[j] = s[j + 1]
  BY <1>1, <1>2
<1>5. ToSet(s) = {Head(s)} \cup ToSet(Tail(s))
  BY <1>1, <1>3, <1>4 DEF ToSet
<1> QED BY <1>1, <1>5

-----------------------------------------------------------------------------
(* Subscriptions and broadcasts.                                           *)

\* A client is not in the list before its request adds it.
Listed == \A c \in ToSet(roomClients) : pc[c] \notin {"waiting", "add"}

\* Who was subscribed when a broadcast began has the message, is broken or is
\* still to be written to.
CastKnows == \A q \in Requests : pc[q] = "cast" =>
  \A c \in before[q] : q \in got[c] \/ c \in broken \/ c \in ToSet(todo[q])

Inv == TypeOK /\ Listed /\ CastKnows /\ Delivered

LEMMA InvInit == Init => Inv
<1> SUFFICES ASSUME Init PROVE Inv
  OBVIOUS
<1>1. TypeOK
  BY DEF Init, TypeOK, Pcs, IsInjective
<1>2. Listed
  BY DEF Init, Listed, ToSet
<1> QED BY <1>1, <1>2 DEF Init, Inv, CastKnows, Delivered

\* A request goes on, and nobody is subscribed, written to or found broken.
LEMMA GotoInv ==
  ASSUME Inv, NEW q \in Requests, NEW label \in Pcs, Goto(q, label),
         UNCHANGED <<roomClients, todo, lock, gone, broken, got, before>>,
         \/ pc[q] \notin {"cast", "listen", "open", "done", "ended"}
            /\ label \in {"add", "announce", "refused"}
         \/ pc[q] = "cast" /\ todo[q] = <<>>
         \/ pc[q] \in {"listen", "open"} /\ label # "cast",
         label \in {"waiting", "add"} => q \notin ToSet(roomClients)
  PROVE  Inv'
<1>1. pc' = [pc EXCEPT ![q] = label] /\ pc'[q] = label /\ \A r \in Requests \ {q} : pc'[r] = pc[r]
  BY DEF Goto, Inv, TypeOK
<1>2. TypeOK'
  BY <1>1 DEF Inv, TypeOK
<1>3. ToSet(roomClients) \subseteq Requests
  BY DEF Inv, TypeOK, Requests, ToSet
<1>4. Listed'
  BY <1>1, <1>3 DEF Inv, Listed
<1>5. ToSet(<<>>) = {}
  BY DEF ToSet
<1>6. ASSUME pc[q] = "cast", todo[q] = <<>>
      PROVE  \A c \in before[q] : q \in got[c] \/ c \in broken
  BY <1>5, <1>6 DEF Inv, CastKnows
<1>7. CastKnows' /\ Delivered'
  <2>1. CASE pc[q] \notin {"cast", "listen", "open", "done", "ended"} /\ label \in {"add", "announce", "refused"}
    BY <1>1, <2>1 DEF Inv, CastKnows, Delivered
  <2>2. CASE pc[q] = "cast" /\ todo[q] = <<>>
    BY <1>1, <1>6, <2>2 DEF Inv, CastKnows, Delivered
  <2>3. CASE pc[q] \in {"listen", "open"} /\ label # "cast"
    BY <1>1, <2>3 DEF Inv, CastKnows, Delivered
  <2> QED BY <2>1, <2>2, <2>3
<1> QED BY <1>2, <1>4, <1>7 DEF Inv

LEMMA AddInv == ASSUME Inv, NEW c \in Clients, Add(c) PROVE Inv'
<1>1. /\ pc[c] = "add" /\ roomClients' = Append(roomClients, c) /\ pc' = [pc EXCEPT ![c] = "announce"]
      /\ UNCHANGED <<todo, lock, gone, broken, got, before>>
  BY DEF Add, Goto
<1>2. c \in Requests /\ c \notin ToSet(roomClients)
  BY <1>1 DEF Inv, Listed, Requests
<1>3. /\ roomClients' \in Seq(Clients) /\ IsInjective(roomClients')
      /\ ToSet(roomClients') = ToSet(roomClients) \cup {c}
  BY <1>1, <1>2, AppendFacts DEF Inv, TypeOK
<1>4. pc' \in [Requests -> Pcs] /\ pc'[c] = "announce" /\ \A r \in Requests \ {c} : pc'[r] = pc[r]
  BY <1>1, <1>2 DEF Inv, TypeOK, Pcs, ThreadPcs
<1>5. TypeOK'
  BY <1>1, <1>3, <1>4 DEF Inv, TypeOK
<1>6. ToSet(roomClients) \subseteq Requests
  BY DEF Inv, TypeOK, Requests, ToSet
<1>7. Listed'
  BY <1>3, <1>4, <1>6 DEF Inv, Listed
<1>8. CastKnows' /\ Delivered'
  BY <1>1, <1>4 DEF Inv, CastKnows, Delivered
<1> QED BY <1>5, <1>7, <1>8 DEF Inv

LEMMA StartInv == ASSUME Inv, NEW q \in Requests, StartCast(q) PROVE Inv'
<1>1. /\ pc[q] = "announce" /\ todo' = [todo EXCEPT ![q] = roomClients]
      /\ before' = [before EXCEPT ![q] = ToSet(roomClients)] /\ pc' = [pc EXCEPT ![q] = "cast"]
      /\ UNCHANGED <<roomClients, lock, gone, broken, got>>
  BY DEF StartCast, Goto
<1>2. roomClients \in Seq(Clients) /\ ToSet(roomClients) \subseteq Clients
  BY DEF Inv, TypeOK, ToSet
<1>3. pc' \in [Requests -> Pcs] /\ pc'[q] = "cast" /\ \A r \in Requests \ {q} : pc'[r] = pc[r]
  BY <1>1 DEF Inv, TypeOK, Pcs, ThreadPcs
<1>4. TypeOK'
  BY <1>1, <1>2, <1>3 DEF Inv, TypeOK
<1>5. Listed'
  BY <1>1, <1>2, <1>3 DEF Inv, Listed, Requests
<1>6. /\ before'[q] = ToSet(roomClients) /\ todo'[q] = roomClients
      /\ \A r \in Requests \ {q} : before'[r] = before[r] /\ todo'[r] = todo[r]
  BY <1>1 DEF Inv, TypeOK
<1>7. CastKnows' /\ Delivered'
  BY <1>1, <1>3, <1>6 DEF Inv, CastKnows, Delivered
<1> QED BY <1>4, <1>5, <1>7 DEF Inv

LEMMA WriteInv == ASSUME Inv, NEW q \in Requests, EndWrite(q) PROVE Inv'
<1> DEFINE c == Head(todo[q])
<1>1. /\ pc[q] = "cast" /\ todo[q] # <<>> /\ lock' = [lock EXCEPT ![c] = NULL]
      /\ todo' = [todo EXCEPT ![q] = Tail(@)]
      /\ UNCHANGED <<roomClients, pc, gone, before>>
      /\ \/ c \in gone \cup broken /\ broken' = broken \cup {c} /\ got' = got
         \/ got' = [got EXCEPT ![c] = @ \cup {q}] /\ broken' = broken
  BY DEF EndWrite
<1>2. todo[q] \in Seq(Clients)
  BY DEF Inv, TypeOK
<1>3. c \in Clients /\ Tail(todo[q]) \in Seq(Clients) /\ ToSet(todo[q]) = {c} \cup ToSet(Tail(todo[q]))
  BY <1>1, <1>2, HeadTail
<1> HIDE DEF c
<1>4. /\ got' \in [Clients -> SUBSET Requests] /\ broken' \subseteq gone /\ broken \subseteq broken'
      /\ q \in got'[c] \/ c \in broken'
      /\ \A d \in Clients : got[d] \subseteq got'[d]
  <2>0. got \in [Clients -> SUBSET Requests] /\ broken \subseteq gone
    BY DEF Inv, TypeOK
  <2>1. CASE c \in gone \cup broken /\ broken' = broken \cup {c} /\ got' = got
    BY <1>1, <1>3, <2>0, <2>1
  <2>2. CASE got' = [got EXCEPT ![c] = @ \cup {q}] /\ broken' = broken
    BY <1>1, <1>3, <2>0, <2>2
  <2> QED BY <1>1, <2>1, <2>2
<1>5. TypeOK'
  BY <1>1, <1>3, <1>4 DEF Inv, TypeOK
<1>6. /\ todo'[q] = Tail(todo[q]) /\ \A r \in Requests \ {q} : todo'[r] = todo[r]
      /\ \A r \in Requests : before[r] \subseteq Clients
  BY <1>1 DEF Inv, TypeOK
<1>7. CastKnows' /\ Delivered'
  BY <1>1, <1>3, <1>4, <1>6 DEF Inv, CastKnows, Delivered
<1>8. Listed'
  BY <1>1 DEF Inv, Listed
<1> QED BY <1>5, <1>7, <1>8 DEF Inv

LEMMA ErrorInv == ASSUME Inv, NEW c \in Clients, OnError(c) PROVE Inv'
<1>1. /\ pc[c] = "open" /\ roomClients' = RemoveFirst(roomClients, c) /\ pc' = [pc EXCEPT ![c] = "ended"]
      /\ UNCHANGED <<todo, lock, gone, broken, got, before>> /\ c \in Requests
  BY DEF OnError, Goto, Requests
<1>2. /\ roomClients' \in Seq(Clients) /\ IsInjective(roomClients')
      /\ ToSet(roomClients') \subseteq ToSet(roomClients)
  BY <1>1, RemoveFacts DEF Inv, TypeOK
<1>3. pc' \in [Requests -> Pcs] /\ pc'[c] = "ended" /\ \A r \in Requests \ {c} : pc'[r] = pc[r]
  BY <1>1 DEF Inv, TypeOK, Pcs, ThreadPcs
<1>4. TypeOK'
  BY <1>1, <1>2, <1>3 DEF Inv, TypeOK
<1>5. ToSet(roomClients) \subseteq Requests
  BY DEF Inv, TypeOK, Requests, ToSet
<1>6. Listed' /\ CastKnows' /\ Delivered'
  BY <1>1, <1>2, <1>3, <1>5 DEF Inv, Listed, CastKnows, Delivered
<1> QED BY <1>4, <1>6 DEF Inv

LEMMA InvStep == ASSUME Inv, [Next]_vars PROVE Inv'
<1>1. ASSUME NEW q \in Requests, Accept(q) PROVE Inv'
  <2>1. pc[q] = "waiting" /\ q \notin ToSet(roomClients)
    BY <1>1 DEF Accept, Inv, Listed
  <2> QED BY <1>1, <2>1, GotoInv DEF Accept, Pcs, ThreadPcs
<1>2. ASSUME NEW q \in Requests, Refuse(q) PROVE Inv'
  BY <1>2, GotoInv DEF Refuse, Pcs, ThreadPcs
<1>3. ASSUME NEW q \in Requests, EndCast(q) PROVE Inv'
  BY <1>3, GotoInv DEF EndCast, Pcs, ThreadPcs
<1>4. ASSUME NEW c \in Clients, Listen(c) PROVE Inv'
  BY <1>4, GotoInv DEF Listen, Pcs, ThreadPcs, Requests
<1>5. ASSUME NEW q \in Requests, BeginWrite(q) PROVE Inv'
  <2>1. lock' \in [Clients -> Requests \cup {NULL}]
    BY <1>5 DEF BeginWrite, Inv, TypeOK
  <2> QED BY <1>5, <2>1 DEF BeginWrite, Inv, TypeOK, Listed, CastKnows, Delivered
<1>6. ASSUME NEW c \in Clients, Leave(c) PROVE Inv'
  <2>1. gone' \subseteq Clients /\ broken \subseteq gone'
    BY <1>6 DEF Leave, Inv, TypeOK
  <2> QED BY <1>6, <2>1 DEF Leave, Inv, TypeOK, Listed, CastKnows, Delivered
<1>7. CASE UNCHANGED vars
  BY <1>7 DEF vars, Inv, TypeOK, Listed, CastKnows, Delivered
<1> QED BY <1>1, <1>2, <1>3, <1>4, <1>5, <1>6, <1>7, AddInv, StartInv, WriteInv, ErrorInv
        DEF Next, Step

LEMMA InvAlways == Spec => []Inv
BY InvInit, InvStep, PTL DEF Spec

\* The list holds no client twice, whatever requests come and go.
THEOREM StreamTypeCorrect == Spec => []TypeOK
<1>1. Inv => TypeOK
  BY DEF Inv
<1> QED BY <1>1, InvAlways, PTL

\* A broken client costs no other subscriber the message.
THEOREM BroadcastsReachSubscribers == Spec => []Delivered
<1>1. Inv => Delivered
  BY DEF Inv
<1> QED BY <1>1, InvAlways, PTL
-----------------------------------------------------------------------------
(* The end of a subscription, and the locks of the writers.                *)

\* A client in the list has a request that is still being handled or a stream
\* that is open, so that its onError is still to come.
Served == \A c \in ToSet(roomClients) : pc[c] \in {"announce", "cast", "listen", "open"}

LEMMA ServedStep == ASSUME Inv, Served, [Next]_vars PROVE Served'
<1>0. /\ pc \in [Requests -> Pcs] /\ roomClients \in Seq(Clients) /\ IsInjective(roomClients)
      /\ ToSet(roomClients) \subseteq Clients /\ Clients \subseteq Requests
  BY DEF Inv, TypeOK, ToSet, Requests
<1>1. ASSUME NEW q \in Requests, NEW label \in Pcs, Goto(q, label), UNCHANGED roomClients,
             q \in ToSet(roomClients) => label \in {"announce", "cast", "listen", "open"}
      PROVE  Served'
  <2>1. pc'[q] = label /\ \A c \in Clients \ {q} : pc'[c] = pc[c]
    BY <1>0, <1>1 DEF Goto
  <2> QED BY <1>0, <1>1, <2>1 DEF Served
<1>2. ASSUME NEW q \in Requests,
             Accept(q) \/ Refuse(q) \/ StartCast(q) \/ EndCast(q) \/ (q \in Clients /\ Listen(q))
      PROVE  Served'
  <2>1. CASE Accept(q)
    <3>1. q \notin ToSet(roomClients)
      BY <2>1 DEF Accept, Inv, Listed
    <3> QED BY <1>1, <2>1, <3>1 DEF Accept, Pcs, ThreadPcs
  <2>2. CASE Refuse(q)
    BY <1>1, <2>2 DEF Refuse, Pcs
  <2>3. CASE StartCast(q)
    BY <1>1, <2>3 DEF StartCast, Pcs, ThreadPcs
  <2>4. CASE EndCast(q)
    BY <1>0, <1>1, <2>4 DEF EndCast, Pcs, ThreadPcs
  <2>5. CASE Listen(q)
    BY <1>1, <2>5 DEF Listen, Pcs
  <2> QED BY <1>2, <2>1, <2>2, <2>3, <2>4, <2>5
<1>3. ASSUME NEW c \in Clients, Add(c) PROVE Served'
  <2>1. roomClients' = Append(roomClients, c) /\ pc' = [pc EXCEPT ![c] = "announce"] /\ pc[c] = "add"
    BY <1>3 DEF Add, Goto
  <2>2. c \notin ToSet(roomClients)
    BY <2>1 DEF Inv, Listed
  <2>3. ToSet(roomClients') = ToSet(roomClients) \cup {c}
    BY <1>0, <2>1, <2>2, AppendFacts
  <2> QED BY <1>0, <2>1, <2>3 DEF Served
<1>4. ASSUME NEW c \in Clients, OnError(c) PROVE Served'
  <2>1. roomClients' = RemoveFirst(roomClients, c) /\ pc' = [pc EXCEPT ![c] = "ended"]
    BY <1>4 DEF OnError, Goto
  <2>2. ToSet(roomClients') \subseteq ToSet(roomClients) \ {c}
    BY <1>0, <2>1, RemoveFacts
  <2> QED BY <1>0, <2>1, <2>2 DEF Served
<1>5. ASSUME UNCHANGED <<roomClients, pc>> PROVE Served'
  BY <1>5 DEF Served
<1>6. ASSUME NEW q \in Requests, BeginWrite(q) \/ EndWrite(q) PROVE Served'
  BY <1>5, <1>6 DEF BeginWrite, EndWrite
<1>7. ASSUME NEW c \in Clients, Leave(c) PROVE Served'
  BY <1>5, <1>7 DEF Leave
<1> QED BY <1>2, <1>3, <1>4, <1>5, <1>6, <1>7 DEF Next, Step, vars

\* No client stays in the list once its stream has ended, its request was refused
\* or its onError has run: one call of removeClient takes it out for good.
THEOREM ListedAreServed == Spec => []Served
<1>1. Init => Served
  BY DEF Init, Served, ToSet
<1> QED BY <1>1, InvAlways, ServedStep, PTL DEF Spec

\* The request is in the middle of its write to c.
Writes(q, c) == pc[q] = "cast" /\ todo[q] # <<>> /\ Head(todo[q]) = c

\* Whoever holds the lock of a client's writer is writing to that client.
LocksInv == \A c \in Clients : lock[c] # NULL => Writes(lock[c], c)

LEMMA LocksStep == ASSUME Inv, LocksInv, [Next]_vars PROVE LocksInv'
<1> USE RequestAssumption
<1>0. /\ pc \in [Requests -> Pcs] /\ todo \in [Requests -> Seq(Clients)]
      /\ lock \in [Clients -> Requests \cup {NULL}] /\ Clients \subseteq Requests
  BY DEF Inv, TypeOK, Requests
<1>1. ASSUME NEW q \in Requests, UNCHANGED lock, pc[q] # "cast" \/ todo[q] = <<>>,
             \A r \in Requests \ {q} : pc'[r] = pc[r] /\ todo'[r] = todo[r]
      PROVE  LocksInv'
  <2>1. \A c \in Clients : lock[c] # q
    BY <1>1 DEF LocksInv, Writes
  <2>2. \A c \in Clients : lock[c] # NULL => lock[c] \in Requests \ {q}
    BY <1>0, <2>1
  <2> QED BY <1>1, <2>2 DEF LocksInv, Writes
<1>2. ASSUME NEW q \in Requests,
             \/ Accept(q) \/ Refuse(q) \/ StartCast(q) \/ EndCast(q)
             \/ q \in Clients /\ (Add(q) \/ Listen(q) \/ OnError(q))
      PROVE  LocksInv'
  <2>1. UNCHANGED lock /\ (pc[q] # "cast" \/ todo[q] = <<>>)
    BY <1>2 DEF Accept, Refuse, StartCast, EndCast, Add, Listen, OnError
  <2>2. \A r \in Requests \ {q} : pc'[r] = pc[r] /\ todo'[r] = todo[r]
    BY <1>0, <1>2 DEF Accept, Refuse, StartCast, EndCast, Add, Listen, OnError, Goto
  <2> QED BY <1>1, <2>1, <2>2
<1>3. ASSUME NEW q \in Requests, BeginWrite(q) PROVE LocksInv'
  <2>1. pc[q] = "cast" /\ todo[q] # <<>> /\ lock' = [lock EXCEPT ![Head(todo[q])] = q]
        /\ UNCHANGED <<pc, todo>>
    BY <1>3 DEF BeginWrite
  <2> QED BY <1>0, <2>1 DEF LocksInv, Writes
<1>4. ASSUME NEW q \in Requests, EndWrite(q) PROVE LocksInv'
  <2> DEFINE c == Head(todo[q])
  <2>1. lock[c] = q /\ lock' = [lock EXCEPT ![c] = NULL] /\ UNCHANGED pc
        /\ todo' = [todo EXCEPT ![q] = Tail(@)]
    BY <1>4 DEF EndWrite
  <2>2. \A d \in Clients \ {c} : lock[d] # q
    BY DEF LocksInv, Writes
  <2> HIDE DEF c
  <2>3. \A d \in Clients : lock'[d] # NULL => d # c /\ lock'[d] = lock[d]
    BY <1>0, <2>1
  <2>4. \A d \in Clients : lock'[d] # NULL => lock'[d] \in Requests \ {q} /\ lock'[d] = lock[d]
    BY <1>0, <2>2, <2>3
  <2>5. \A r \in Requests \ {q} : todo'[r] = todo[r]
    BY <1>0, <2>1
  <2> QED BY <2>1, <2>4, <2>5 DEF LocksInv, Writes
<1>5. ASSUME UNCHANGED <<pc, todo, lock>> PROVE LocksInv'
  BY <1>5 DEF LocksInv, Writes
<1>6. ASSUME NEW c \in Clients, Leave(c) PROVE LocksInv'
  BY <1>5, <1>6 DEF Leave
<1> QED BY <1>2, <1>3, <1>4, <1>5, <1>6 DEF Next, Step, vars

\* The next step of a busy thread waits for nobody.
Runs(q) ==
  \/ pc[q] \in {"add", "announce", "listen"}
  \/ pc[q] = "cast" /\ (todo[q] = <<>> \/ lock[Head(todo[q])] \in {NULL, q})

\* A thread that has to wait for a lock waits for a thread that can go on.
WaitsForARunner == \A q \in Busy :
  Runs(q) \/ LET holder == lock[Head(todo[q])] IN holder \in Busy /\ Runs(holder)

\* However many threads write to the same clients, they never wait for each other
\* in a circle: broadcastToRoom holds one writer's lock at a time.
THEOREM WritersDoNotDeadlock == Spec => []WaitsForARunner
<1>1. Init => LocksInv
  BY DEF Init, LocksInv
<1>2. Inv /\ LocksInv => WaitsForARunner
  <2> SUFFICES ASSUME Inv, LocksInv, NEW q \in Busy, ~Runs(q)
               PROVE  lock[Head(todo[q])] \in Busy /\ Runs(lock[Head(todo[q])])
    BY DEF WaitsForARunner
  <2> DEFINE c == Head(todo[q])
             holder == lock[c]
  <2>1. q \in Requests /\ pc[q] = "cast" /\ todo[q] # <<>> /\ holder \notin {NULL, q}
    BY DEF Busy, ThreadPcs, Runs
  <2>2. c \in Clients
    BY <2>1, HeadTail DEF Inv, TypeOK
  <2>3. holder \in Requests /\ Writes(holder, c)
    BY <2>1, <2>2 DEF Inv, TypeOK, LocksInv
  <2> QED BY <2>3 DEF Writes, Runs, Busy, ThreadPcs
<1> QED BY <1>1, <1>2, InvAlways, LocksStep, PTL DEF Spec
==============================================================================
