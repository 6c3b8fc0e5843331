-------------------------- MODULE HeartbeatProofs --------------------------
(* Proofs about Heartbeat, for any sessions, periods and latency.          *)
EXTENDS Heartbeat, TLAPS

-----------------------------------------------------------------------------
(* Type correctness.                                                       *)

\* In every reachable state the timers are within their periods and no
\* responsive client owes a PONG for longer than the latency.
THEOREM HeartbeatTypeCorrect == Spec => []TypeOK
<1> USE TimeAssumption DEF TypeOK
<1>1. Init => TypeOK
  BY DEF Init
<1>2. ASSUME TypeOK, [Next]_vars PROVE TypeOK'
  <2>1. CASE Ping
    BY <1>2, <2>1 DEF Ping
  <2>2. CASE Reap
    BY <1>2, <2>2 DEF Reap
  <2>3. CASE Tick
    BY <1>2, <2>3 DEF Tick
  <2>4. ASSUME NEW s \in Sessions, Register(s) \/ Silence(s) \/ Pong(s)
        PROVE  TypeOK'
    <3>1. CASE Register(s)
      BY <1>2, <3>1 DEF Register
    <3>2. CASE Silence(s)
      <4>1. -1 \in -1 .. Latency
        BY SMT
      <4> QED BY <1>2, <3>2, <4>1 DEF Silence
    <3>3. CASE Pong(s)
      <4>1. -1 \in -1 .. Latency
        BY SMT
      <4> QED BY <1>2, <3>3, <4>1 DEF Pong
    <3> QED BY <2>4, <3>1, <3>2, <3>3
  <2>5. CASE UNCHANGED vars
    BY <1>2, <2>5 DEF vars
  <2> QED BY <1>2, <2>1, <2>2, <2>3, <2>4, <2>5 DEF Next
<1> QED BY <1>1, <1>2, PTL DEF Spec

-----------------------------------------------------------------------------
(* Dead sessions are reclaimed.                                            *)

\* What was not expired at the last check has aged by the time since then.
AgeInv == \A s \in Sessions :
  /\ status[s] = "registered" => age[s] <= Timeout + reapTimer
  /\ status[s] = "new" => age[s] = 0

LEMMA AgeStep == ASSUME TypeOK, AgeInv, [Next]_vars PROVE AgeInv'
<1> USE TimeAssumption DEF TypeOK, AgeInv
<1>1. CASE Ping
  BY <1>1 DEF Ping
<1>2. CASE Reap
  BY <1>2 DEF Reap, Expired
<1>3. CASE Tick
  BY <1>3 DEF Tick
<1>4. ASSUME NEW s \in Sessions, Register(s) \/ Silence(s) \/ Pong(s)
      PROVE  AgeInv'
  BY <1>4 DEF Register, Silence, Pong
<1>5. CASE UNCHANGED vars
  BY <1>5 DEF vars
<1> QED BY <1>1, <1>2, <1>3, <1>4, <1>5 DEF Next

\* Whatever the periods are, and whether any client answers or is even
\* pinged, no session stays registered for longer than the timeout and one
\* period of the heartbeat check after its last PONG.
THEOREM DeadAreReclaimed == Spec => []DeadReclaimed
<1>1. Init => AgeInv
  BY TimeAssumption DEF Init, AgeInv
<1>2. TypeOK /\ AgeInv /\ [Next]_vars => AgeInv'
  BY AgeStep
<1>3. TypeOK /\ AgeInv => DeadReclaimed
  BY TimeAssumption DEF TypeOK, AgeInv, DeadReclaimed
<1> QED BY <1>1, <1>2, <1>3, HeartbeatTypeCorrect, PTL DEF Spec

-----------------------------------------------------------------------------
(* Responsive clients are kept.                                            *)

\* A client that owes no PONG has answered the last PING, or has connected
\* since; one that owes a PONG had answered the PING before.
PongInv == \A s \in Sessions :
  /\ status[s] = "registered" /\ ~silent[s] =>
       IF waiting[s] = -1 THEN age[s] <= pingTimer
                          ELSE age[s] <= PingPeriod + waiting[s]
  /\ status[s] = "new" => age[s] = 0 /\ waiting[s] = -1
  /\ status[s] = "evicted" => silent[s]

LEMMA PongStep ==
  ASSUME PingPeriod + Latency <= Timeout, TypeOK, PongInv, [Next]_vars
  PROVE  PongInv'
<1> USE TimeAssumption DEF TypeOK, PongInv
<1>1. CASE Ping
  BY <1>1 DEF Ping
<1>2. CASE Reap
  <2>1. \A s \in Sessions : Expired(s) => silent[s]
    BY DEF Expired
  <2> QED BY <1>2, <2>1 DEF Reap
<1>3. CASE Tick
  BY <1>3 DEF Tick
<1>4. ASSUME NEW s \in Sessions, Register(s) \/ Silence(s) \/ Pong(s)
      PROVE  PongInv'
  BY <1>4 DEF Register, Silence, Pong
<1>5. CASE UNCHANGED vars
  BY <1>5 DEF vars
<1> QED BY <1>1, <1>2, <1>3, <1>4, <1>5 DEF Next

\* A session that was sent a PING answered it within the latency, or not at all,
\* and has aged since.
RareInv == \A s \in Sessions :
  /\ waiting[s] >= 0 => waiting[s] = pingTimer
  /\ status[s] = "new" => s \notin pinged /\ waiting[s] = -1
  /\ status[s] = "registered" /\ s \in pinged => age[s] >= pingTimer - Latency

LEMMA RareStep ==
  ASSUME Latency < PingPeriod, TypeOK, RareInv, [Next]_vars
  PROVE  RareInv'
<1> USE TimeAssumption DEF TypeOK, RareInv
<1>1. CASE Ping
  <2>1. \A s \in Sessions : waiting[s] = -1
    BY <1>1 DEF Ping
  <2> QED BY <1>1, <2>1 DEF Ping
<1>2. CASE Reap
  BY <1>2 DEF Reap, Expired
<1>3. CASE Tick
  BY <1>3 DEF Tick
<1>4. ASSUME NEW s \in Sessions, Register(s) \/ Silence(s) \/ Pong(s)
      PROVE  RareInv'
  BY <1>4 DEF Register, Silence, Pong
<1>5. CASE UNCHANGED vars
  BY <1>5 DEF vars
<1> QED BY <1>1, <1>2, <1>3, <1>4, <1>5 DEF Next

\* The PING period decides.  If it and the way of a PING and its PONG fit into the
\* timeout, as they do with the documented period, a client that answers every
\* PING is never evicted.  If it is longer than the timeout, a period of the check
\* and that way together, as the code's is, no session is there for a second
\* PING: each one is evicted, however well its client answers.
THEOREM ResponsiveAreKept ==
  /\ PingPeriod + Latency <= Timeout => (Spec => []ResponsiveKept)
  /\ Timeout + ReapPeriod + Latency < PingPeriod => (Spec => OnePingEach)
<1>1. ASSUME PingPeriod + Latency <= Timeout PROVE Spec => []ResponsiveKept
  <2>1. Init => PongInv
    BY TimeAssumption DEF Init, PongInv
  <2>2. TypeOK /\ PongInv /\ [Next]_vars => PongInv'
    BY <1>1, PongStep
  <2>3. PongInv => ResponsiveKept
    BY DEF PongInv, ResponsiveKept
  <2> QED BY <2>1, <2>2, <2>3, HeartbeatTypeCorrect, PTL DEF Spec
<1>2. ASSUME Timeout + ReapPeriod + Latency < PingPeriod PROVE Spec => OnePingEach
  <2> DEFINE Once == Ping => \A s \in Sessions : status[s] = "registered" => s \notin pinged
  <2>1. Init => AgeInv /\ RareInv
    BY TimeAssumption DEF Init, AgeInv, RareInv
  <2>2. Latency < PingPeriod
    BY <1>2, TimeAssumption
  <2>3. TypeOK /\ AgeInv /\ RareInv /\ [Next]_vars => AgeInv' /\ RareInv'
    BY <2>2, AgeStep, RareStep
  <2>4. TypeOK /\ AgeInv /\ RareInv => Once
    BY <1>2, TimeAssumption DEF TypeOK, AgeInv, RareInv, Ping
  <2>5. TypeOK /\ AgeInv /\ RareInv /\ [Next]_vars => [Once]_vars
    BY <2>4
  <2> QED BY <2>1, <2>3, <2>5, HeartbeatTypeCorrect, PTL DEF Spec, OnePingEach
<1> QED BY <1>1, <1>2

=============================================================================
