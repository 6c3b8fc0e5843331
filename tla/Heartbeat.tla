----------------------------- MODULE Heartbeat -----------------------------
(***************************************************************************)
(* The clock side of WSServPoint: the two scheduled tasks, one that sends  *)
(* PING to every registered session and one that evicts the sessions whose *)
(* last PONG is too old, and the clients that answer.                      *)
(*                                                                         *)
(* Time advances in ticks; a tick is the common divisor of the code's      *)
(* periods, 5 seconds.  A scheduled task that is due runs before time goes *)
(* on, and a responsive client answers within Latency ticks.               *)
(***************************************************************************)
EXTENDS Integers

CONSTANTS
  Sessions,    \* connections
  Timeout,     \* HEARTBEAT_TIMEOUT in ticks
  ReapPeriod,  \* period of the heartbeat check in ticks
  PingPeriod,  \* period of the PING task in ticks
  Latency      \* how long a PING and its PONG may travel, in ticks

ASSUME TimeAssumption == /\ Timeout \in Nat
                         /\ ReapPeriod \in Nat \ {0}
                         /\ PingPeriod \in Nat \ {0}
                         /\ Latency \in Nat

VARIABLES
  status,     \* is the session in userSessions?
  silent,     \* has its client stopped answering?
  age,        \* ticks since UserSession.lastHeartbeat
  waiting,    \* ticks since a PING that is not answered yet, or -1
  pingTimer,  \* ticks since the PING task ran
  reapTimer,  \* ticks since the heartbeat check ran
  pinged      \* history variable: the sessions that a PING was sent to

vars == <<status, silent, age, waiting, pingTimer, reapTimer, pinged>>

Init ==
  /\ status = [s \in Sessions |-> "new"]
  /\ silent = [s \in Sessions |-> FALSE]
  /\ age = [s \in Sessions |-> 0]
  /\ waiting = [s \in Sessions |-> -1]
  /\ pingTimer = 0
  /\ reapTimer = 0
  /\ pinged = {}

\* onOpen creates the UserSession, with the current time as last heartbeat.
Register(s) ==
  /\ status[s] = "new"
  /\ status' = [status EXCEPT ![s] = "registered"]
  /\ UNCHANGED <<silent, age, waiting, pingTimer, reapTimer, pinged>>

\* The client hangs, or its network is gone: it will not answer any more.
Silence(s) ==
  /\ status[s] = "registered" /\ ~silent[s]
  /\ silent' = [silent EXCEPT ![s] = TRUE]
  /\ waiting' = [waiting EXCEPT ![s] = -1]
  /\ UNCHANGED <<status, age, pingTimer, reapTimer, pinged>>

\* The PING task: every registered session is sent a PING.
Ping ==
  /\ pingTimer = PingPeriod
  /\ pingTimer' = 0
  /\ waiting' = [s \in Sessions |->
       IF status[s] = "registered" /\ ~silent[s] /\ waiting[s] = -1
         THEN 0 ELSE waiting[s]]
  /\ pinged' = pinged \cup {s \in Sessions : status[s] = "registered"}
  /\ UNCHANGED <<status, silent, age, reapTimer>>

\* onMessage, PONG: lastHeartbeat becomes the current time.
Pong(s) ==
  /\ status[s] = "registered" /\ waiting[s] >= 0
  /\ age' = [age EXCEPT ![s] = 0]
  /\ waiting' = [waiting EXCEPT ![s] = -1]
  /\ UNCHANGED <<status, silent, pingTimer, reapTimer, pinged>>

\* MUTANT: the age that is just the timeout is too old already.
ExpiredEarly(s) == status[s] = "registered" /\ age[s] >= Timeout

\* MUTANT: a session has to be too old at two checks in a row.
ExpiredTwice(s) == status[s] = "registered" /\ age[s] > Timeout + ReapPeriod

\* now - lastHeartbeat > HEARTBEAT_TIMEOUT
Expired(s) == status[s] = "registered" /\ age[s] > Timeout

\* The heartbeat check: every expired session is closed and removed.
Reap ==
  /\ reapTimer = ReapPeriod
  /\ reapTimer' = 0
  /\ status' = [s \in Sessions |-> IF Expired(s) THEN "evicted" ELSE status[s]]
  /\ waiting' = [s \in Sessions |-> IF Expired(s) THEN -1 ELSE waiting[s]]
  /\ age' = [s \in Sessions |-> IF Expired(s) THEN 0 ELSE age[s]]
  /\ UNCHANGED <<silent, pingTimer, pinged>>

\* Time goes on when no task is due and no responsive client owes its PONG.
Tick ==
  /\ pingTimer < PingPeriod
  /\ reapTimer < ReapPeriod
  /\ \A s \in Sessions : waiting[s] < Latency
  /\ pingTimer' = pingTimer + 1
  /\ reapTimer' = reapTimer + 1
  /\ age' = [s \in Sessions |-> IF status[s] = "registered" THEN age[s] + 1 ELSE 0]
  /\ waiting' = [s \in Sessions |->
       IF waiting[s] >= 0 THEN waiting[s] + 1 ELSE -1]
  /\ UNCHANGED <<status, silent, pinged>>

Next == \/ Ping \/ Reap \/ Tick
        \/ \E s \in Sessions : Register(s) \/ Silence(s) \/ Pong(s)

Spec == Init /\ [][Next]_vars

-----------------------------------------------------------------------------
(* Properties.                                                             *)

\* The variables hold what the Java declarations and the clock allow.
TypeOK ==
  /\ status \in [Sessions -> {"new", "registered", "evicted"}]
  /\ silent \in [Sessions -> BOOLEAN]
  /\ age \in [Sessions -> Nat]
  /\ waiting \in [Sessions -> -1 .. Latency]
  /\ pingTimer \in 0 .. PingPeriod
  /\ reapTimer \in 0 .. ReapPeriod
  /\ pinged \subseteq Sessions

\* The heartbeat check is late by less than its period: whatever the PINGs do,
\* no session stays registered longer than the timeout and one more period
\* after its last PONG.
DeadReclaimed == \A s \in Sessions :
  status[s] = "registered" => age[s] <= Timeout + ReapPeriod

\* Only a client that has stopped answering is evicted: the PING task is often
\* enough for a client that answers every PING to stay within the timeout.
ResponsiveKept == \A s \in Sessions : status[s] = "evicted" => silent[s]

\* No session is there for a second PING, answered or not: what happens when the
\* PINGs are as rare as the code's constant makes them.
OnePingEach ==
  [][Ping => \A s \in Sessions : status[s] = "registered" => s \notin pinged]_vars
=============================================================================
