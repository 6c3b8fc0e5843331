\* The periods of protocol.md in ticks of 5 s: timeout 30 s, PING every 5 s;
\* the check every 10 s.  Latency is the largest that the timeout leaves room for.
CONSTANTS
  Sessions = {s1, s2}
  Timeout = 6
  ReapPeriod = 2
  PingPeriod = 1
  Latency = 5
SYMMETRY Symmetry
SPECIFICATION Spec
INVARIANTS
  DeadReclaimed
  ResponsiveKept
