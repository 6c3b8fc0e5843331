\* The periods of the code with clients that answer at once.
CONSTANTS
  Sessions = {s1}
  Timeout = 6
  ReapPeriod = 2
  PingPeriod = 1000
  Latency = 0
SPECIFICATION Spec
INVARIANT ResponsiveKept
