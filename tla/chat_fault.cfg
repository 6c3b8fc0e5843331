\* Two members chat; a member closes during a broadcast, or two sends collide.
CONSTANTS
  Sessions = {s1, s2}
  Messages = {m1, m2}
  Limit = 1
  NULL = NULL
SPECIFICATION Spec
INVARIANT Broadcast
\* When every session is closed nothing is left to do.
CHECK_DEADLOCK FALSE
