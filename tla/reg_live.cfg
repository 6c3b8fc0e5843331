\* Two connections of one user, under fairness; no symmetry with liveness.
CONSTANTS
  Sessions = {s1, s2}
  Users = {u1}
  Rooms = {r1}
  NULL = NULL
SPECIFICATION FairSpec
PROPERTY ClosedIsReclaimed
\* Each connection is used once: when all are closed nothing is left to do.
CHECK_DEADLOCK FALSE
