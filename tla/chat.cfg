\* Two sessions and two messages; the history read returns one message.
CONSTANTS
  Sessions = {s1, s2}
  Messages = {m1, m2}
  Limit = 1
  NULL = NULL
SYMMETRY Symmetry
SPECIFICATION Spec
INVARIANTS
  TypeOK
  NoGap
  ListIsCurrent
\* When every session is closed nothing is left to do.
CHECK_DEADLOCK FALSE
