\* Two connections of one or two users; everything may overlap and fail.
CONSTANTS
  Sessions = {s1, s2}
  Users = {u1, u2}
  Rooms = {r1, r2}
  NULL = NULL
SYMMETRY Symmetry
SPECIFICATION Spec
INVARIANTS
  TypeOK
  OneRoom
  RegisteredInItsRoom
  MapsAgree
  StaleOnlyByRace
PROPERTY MembershipSpec
\* Each connection is used once: when all are closed nothing is left to do.
CHECK_DEADLOCK FALSE
