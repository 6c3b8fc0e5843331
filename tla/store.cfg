\* Two users, two saves and a read over a pool of two connections.
CONSTANTS
  Users = {1, 2}
  Savers = {s1, s2}
  Readers = {q1}
  MaxTotal = 2
  MaxLen = 1
  Limit = 1
  Joined <- JoinedNames
  NULL = NULL
SPECIFICATION FairSpec
INVARIANTS
  TypeOK
  LengthBound
  ExpiresUnlessFailed
  ReadsSeeSaves
PROPERTIES
  LogSpec
  DeletedOnlyInRace
  EveryCallEnds
\* Each call is made once.
CHECK_DEADLOCK FALSE
