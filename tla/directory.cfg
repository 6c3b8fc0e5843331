\* Two registrations of one word and a login, two rooms, two deletions.
CONSTANTS
  Registrations = {g1, g2}
  Logins = {l1}
  Creations = {c1, c2}
  Deletions = {d1, d2}
  Words = {w1}
  Spellings = {lower, upper}
  Passwords = {p1, p2}
  RoomIds = {1, 2}
  NULL = NULL
SYMMETRY Symmetry
SPECIFICATION Spec
INVARIANTS
  TypeOK
  NameBelongsToWinner
  RegisteredCanLogIn
  OneIdentity
  DeletedOnce
  HistoriesStayApart
PROPERTY OnlyCreatorDeletes
\* Each request is made once.
CHECK_DEADLOCK FALSE
