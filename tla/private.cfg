\* Three connections and a message; sends and Redis may throw.
CONSTANTS
  Sessions = {t1, t2, t3}
  Messages = {m1}
  NULL = NULL
  SendFaults = TRUE
  StoreFaults = TRUE
SYMMETRY Symmetry
SPECIFICATION Spec
INVARIANTS
  TypeOK
  SentOrQueued
  MissedOnlyByRace
\* Each connection and each message is used once.
CHECK_DEADLOCK FALSE
