\* The connection breaks and the page reconnects by itself: no click in between.
CONSTANTS
  Rooms = {r1, r2}
  FirstRoom = r1
  Friends = {f1}
  Mine = {m1}
  Theirs = {t1}
  Limit = 1
  MaxReconnect = 1
  MaxUp = 2
  MaxDown = 2
  NULL = NULL
SPECIFICATION PatientSpec
INVARIANT ShownRoomIsJoined
\* A page that was left, or that gave up, does nothing.
CHECK_DEADLOCK FALSE
