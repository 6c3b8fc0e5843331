\* Two rooms and a friend; one typed message and one of somebody else.
CONSTANTS
  Rooms = {r1, r2}
  FirstRoom = r1
  Friends = {f1}
  Mine = {m1}
  Theirs = {t1}
  Limit = 1
  MaxReconnect = 2
  MaxUp = 2
  MaxDown = 2
  NULL = NULL
SPECIFICATION FairSpec
INVARIANTS
  TypeOK
  NoDoubleRender
  ViewIsWhole
  RoomsDoNotMix
  PrivateIsNoticed
PROPERTIES
  PostedWhereTyped
  ReconnectsOrGivesUp
\* A page that was left, or that gave up, does nothing.
CHECK_DEADLOCK FALSE
