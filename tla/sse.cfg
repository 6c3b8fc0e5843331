\* Two clients and a post over two threads.
CONSTANTS
  Clients = {c1, c2}
  Posts = {p1}
  MaxThreads = 2
  NULL = NULL
SPECIFICATION FairSpec
INVARIANTS
  TypeOK
  Delivered
PROPERTIES
  BrokenIsRemoved
  PostsEnd
\* Each request is made once.
CHECK_DEADLOCK FALSE
