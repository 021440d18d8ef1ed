CONSTANTS
  Threads = {w1, w2}
  Sources = {s1, s2}
  Sliding = {s2}
  None = None
  Delays = {1}
  Floor = 1
  Never = 9
  MaxPosts = 2
SPECIFICATION FairSpec
INVARIANTS
  TypeOK
  RunsInOrder
  LoopWakes
PROPERTIES
  DeadlinesNotPostponed
  EverythingServed
CHECK_DEADLOCK FALSE
