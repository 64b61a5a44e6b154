SPECIFICATION MCFairSpec
CONSTANTS
  Threads = {t1, t2}
  Dispatchers = {t1}
  Reentrant = FALSE
  Rehashes = FALSE
  Endpoints = {e1, e2}
  Channels = {b, c}
  Broadcast = b
  MaxSends = 2
  MaxCalls = 5
  None = None
  MaxThreadedSends = 2
  MaxThreadedCalls = 4
  StackHandlers = {h1, h2}
  Callbacks = {f1, f2}
  Moved = Moved
  Capacities <- MCCapacities
  QueueValues = 2
  MaxBuckets = 4
  MaxSlots = 7
  Shapes <- MCShapes
  Origins <- MCOrigins
  Default = 0
  ViewValues = {1}
INVARIANTS
  SubscriptionsAgree
  FreedLast
  ContainersAgree
PROPERTIES
  IterationsStable
  RemovalsEnd
  StacksServe
CHECK_DEADLOCK FALSE
