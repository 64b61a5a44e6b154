SPECIFICATION Spec
CONSTANTS
  NumThreads = 2
  MaxFibers = 5
  Jobs = {j1, j2}
  Counters = {c1}
  NoJob = NoJob
  NoCounter = NoCounter
  MaxWaits = 1
  DestroyWhenIdle = FALSE
PROPERTIES
  WaitBlocks
CHECK_DEADLOCK FALSE
