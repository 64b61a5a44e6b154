SPECIFICATION FairSpec
CONSTANTS
  NumThreads = 2
  MaxFibers = 5
  Jobs = {j1, j2, j3}
  Counters = {c1}
  NoJob = NoJob
  NoCounter = NoCounter
  MaxWaits = 1
  DestroyWhenIdle = TRUE
PROPERTIES
  JobsStart
  WaitsEnd
CHECK_DEADLOCK FALSE
