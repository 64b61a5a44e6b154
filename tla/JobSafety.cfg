SPECIFICATION Spec
CONSTANTS
  NumThreads = 2
  MaxFibers = 5
  Jobs = {j1, j2, j3}
  Counters = {c1, c2}
  NoJob = NoJob
  NoCounter = NoCounter
  MaxWaits = 1
  DestroyWhenIdle = TRUE
SYMMETRY JobSymmetry
INVARIANTS
  FiberExclusive
  SwitchesSucceed
  NoStrandedWaiter
  FiberAccounting
  JobSystemInv
PROPERTIES
  ImplementsScheduler
CHECK_DEADLOCK FALSE
