SPECIFICATION Spec
CONSTANTS
  Threads = {t1, t2}
  Dispatchers = {t1, t2}
  Reentrant = FALSE
  Rehashes = FALSE
  Endpoints = {e1, e2}
  Channels = {b, c}
  Broadcast = b
  MaxSends = 3
  MaxCalls = 4
  None = None
PROPERTIES
  SubscribersStable
CHECK_DEADLOCK FALSE
