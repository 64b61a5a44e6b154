SPECIFICATION MCFairSpec
CONSTANTS
  Menu = Menu
  Level = Level
  Pause = Pause
  States = {Menu, Level, Pause}
  NoState = NoState
  GlobalStates = {Menu}
  Parents <- MCParents
  Siblings <- MCSiblings
  OtherThreads = FALSE
  QuietDestroy = TRUE
  MaxChanges = 5
  MaxUpdates = 2
  Absent = Absent
  NoValue = NoValue
  Endless = Endless
INVARIANTS
  OneBranch
  CallbacksAreSafe
  ParsesAgree
PROPERTIES
  ImplementsGameStates
  UpdateIsComplete
  UpdatesEnd
  TextsAgree
CHECK_DEADLOCK FALSE
