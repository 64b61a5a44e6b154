SPECIFICATION Spec
CONSTANTS
  Threads = {t1, t2}
  Types = {A, B}
  Copies = {1, 2, 3}
  Handlers = {h1}
  HandledTypes = {A}
  Changing = {}
  AlwaysHandled = FALSE
  NoHandler = NoHandler
  Moved = Moved
  NoFrame = NoFrame
INVARIANTS
  HandledOnce
CHECK_DEADLOCK FALSE
