SPECIFICATION MCFairSpec
CONSTANTS
  Threads = {t1, t2}
  Types = {A, B}
  Copies = {1, 2}
  Handlers = {h1, h2}
  HandledTypes = {A, B}
  Changing = {A, B}
  AlwaysHandled = TRUE
  NoHandler = NoHandler
  Moved = Moved
  NoFrame = NoFrame
  Locks = {l1, l2}
  MaxMessages = 2
  ValueTypes = {A, B}
  Names = {n}
  Objects = {o1, o2, o3}
  Absent = Absent
  Contexts = {"parent", "child"}
  ParentOf <- MCParentOf
  Keys <- MCKeys
  Contracts <- MCContracts
  Validated = {v1, v2}
INVARIANTS
  EndedIsQuiet
  DispatchedInOrder
  KeepsWhatWasAsked
PROPERTIES
  ImplementsMailbox
  MessagesArrive
  CallsReturn
  ContextsHold
CHECK_DEADLOCK FALSE
