SPECIFICATION MCSpec
CONSTANTS
  Absent = Absent
  Pending = Pending
INVARIANTS
  FilesAgree
  RenderingAgrees
CHECK_DEADLOCK FALSE
