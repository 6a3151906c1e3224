SPECIFICATION Spec
CONSTANTS
  Ids = {1, 2}
  Names = {a, b}
  None = None
  Changes = 3
INVARIANTS
  QuietPassCatchesUp
PROPERTIES
  EventuallyUpToDate
CHECK_DEADLOCK FALSE
