SPECIFICATION FairSpec
CONSTANTS
  Ids = {1, 2}
  Months = {m1, m2}
  Names = {a}
  BufSize = 1
  Changes = 3
  Gap = TRUE
INVARIANTS
  TypeOK
  ViewConverges
  PendingIsTimed
CHECK_DEADLOCK FALSE
PROPERTIES
  EventsMakeSense
  EventsDelivered
  CloseEnds
