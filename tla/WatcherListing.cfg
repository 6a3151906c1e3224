SPECIFICATION Spec
CONSTANTS
  Ids = {1}
  Months = {m1}
  Names = {a}
  BufSize = 1
  Changes = 2
  Gap = FALSE
INVARIANTS
  ListingIsCaughtUp
CHECK_DEADLOCK FALSE
