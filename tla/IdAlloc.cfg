SPECIFICATION FairSpec
CONSTANTS
  Callers = {c1, c2, c3}
  NoOne = NoOne
  Absent = Absent
  Torn = Torn
  InitialContents = {0, 7, Absent, Torn}
INVARIANTS
  TypeOK
  IssuedIncreasing
  IssuedContiguous
PROPERTIES
  IdFileOnlyCounts
  EveryCallReturns
  ImplementsCounter
CHECK_DEADLOCK FALSE
