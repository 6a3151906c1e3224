SPECIFICATION FairSpec
CONSTANTS
  Files = 4
  Workers = {w1, w2, w3}
  None = None
  Cancelled = Cancelled
INVARIANTS
  WritesAreApart
  AllRead
  ErrorIsOfARead
PROPERTIES
  CallReturns
