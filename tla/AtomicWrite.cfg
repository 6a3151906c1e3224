SPECIFICATION Spec
CONSTANTS
  Writers = {a, b, c}
  Inodes = {i, j, k, l}
  short = short
  long = long
  Texts = {short, long}
  Length <- MCLength
  Hole = Hole
  None = None
SYMMETRY MCSymmetry
INVARIANTS
  TypeOK
  WholeUnlessOverlapped
  LoneCallFindsItsFile
