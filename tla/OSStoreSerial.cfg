SPECIFICATION Spec
CONSTANTS
  Procs = {p1, p2, p3}
  a = a
  b = b
  NoText = NoText
  NoSlug = NoSlug
  NoDate = NoDate
  NoPath = NoPath
  Keep = Keep
  Absent = Absent
  Ids = {1, 2}
  Dates <- MCDates
  Slugs <- MCSlugs
  Texts <- MCTexts
  Today = 20260201
  LastIds = {1}
  Archives <- AllArchives
  Commands <- SerialCommands
  Serial = TRUE
  Faults = {"crash", "io"}
INVARIANTS
  TypeOK
  OneFilePerId
  WrittenTextStays
  FreshId
  NotFoundMeansMissing
PROPERTIES
  ImplementsStore
SYMMETRY Symmetry
CHECK_DEADLOCK FALSE
