SPECIFICATION Spec
CONSTANTS
  Procs = {p1, p2}
  a = a
  b = b
  NoText = NoText
  NoSlug = NoSlug
  NoDate = NoDate
  NoPath = NoPath
  Keep = Keep
  Absent = Absent
  Ids = {1, 2, 3}
  Dates <- MCDates
  Slugs <- MCSlugs
  Texts <- MCTexts
  Today = 20260201
  LastIds = {1}
  Archives <- NamedArchives
  Commands <- RaceCommands
  Serial = TRUE
  Faults = {"crash"}
INVARIANTS
  ReadFindsFile
CHECK_DEADLOCK FALSE
