SPECIFICATION Spec
CONSTANTS
  Procs = {p1, p2}
  a = a
  b = b
  NoText = NoText
  NoSlug = NoSlug
  NoDate = NoDate
  NoPath = NoPath
  Keep = Keep
  Absent = Absent
  Ids = {1, 2, 3}
  Dates <- MCDates
  Slugs <- MCSlugs
  Texts <- MCTexts
  Today = 20260201
  LastIds = {0, 1}
  Archives <- AllArchives
  Commands <- RaceCommands
  Serial = FALSE
  Faults = {"crash", "io", "skip", "idlag"}
INVARIANTS
  NoCrossTalk
PROPERTIES
  NoteSurvives
CHECK_DEADLOCK FALSE
