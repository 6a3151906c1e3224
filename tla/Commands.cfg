SPECIFICATION Spec
CONSTANTS
  Procs = {p1, p2}
  Ids = {1, 2}
  Dates = {1, 2}
  todo = todo
  dotted = dotted
  NoSlug = NoSlug
  Slugs = {NoSlug, todo, dotted}
  InName = {NoSlug, todo}
  title = title
  NoTitle = NoTitle
  Titles = {NoTitle, title}
  extra = extra
  NoExtra = NoExtra
  Extras = {NoExtra, extra}
  Go = Go
  go = go
  Tags = {Go, go}
  Lower <- MCLower
  plain = plain
  tagged = tagged
  Texts = {plain, tagged}
  Hashtags <- MCHashtags
  NoDate = NoDate
  None = None
  Unset = Unset
  Keep = Keep
  Given <- MCGiven
  Answers <- MCAnswers
  Asked <- MCAsked
  Archives <- MCArchives
  MaxLines = 5
SYMMETRY MCSymmetry
INVARIANTS
  TypeOK
  DoubleAgrees
  QueriesComplete
PROPERTIES
  UntouchedFieldsStay
  UpsertReuses
