SPECIFICATION StagedSpec
CONSTANTS
  Slots = {s1}
  Items = {}
  MaxInstances = 1
  Fragile = {p1, k1, s1}
  Orders = {o1, o2}
  PieceIds = {p1}
  Pieces = {p1}
  Actions = {"post"}
  Bodies = {longBody, otherBody}
  Null = Null
  OrderSpecs = {}
  DailyCaps <- OneADay
  Windows <- AnyHour
  MinutesPerDay = 1
  MaxDays = 1
  MaxAttempts = 1
  MaxExports = 1
  Keys = {k1, k2}
  Rules = {r1}
  RequiredRules <- EveryRule
  Links = {long}
  Mentions <- Substrings
  MaxReleases = 2
  long = long
  short = short
  longBody = longBody
  shortBody = shortBody
  otherBody = otherBody
SYMMETRY Symmetry
INVARIANT VerifiedOnTwoRecords
INVARIANT AttemptCountCountsOrders
PROPERTY OrderIsItsOwn
PROPERTY ImplementsOutcome
