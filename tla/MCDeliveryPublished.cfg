SPECIFICATION DeliveriesSpec
CONSTANTS
  Slots = {s1}
  Items = {}
  MaxInstances = 1
  Fragile = {}
  Orders = {o1}
  PieceIds = {p1}
  Pieces = {p1}
  Actions = {"post"}
  Bodies = {longBody, shortBody}
  Null = Null
  OrderSpecs = {}
  DailyCaps <- NoCaps
  Windows <- AnyHour
  MinutesPerDay = 1
  MaxDays = 1
  MaxAttempts = 1
  MaxExports = 1
  Keys = {k1}
  Rules = {r1}
  RequiredRules <- EveryRule
  Links = {long, short}
  Mentions <- Substrings
  MaxReleases = 1
  long = long
  short = short
  longBody = longBody
  shortBody = shortBody
  otherBody = otherBody
SYMMETRY Symmetry
PROPERTY PublishedIsFinal
