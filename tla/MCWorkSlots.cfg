SPECIFICATION WorkSpec
CONSTANTS
  Slots = {s1}
  Items = {signoff}
  MaxInstances = 2
  Fragile = {}
  Orders = {o1, o2}
  PieceIds = {}
  Pieces = {}
  Actions = {post}
  Bodies = {b1}
  Null = Null
  OrderSpecs <- CappedSpecs
  DailyCaps <- OneADay
  Windows <- Backwards
  MinutesPerDay = 2
  MaxDays = 2
  MaxAttempts = 2
SYMMETRY Symmetry
INVARIANT DailyCapHolds
PROPERTY LossQueuesReplacement
PROPERTY ImplementsAccounts
PROPERTY PausedSlotHandsOutNothing
