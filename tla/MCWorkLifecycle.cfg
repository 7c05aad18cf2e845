SPECIFICATION WorkSpec
CONSTANTS
  Slots = {}
  Items = {}
  MaxInstances = 0
  Fragile = {o2}
  Orders = {o1, o2}
  PieceIds = {p1, p2}
  Pieces = {p1}
  Actions = {}
  Bodies = {b1}
  Null = Null
  OrderSpecs <- LooseSpecs
  DailyCaps <- NoCaps
  Windows <- AnyHour
  MinutesPerDay = 1
  MaxDays = 1
  MaxAttempts = 2
SYMMETRY Symmetry
INVARIANT OneProofPerAttempt
INVARIANT AttemptsAreSettled
INVARIANT CompletedOnProof
PROPERTY ImplementsFate
