SPECIFICATION ExperimentsSpec
CONSTANTS
  Keys = {1, 2}
  Orders = {o1, o2, o3, hand}
  Claims = {"controlled_experiment", "anecdote"}
  HandMade <- OnePoint
  Experiments = {e1, e2}
  Points = {1, 2, 3, 4}
  experimentOf <- Declares
  Fits = {1, 2, 3}
  Metrics = {saves}
  primaryMetric <- EverySaves
  sampleTarget <- FirstNeedsTwo
  sameProject <- AllButOnePair
  Fragile = {2}
  Null = Null
  hand = hand
  e1 = e1
  e2 = e2
  saves = saves
SYMMETRY Symmetry
INVARIANT BookedOnce
INVARIANT BookedWhenVerified
INVARIANT ReadingsArePlaced
INVARIANT CompletedIsFiled
INVARIANT ConclusionIsBacked
PROPERTY ConcludedIsFinal
