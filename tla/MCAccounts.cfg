SPECIFICATION AccountsSpec
CONSTANTS
  Slots = {s1, s2}
  Items = {profile, signoff}
  MaxInstances = 3
  Fragile = {s2}
SYMMETRY Symmetry
INVARIANT StatusMatchesInstances
INVARIANT ReadyIsEarned
INVARIANT ReplacementChain
