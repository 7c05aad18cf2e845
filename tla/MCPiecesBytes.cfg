SPECIFICATION PieceLifecycleSpec
CONSTANTS
  Pieces = {p1}
  Docs = {plain, drafty}
  Kits = {light, dark}
  SeedKit = light
  Blocked <- NeedsDark
  Exports = {e1,e2}
  MaxSlides = 2
  SlideCount <- Uneven
  MaxVersions = 1
  MaxKits = 2
  Crashes = FALSE
  plain = plain
  drafty = drafty
  light = light
  dark = dark
SYMMETRY Symmetry
INVARIANT BundleKeepsItsBytes
CHECK_DEADLOCK FALSE
