SPECIFICATION StudioSpec
CONSTANTS
  Pieces = {p1,p2}
  Docs <- Reachable
  Kits <- SeededAndGlowing
  SeedKit <- Seeded
  Blocked <- Refused
  Exports = {e1}
  MaxSlides = 2
  SlideCount <- CountOfEach
  MaxVersions = 2
  MaxKits = 3
  Crashes = TRUE
  ColorTokens <- Colours
  FontTokens = {"font.display", "font.body"}
  HexColors <- Hexes
  Families = {"Arial"}
  IllNamed = {"font.Display"}
  Junk = {"none"}
  Starters <- OnlyCollage
  Batches <- SomeBatches
  Prompts = {coined, reworded}
  NoPrompt = "unprompted"
  MaxRows = 5
  coined = coined
  reworded = reworded
SYMMETRY Symmetry
INVARIANT ApprovedRenderingIsClean
INVARIANT FlagIsExact
INVARIANT BundlesAreCleanRenderings
INVARIANT ApprovedPaintsFromKit
INVARIANT OverflowIsReported
INVARIANT AttachedImageIsItsOwn
PROPERTY ApprovedRenderingStands
CHECK_DEADLOCK FALSE
