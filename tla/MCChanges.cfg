SPECIFICATION ProjectChangesSpec
CONSTANTS
  Projects = {a}
  Sessions = {s1}
  Calls = {c1,c2}
  Resources <- OnlyBrand
  Elsewhere = {"claims"}
  MaxLog = 1
  Fields <- BrandFields
  ClaimIds = {}
  Values <- BrandValues
  ChangeSets = {reword, claim}
  Operations <- OperationsOf
  reword = reword
  PolicyOf <- FieldsOfBrand
  Contents <- Brands
SYMMETRY Symmetry
INVARIANT MixedRevisionIsFlagged
INVARIANT DiffIsWhatLands
PROPERTY ImplementsSingleUse
