SPECIFICATION FairChangesSpec
CONSTANTS
  Projects = {a,b}
  Sessions = {s1}
  Calls = {c1}
  Resources <- NoResource
  Elsewhere = {"brand"}
  MaxLog = 1
  Fields <- BrandFields
  ClaimIds = {}
  Values <- BrandValues
  ChangeSets = {reword}
  Operations <- OperationsOf
  reword = reword
  PolicyOf <- FieldsOfBrand
  Contents <- Brands
INVARIANT WritesAreApproved
PROPERTY CallsEnd
