SPECIFICATION GatewaySpec
CONSTANTS
  Projects = {a,b}
  Sessions = {s1}
  Calls = {c1,c2}
  Resources <- OnlyBrand
  Elsewhere = {}
  MaxLog = 0
  brand = brand
  claims = claims
SYMMETRY Symmetry
PROPERTY SwitchSticks
