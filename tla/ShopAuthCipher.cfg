\* A token is refreshed.
SPECIFICATION Spec
CONSTANTS
  a1 = a1
  r1 = r1
  a2 = a2
  b1 = b1
  e1 = e1
  NoShop = NoShop
  Shops = {s1}
  Admitters = {a1}
  Refreshers = {r1}
  Backfillers = {}
  Editors = {}
  Limit = 1
  JsonObjects = TRUE
  MaxIssued = 2
PROPERTIES
  CipherIsKept
