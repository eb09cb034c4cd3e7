\* Any two requests at a time.
SPECIFICATION Spec
CONSTANTS
  a1 = a1
  r1 = r1
  a2 = a2
  b1 = b1
  e1 = e1
  NoShop = NoShop
  Shops = {s1, s2}
  Admitters = {a1, a2}
  Refreshers = {r1}
  Backfillers = {b1}
  Editors = {e1}
  Limit = 1
  JsonObjects = TRUE
  MaxIssued = 3
INVARIANTS
  TypeOK
  LimitHolds
  PairsAreWhole
PROPERTIES
  SecondRowIsRaced
CONSTRAINT Small
SYMMETRY ShopSymmetry
