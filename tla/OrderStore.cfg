\* Two pulls of two tenants' shops that connect one platform shop.
SPECIFICATION Spec
CONSTANTS
  o1 = o1
  o2 = o2
  s1 = s1
  s2 = s2
  p1 = p1
  p2 = p2
  None = None
  Orders = {o1, o2}
  Shops = {s1, s2}
  Pulls = {p1, p2}
  Lines <- TwoVersions
  PaidFrom = 2
  Locked = TRUE
  DayLen = 2
  Window = 1
  PageLimit = 2
  MaxNow = 2
  MaxChanges = 2
  MaxFaults = 1
INVARIANTS
  TypeOK
  LinesFollowRows
  PullIsStored
  RebuiltAgrees
PROPERTIES
  RowsGrow
CONSTRAINT UntilReport
SYMMETRY Alike
CHECK_DEADLOCK FALSE
