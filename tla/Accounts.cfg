\* Two platform administrators, two accounts and one customer tenant.
\* Three requests, two at a time; then nothing more is asked.
SPECIFICATION Spec
CONSTANTS
  root1 = root1
  root2 = root2
  ann = ann
  ben = ben
  home = home
  acme = acme
  None = None
  Users = {root1, root2, ann, ben}
  Roots = {root1, root2}
  Tenants = {home, acme}
  Home = home
  HomeLimit = 2
  NewLimit = 2
  Limits = {1}
  r1 = r1
  r2 = r2
  Slots = {r1, r2}
  MaxRequests = 3
INVARIANTS
  TypeOK
  OwnerAndTenantAgree
  SomePlatformAdmin
PROPERTIES
  OverrunIsBounded
  AdminlessIsFlagged
  RenewedStaysOn
SYMMETRY Symmetry
CHECK_DEADLOCK FALSE
