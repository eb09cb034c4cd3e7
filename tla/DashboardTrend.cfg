\* One trend key that a page keeps asking for: a fault, a restart, slow writes.
SPECIFICATION FairSpec
CONSTANTS
  ka = ka
  kb = kb
  kc = kc
  kd = kd
  r1 = r1
  r2 = r2
  p1 = p1
  p2 = p2
  None = None
  Waiting = Waiting
  Keys = {ka}
  Trend = {ka}
  Dims <- OneKey
  Procs = {p1}
  Requests = {r1}
  Host <- SoloHost
  MemTtl = 1
  TableTtl = 1
  SnapTtl = 1
  Near = 0
  MaxStale = 2
  SnapshotOn = TRUE
  WriteDelay = 1
  MaxNow = 2
  MaxFaults = 1
  MaxRestarts = 1
INVARIANTS
  TypeOK
  OneRefreshPerKey
  RowsAreYoung
PROPERTIES
  PendingEnds
CONSTRAINT FewWrites
