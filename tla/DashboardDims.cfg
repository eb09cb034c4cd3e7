\* Two custom ranges of one trend, the same trend of another shop, and a plain
\* key, in the production setting without snapshots; two requests at a time.
SPECIFICATION Spec
CONSTANTS
  ka = ka
  kb = kb
  kc = kc
  kd = kd
  r1 = r1
  r2 = r2
  p1 = p1
  p2 = p2
  None = None
  Waiting = Waiting
  Keys = {ka, kb, kc, kd}
  Trend = {ka, kb, kc}
  Dims <- FourKeys
  Procs = {p1}
  Requests = {r1, r2}
  Host <- BothHost
  MemTtl = 1
  TableTtl = 1
  SnapTtl = 1
  Near = 0
  MaxStale = 2
  SnapshotOn = FALSE
  WriteDelay = 0
  MaxNow = 0
  MaxFaults = 0
  MaxRestarts = 0
INVARIANTS
  DimsAreKept
  BorrowedIsReplaced
CONSTRAINT FewUnderWay
SYMMETRY RequestSymmetry
