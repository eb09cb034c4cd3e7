\* One scheduler tick at a time is the only enqueuer; no statement fails; one
\* of the two processes may crash.
SPECIFICATION FairSpec
CONSTANTS
  w1 = w1
  w2 = w2
  t1 = t1
  t2 = t2
  m1 = m1
  p1 = p1
  p2 = p2
  NoShop = NoShop
  Shops = {s1}
  Workers = {w1, w2}
  Ticks = {t1}
  Manuals = {}
  Procs = {p1, p2}
  Host <- TwoProcesses
  MaxJobs = 3
  MaxAttempts = 2
  RetryEnabled = TRUE
  LockCoversSync = TRUE
  OtherSyncPaths = FALSE
  MaxFaults = 0
  MaxCrashes = 1
INVARIANTS
  TypeOK
  OnePullPerShop
PROPERTIES
  LocksAreReclaimed
