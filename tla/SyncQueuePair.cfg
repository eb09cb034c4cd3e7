\* Two workers, a tick and a manual request that race to enqueue one shop; the
\* lock outlasts a sync. No faults, no crashes.
SPECIFICATION FairSpec
CONSTANTS
  w1 = w1
  w2 = w2
  t1 = t1
  t2 = t2
  m1 = m1
  p1 = p1
  p2 = p2
  NoShop = NoShop
  Shops = {s1}
  Workers = {w1, w2}
  Ticks = {t1}
  Manuals = {m1}
  Procs = {p1}
  Host <- OneProcess
  MaxJobs = 2
  MaxAttempts = 2
  RetryEnabled = TRUE
  LockCoversSync = TRUE
  OtherSyncPaths = FALSE
  MaxFaults = 0
  MaxCrashes = 0
PROPERTIES
  OnlyWorkersTakeLocks
  EveryJobEnds
