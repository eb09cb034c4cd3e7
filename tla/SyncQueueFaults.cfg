\* Two failed statements and a crash, at any point.
SPECIFICATION Spec
CONSTANTS
  w1 = w1
  w2 = w2
  t1 = t1
  t2 = t2
  m1 = m1
  p1 = p1
  p2 = p2
  NoShop = NoShop
  Shops = {s1}
  Workers = {w1, w2}
  Ticks = {t1}
  Manuals = {}
  Procs = {p1}
  Host <- OneProcess
  MaxJobs = 2
  MaxAttempts = 2
  RetryEnabled = TRUE
  LockCoversSync = TRUE
  OtherSyncPaths = FALSE
  MaxFaults = 2
  MaxCrashes = 1
INVARIANTS
  OneWorkerPerJob
  RunCountsOnce
  DisabledMeansExhausted
PROPERTIES
  ImplementsBoard
SYMMETRY WorkerSymmetry
