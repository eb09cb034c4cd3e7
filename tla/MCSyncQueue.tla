----------------------------- MODULE MCSyncQueue -----------------------------
(***************************************************************************)
(* Instances of SyncQueue for TLC. The workers are w1 and w2; ticks, manual *)
(* requests and processes are chosen per run.                              *)
(***************************************************************************)
EXTENDS SyncQueue, TLC

CONSTANTS w1, w2, t1, t2, m1, p1, p2

\* One process runs everything (prod: SYNC_WORKER_CONCURRENCY loops, one api).
OneProcess == [x \in Workers \cup Callers |-> p1]

\* Two processes: PM2_API_INSTANCES > 1 (or the queue next to the main process).
TwoProcesses == [x \in Workers \cup Callers |-> IF x \in {w2, t2, m1} THEN p2 ELSE p1]

\* Sound where both workers run in one process: no property names a worker.
WorkerSymmetry == Permutations(Workers)

==============================================================================
