--------------------------- MODULE SyncQueueProofs ---------------------------
(***************************************************************************)
(* Proofs about SyncQueue, for every number of shops, workers, callers,    *)
(* jobs, faults and crashes.                                               *)
(***************************************************************************)
EXTENDS SyncQueue, TLAPS

\* Until the first outcome is written, the job a worker claimed is running.
BeforeOutcome == {"claimed", "requeue", "locked", "resolving", "fetching", "done1"}

\* A worker's hand is empty exactly between turns.
HandsOK == \A w \in Workers : wjob[w] = NoJob <=> pc[w] = "idle"

\* A job in retry_wait cannot be claimed before its timer has passed.
Waiting(j) == jstatus[j] = "retry_wait" /\ retryAt[j] = "future"

\* What the table says of a job in some worker's hands: never that it may be
\* claimed, except while the claim's transaction has its row locked.
HeldOK ==
  \A w \in Workers :
    /\ pc[w] = "selected" => jstatus[wjob[w]] \in {"queued", "retry_wait"}
    /\ pc[w] \in BeforeOutcome => jstatus[wjob[w]] = "running"
    /\ HasClaim(w) => \/ jstatus[wjob[w]] \in Finished \cup {"running"}
                      \/ Waiting(wjob[w])

\* The attempts of a job that is not over leave room for one more, and so did
\* the count its holder read.
AttemptsOK ==
  /\ \A j \in JobIds : jstatus[j] \in Active => attempts[j] < MaxAttempts
  /\ \A w \in Workers : pc[w] # "idle" => wattempt[w] < MaxAttempts
  /\ \A w \in Workers : pc[w] \in BeforeOutcome \cup {"selected", "done2"} =>
       attempts[wjob[w]] = wattempt[w]

\* Rows not inserted yet.
FreshOK == \A j \in JobIds : j > lastId => jstatus[j] = "absent" /\ attempts[j] = 0

Core == HandsOK /\ OneWorkerPerJob /\ HeldOK /\ AttemptsOK /\ RunCountsOnce /\ FreshOK

\* The inductive invariant.
IInv == TypeOK /\ Core

USE DEF JobIds, NoJob, jobVars, rowVars, workerVars, callerVars, envVars

------------------------------------------------------------------------------
(* Type correctness. FailureJob is the one step that needs more than types:  *)
(* the attempt it writes stays within MaxAttempts.                           *)

\* The three columns that a failure patches keep their types.
LEMMA PatchTypes ==
  ASSUME NEW w \in Workers, TypeOK, PatchFailed(w)
  PROVE  RowTypeOK'
<1>1. isStaleCipherSyncFailure(wfail[w]) \subseteq BOOLEAN
  BY DEF TypeOK, WorkerTypeOK, Failures, isStaleCipherSyncFailure
<1>2. cipherError' \in [Shops -> BOOLEAN]
  <2>1. PICK b \in BOOLEAN : cipherError' = [cipherError EXCEPT ![WorkerShop(w)] = b]
    BY <1>1 DEF PatchFailed
  <2>q. QED  BY <2>1 DEF TypeOK, RowTypeOK
<1>3. row' \in [Shops -> RowStatuses]
  <2>1. FailureRowStatus(w) \in RowStatuses
    BY DEF FailureRowStatus, RowStatuses
  <2>q. QED  BY <2>1 DEF PatchFailed, TypeOK, RowTypeOK
<1>q. QED  BY <1>2, <1>3 DEF PatchFailed, TypeOK, RowTypeOK

LEMMA WorkerTypes ==
  ASSUME NEW w \in Workers, IInv, WorkerStep(w) \/ WorkerThrows(w)
  PROVE  TypeOK'
<1> USE DEF IInv, TypeOK
<1>1. ASSUME ClaimSelect(w) PROVE TypeOK'
  <2>1. WorkerTypeOK'
    BY <1>1, NumbersAssumption, SetsAssumption DEF WorkerTypeOK, WorkerPCs, Failures, JobTypeOK, ClaimSelect, Visible, Claimable, RowLocked
  <2>2. JobTypeOK' /\ RowTypeOK' /\ CallerTypeOK' /\ EnvTypeOK'
    BY <1>1 DEF JobTypeOK, RowTypeOK, CallerTypeOK, EnvTypeOK, ClaimSelect, Visible, Claimable, RowLocked
  <2>q. QED  BY <2>1, <2>2 DEF TypeOK
<1>2. ASSUME ClaimCommit(w) PROVE TypeOK'
  <2>1. JobTypeOK'
    BY <1>2, NumbersAssumption, SetsAssumption DEF JobTypeOK, JobStatuses, ClaimCommit
  <2>2. WorkerTypeOK'
    BY <1>2, NumbersAssumption, SetsAssumption DEF WorkerTypeOK, WorkerPCs, Failures, ClaimCommit
  <2>3. RowTypeOK' /\ CallerTypeOK' /\ EnvTypeOK'
    BY <1>2 DEF RowTypeOK, CallerTypeOK, EnvTypeOK, ClaimCommit
  <2>q. QED  BY <2>1, <2>2, <2>3 DEF TypeOK
<1>3. ASSUME acquireShopSyncLock(w) PROVE TypeOK'
  <2>1. RowTypeOK'
    BY <1>3, NumbersAssumption, SetsAssumption DEF RowTypeOK, RowStatuses, WorkerTypeOK, acquireShopSyncLock, LockRefused
  <2>2. WorkerTypeOK'
    BY <1>3, NumbersAssumption, SetsAssumption DEF WorkerTypeOK, WorkerPCs, Failures, acquireShopSyncLock, LockRefused
  <2>3. JobTypeOK' /\ CallerTypeOK' /\ EnvTypeOK'
    BY <1>3 DEF JobTypeOK, CallerTypeOK, EnvTypeOK, acquireShopSyncLock, LockRefused
  <2>q. QED  BY <2>1, <2>2, <2>3 DEF TypeOK
<1>4. ASSUME Requeue(w) PROVE TypeOK'
  <2>1. JobTypeOK'
    BY <1>4, NumbersAssumption, SetsAssumption DEF JobTypeOK, JobStatuses, Requeue, TurnOver
  <2>2. WorkerTypeOK'
    BY <1>4, NumbersAssumption, SetsAssumption DEF WorkerTypeOK, WorkerPCs, Failures, Requeue, TurnOver
  <2>3. RowTypeOK' /\ CallerTypeOK' /\ EnvTypeOK'
    BY <1>4 DEF RowTypeOK, CallerTypeOK, EnvTypeOK, Requeue, TurnOver
  <2>q. QED  BY <2>1, <2>2, <2>3 DEF TypeOK
<1>5. ASSUME MarkSyncing(w) PROVE TypeOK'
  <2>1. RowTypeOK'
    BY <1>5, NumbersAssumption, SetsAssumption DEF RowTypeOK, RowStatuses, WorkerTypeOK, MarkSyncing
  <2>2. WorkerTypeOK'
    BY <1>5, NumbersAssumption, SetsAssumption DEF WorkerTypeOK, WorkerPCs, Failures, MarkSyncing
  <2>3. JobTypeOK' /\ CallerTypeOK' /\ EnvTypeOK'
    BY <1>5 DEF JobTypeOK, CallerTypeOK, EnvTypeOK, MarkSyncing
  <2>q. QED  BY <2>1, <2>2, <2>3 DEF TypeOK
<1>6. ASSUME ResolveShop(w) PROVE TypeOK'
  <2>1. WorkerTypeOK'
    BY <1>6, NumbersAssumption, SetsAssumption DEF WorkerTypeOK, WorkerPCs, Failures, ResolveShop, GoFail
  <2>2. JobTypeOK' /\ RowTypeOK' /\ CallerTypeOK' /\ EnvTypeOK'
    BY <1>6 DEF JobTypeOK, RowTypeOK, CallerTypeOK, EnvTypeOK, ResolveShop, GoFail
  <2>q. QED  BY <2>1, <2>2 DEF TypeOK
<1>7. ASSUME FetchOk(w) PROVE TypeOK'
  <2>1. RowTypeOK'
    BY <1>7, NumbersAssumption, SetsAssumption DEF RowTypeOK, RowStatuses, FetchOk, VerifiedHealthy
  <2>2. WorkerTypeOK'
    BY <1>7, NumbersAssumption, SetsAssumption DEF WorkerTypeOK, WorkerPCs, Failures, FetchOk, VerifiedHealthy
  <2>3. JobTypeOK' /\ CallerTypeOK' /\ EnvTypeOK'
    BY <1>7 DEF JobTypeOK, CallerTypeOK, EnvTypeOK, FetchOk, VerifiedHealthy
  <2>q. QED  BY <2>1, <2>2, <2>3 DEF TypeOK
<1>8. ASSUME FetchFails(w) PROVE TypeOK'
  <2>1. WorkerTypeOK'
    BY <1>8, NumbersAssumption, SetsAssumption DEF WorkerTypeOK, WorkerPCs, Failures, FetchFails, GoFail
  <2>2. JobTypeOK' /\ CallerTypeOK' /\ EnvTypeOK'
    BY <1>8 DEF JobTypeOK, CallerTypeOK, EnvTypeOK, FetchFails, GoFail
  <2>3. RowTypeOK'
    BY <1>8 DEF RowTypeOK, RowStatuses, FetchFails, GoFail, VerifiedHealthy
  <2>q. QED  BY <2>1, <2>2, <2>3 DEF TypeOK
<1>9. ASSUME SuccessJob(w) PROVE TypeOK'
  <2>1. JobTypeOK'
    BY <1>9, NumbersAssumption, SetsAssumption DEF JobTypeOK, JobStatuses, SuccessJob
  <2>2. WorkerTypeOK'
    BY <1>9, NumbersAssumption, SetsAssumption DEF WorkerTypeOK, WorkerPCs, Failures, SuccessJob
  <2>3. RowTypeOK' /\ CallerTypeOK' /\ EnvTypeOK'
    BY <1>9 DEF RowTypeOK, CallerTypeOK, EnvTypeOK, SuccessJob
  <2>q. QED  BY <2>1, <2>2, <2>3 DEF TypeOK
<1>10. ASSUME SuccessRow(w) PROVE TypeOK'
  <2>1. RowTypeOK'
    BY <1>10, NumbersAssumption, SetsAssumption DEF RowTypeOK, RowStatuses, SuccessRow, VerifiedHealthy
  <2>2. WorkerTypeOK'
    BY <1>10, NumbersAssumption, SetsAssumption DEF WorkerTypeOK, WorkerPCs, Failures, SuccessRow, VerifiedHealthy
  <2>3. JobTypeOK' /\ CallerTypeOK' /\ EnvTypeOK'
    BY <1>10 DEF JobTypeOK, CallerTypeOK, EnvTypeOK, SuccessRow, VerifiedHealthy
  <2>q. QED  BY <2>1, <2>2, <2>3 DEF TypeOK
<1>11. ASSUME FailureJob(w) PROVE TypeOK'
  <2>1. JobTypeOK'
    <3>1. Attempt(w) \in 0..MaxAttempts
      BY <1>11, NumbersAssumption DEF WorkerTypeOK, Core, AttemptsOK, FailureJob, Attempt
    <3>2. QED  BY <1>11, <3>1 DEF JobTypeOK, JobStatuses, FailureJob
  <2>2. WorkerTypeOK'
    BY <1>11, NumbersAssumption, SetsAssumption DEF WorkerTypeOK, WorkerPCs, Failures, FailureJob, Attempt, Retries
  <2>3. RowTypeOK' /\ CallerTypeOK' /\ EnvTypeOK'
    BY <1>11 DEF RowTypeOK, CallerTypeOK, EnvTypeOK, FailureJob, Attempt, Retries
  <2>q. QED  BY <2>1, <2>2, <2>3 DEF TypeOK
<1>12. ASSUME FailureRow(w) PROVE TypeOK'
  <2>1. RowTypeOK'
    BY <1>12, PatchTypes DEF FailureRow
  <2>2. WorkerTypeOK'
    BY <1>12, NumbersAssumption, SetsAssumption DEF WorkerTypeOK, WorkerPCs, Failures, FailureRow, FailureRowStatus
  <2>3. JobTypeOK' /\ CallerTypeOK' /\ EnvTypeOK'
    BY <1>12 DEF JobTypeOK, CallerTypeOK, EnvTypeOK, FailureRow, FailureRowStatus
  <2>q. QED  BY <2>1, <2>2, <2>3 DEF TypeOK
<1>13. ASSUME releaseShopSyncLock(w) PROVE TypeOK'
  <2>1. RowTypeOK'
    BY <1>13, NumbersAssumption, SetsAssumption DEF RowTypeOK, RowStatuses, releaseShopSyncLock, TurnOver
  <2>2. WorkerTypeOK'
    BY <1>13, NumbersAssumption, SetsAssumption DEF WorkerTypeOK, WorkerPCs, Failures, releaseShopSyncLock, TurnOver
  <2>3. JobTypeOK' /\ CallerTypeOK' /\ EnvTypeOK'
    BY <1>13 DEF JobTypeOK, CallerTypeOK, EnvTypeOK, releaseShopSyncLock, TurnOver
  <2>q. QED  BY <2>1, <2>2, <2>3 DEF TypeOK
<1>14. ASSUME ThrowOutOfTurn(w) PROVE TypeOK'
  <2>1. WorkerTypeOK'
    BY <1>14, NumbersAssumption, SetsAssumption DEF WorkerTypeOK, WorkerPCs, Failures, ThrowOutOfTurn, TurnOver, StatementFails
  <2>2. EnvTypeOK'
    BY <1>14, NumbersAssumption, SetsAssumption DEF EnvTypeOK, ThrowOutOfTurn, TurnOver, StatementFails
  <2>3. JobTypeOK' /\ RowTypeOK' /\ CallerTypeOK'
    BY <1>14 DEF JobTypeOK, RowTypeOK, CallerTypeOK, ThrowOutOfTurn, TurnOver, StatementFails
  <2>q. QED  BY <2>1, <2>2, <2>3 DEF TypeOK
<1>15. ASSUME ThrowIntoCatch(w) PROVE TypeOK'
  <2>1. RowTypeOK'
    <3>1. CASE UNCHANGED rowVars
      BY <3>1 DEF RowTypeOK, rowVars
    <3>2. CASE VerifiedHealthy(WorkerShop(w))
      BY <3>2 DEF RowTypeOK, RowStatuses, VerifiedHealthy
    <3>3. CASE PatchFailed(w)
      BY <3>3, PatchTypes
    <3>q. QED  BY <1>15, <3>1, <3>2, <3>3 DEF ThrowIntoCatch
  <2>2. WorkerTypeOK'
    BY <1>15, NumbersAssumption, SetsAssumption DEF WorkerTypeOK, WorkerPCs, Failures, ThrowIntoCatch, GoFail, StatementFails, VerifiedHealthy, FailureRowStatus
  <2>3. EnvTypeOK'
    BY <1>15, NumbersAssumption, SetsAssumption DEF EnvTypeOK, ThrowIntoCatch, GoFail, StatementFails, VerifiedHealthy, FailureRowStatus
  <2>4. JobTypeOK' /\ CallerTypeOK'
    BY <1>15 DEF JobTypeOK, CallerTypeOK, ThrowIntoCatch, GoFail, StatementFails, VerifiedHealthy, FailureRowStatus
  <2>q. QED  BY <2>1, <2>2, <2>3, <2>4 DEF TypeOK
<1>16. ASSUME ThrowInCatch(w) PROVE TypeOK'
  <2>1. WorkerTypeOK'
    BY <1>16, NumbersAssumption, SetsAssumption DEF WorkerTypeOK, WorkerPCs, Failures, ThrowInCatch, StatementFails
  <2>2. EnvTypeOK'
    BY <1>16, NumbersAssumption, SetsAssumption DEF EnvTypeOK, ThrowInCatch, StatementFails
  <2>3. JobTypeOK' /\ RowTypeOK' /\ CallerTypeOK'
    BY <1>16 DEF JobTypeOK, RowTypeOK, CallerTypeOK, ThrowInCatch, StatementFails
  <2>q. QED  BY <2>1, <2>2, <2>3 DEF TypeOK
<1>17. QED
  BY <1>1, <1>2, <1>3, <1>4, <1>5, <1>6, <1>7, <1>8, <1>9, <1>10, <1>11, <1>12, <1>13, <1>14, <1>15, <1>16 DEF WorkerStep, WorkerThrows

LEMMA TickTypes ==
  ASSUME NEW t \in Ticks, IInv, TickStep(t)
  PROVE  TypeOK'
<1> USE DEF IInv, TypeOK
<1>1. ASSUME TickStart(t) PROVE TypeOK'
  <2>1. RowTypeOK'
    BY <1>1, NumbersAssumption, SetsAssumption DEF RowTypeOK, RowStatuses, TickStart, releaseExpiredLocks
  <2>2. CallerTypeOK'
    BY <1>1, NumbersAssumption, SetsAssumption DEF CallerTypeOK, CallerPCs, Callers, TickStart, releaseExpiredLocks
  <2>3. EnvTypeOK'
    BY <1>1, NumbersAssumption, SetsAssumption DEF EnvTypeOK, TickStart, releaseExpiredLocks
  <2>4. JobTypeOK' /\ WorkerTypeOK'
    BY <1>1 DEF JobTypeOK, WorkerTypeOK, TickStart, releaseExpiredLocks
  <2>q. QED  BY <2>1, <2>2, <2>3, <2>4 DEF TypeOK
<1>2. ASSUME RecoverRead(t) PROVE TypeOK'
  <2>1. CallerTypeOK'
    BY <1>2, NumbersAssumption, SetsAssumption DEF CallerTypeOK, CallerPCs, Callers, RecoverRead
  <2>2. JobTypeOK' /\ RowTypeOK' /\ WorkerTypeOK' /\ EnvTypeOK'
    BY <1>2 DEF JobTypeOK, RowTypeOK, WorkerTypeOK, EnvTypeOK, RecoverRead
  <2>q. QED  BY <2>1, <2>2 DEF TypeOK
<1>3. ASSUME RecoverPatch(t) PROVE TypeOK'
  <2>1. RowTypeOK'
    BY <1>3, NumbersAssumption, SetsAssumption DEF RowTypeOK, RowStatuses, RecoverPatch
  <2>2. CallerTypeOK'
    BY <1>3, NumbersAssumption, SetsAssumption DEF CallerTypeOK, CallerPCs, Callers, RecoverPatch
  <2>3. JobTypeOK' /\ WorkerTypeOK' /\ EnvTypeOK'
    BY <1>3 DEF JobTypeOK, WorkerTypeOK, EnvTypeOK, RecoverPatch
  <2>q. QED  BY <2>1, <2>2, <2>3 DEF TypeOK
<1>4. ASSUME RecoverEnd(t) PROVE TypeOK'
  <2>1. CallerTypeOK'
    BY <1>4, NumbersAssumption, SetsAssumption DEF CallerTypeOK, CallerPCs, Callers, RecoverEnd, StatementFails
  <2>2. EnvTypeOK'
    BY <1>4, NumbersAssumption, SetsAssumption DEF EnvTypeOK, RecoverEnd, StatementFails
  <2>3. JobTypeOK' /\ RowTypeOK' /\ WorkerTypeOK'
    BY <1>4 DEF JobTypeOK, RowTypeOK, WorkerTypeOK, RecoverEnd, StatementFails
  <2>q. QED  BY <2>1, <2>2, <2>3 DEF TypeOK
<1>5. ASSUME TickLoad(t) PROVE TypeOK'
  <2>1. CallerTypeOK'
    BY <1>5, NumbersAssumption, SetsAssumption DEF CallerTypeOK, CallerPCs, Callers, TickLoad
  <2>2. JobTypeOK' /\ RowTypeOK' /\ WorkerTypeOK' /\ EnvTypeOK'
    BY <1>5 DEF JobTypeOK, RowTypeOK, WorkerTypeOK, EnvTypeOK, TickLoad
  <2>q. QED  BY <2>1, <2>2 DEF TypeOK
<1>6. ASSUME TickScan(t) PROVE TypeOK'
  <2>1. CallerTypeOK'
    BY <1>6, NumbersAssumption, SetsAssumption DEF CallerTypeOK, CallerPCs, Callers, TickScan
  <2>2. JobTypeOK' /\ RowTypeOK' /\ WorkerTypeOK' /\ EnvTypeOK'
    BY <1>6 DEF JobTypeOK, RowTypeOK, WorkerTypeOK, EnvTypeOK, TickScan
  <2>q. QED  BY <2>1, <2>2 DEF TypeOK
<1>7. ASSUME TickEnd(t) PROVE TypeOK'
  <2>1. CallerTypeOK'
    BY <1>7, NumbersAssumption, SetsAssumption DEF CallerTypeOK, CallerPCs, Callers, TickEnd
  <2>2. JobTypeOK' /\ RowTypeOK' /\ WorkerTypeOK' /\ EnvTypeOK'
    BY <1>7 DEF JobTypeOK, RowTypeOK, WorkerTypeOK, EnvTypeOK, TickEnd
  <2>q. QED  BY <2>1, <2>2 DEF TypeOK
<1>8. QED
  BY <1>1, <1>2, <1>3, <1>4, <1>5, <1>6, <1>7 DEF TickStep

LEMMA EnqueueTypes ==
  ASSUME NEW c \in Callers, IInv, EnqueueStep(c)
  PROVE  TypeOK'
<1> USE DEF IInv, TypeOK
<1>1. ASSUME EnqueueCheck(c) PROVE TypeOK'
  <2>1. CallerTypeOK'
    BY <1>1, NumbersAssumption, SetsAssumption DEF CallerTypeOK, CallerPCs, Callers, EnqueueCheck, AfterEnqueue
  <2>2. JobTypeOK' /\ RowTypeOK' /\ WorkerTypeOK' /\ EnvTypeOK'
    BY <1>1 DEF JobTypeOK, RowTypeOK, WorkerTypeOK, EnvTypeOK, EnqueueCheck, AfterEnqueue
  <2>q. QED  BY <2>1, <2>2 DEF TypeOK
<1>2. ASSUME EnqueueInsert(c) PROVE TypeOK'
  <2>1. JobTypeOK'
    BY <1>2, NumbersAssumption, SetsAssumption DEF JobTypeOK, JobStatuses, CallerTypeOK, EnqueueInsert, AfterEnqueue
  <2>2. CallerTypeOK'
    BY <1>2, NumbersAssumption, SetsAssumption DEF CallerTypeOK, CallerPCs, Callers, EnqueueInsert, AfterEnqueue
  <2>3. RowTypeOK' /\ WorkerTypeOK' /\ EnvTypeOK'
    BY <1>2 DEF RowTypeOK, WorkerTypeOK, EnvTypeOK, EnqueueInsert, AfterEnqueue
  <2>q. QED  BY <2>1, <2>2, <2>3 DEF TypeOK
<1>3. ASSUME CallerFails(c) PROVE TypeOK'
  <2>1. CallerTypeOK'
    BY <1>3, NumbersAssumption, SetsAssumption DEF CallerTypeOK, CallerPCs, Callers, CallerFails, StatementFails
  <2>2. EnvTypeOK'
    BY <1>3, NumbersAssumption, SetsAssumption DEF EnvTypeOK, CallerFails, StatementFails
  <2>3. JobTypeOK' /\ RowTypeOK' /\ WorkerTypeOK'
    BY <1>3 DEF JobTypeOK, RowTypeOK, WorkerTypeOK, CallerFails, StatementFails
  <2>q. QED  BY <2>1, <2>2, <2>3 DEF TypeOK
<1>4. QED
  BY <1>1, <1>2, <1>3 DEF EnqueueStep

------------------------------------------------------------------------------
(* The claim protocol: preservation of Core                                  *)

\* Steps that touch neither the job table nor a worker: every caller but the
\* one that inserts, and every other program.
LEMMA OthersKeepCore ==
  ASSUME IInv, UNCHANGED <<jobVars, workerVars>>
  PROVE  Core'
  BY DEF IInv, Core, HandsOK, OneWorkerPerJob, HeldOK, HasClaim, Waiting,
         AttemptsOK, RunCountsOnce, FreshOK

\* A worker with a claim moves on to q and leaves the job table alone. It may
\* not move back before an outcome it has written.
LEMMA MovingOnKeepsCore ==
  ASSUME IInv, NEW w \in Workers, NEW q \in WorkerPCs, HasClaim(w),
         pc' = [pc EXCEPT ![w] = q],
         UNCHANGED <<jobVars, wjob, wattempt>>,
         q \notin {"idle", "selected", "done2"},
         q \in BeforeOutcome => pc[w] \in BeforeOutcome
  PROVE  Core'
<1> USE DEF IInv, TypeOK, WorkerTypeOK, Core
<1>1. HandsOK' /\ OneWorkerPerJob' /\ FreshOK'
  BY DEF HandsOK, OneWorkerPerJob, FreshOK, HasClaim
<1>2. HeldOK'
  BY DEF HeldOK, HasClaim, Waiting
<1>3. AttemptsOK' /\ RunCountsOnce'
  BY DEF AttemptsOK, RunCountsOnce, HasClaim
<1>4. QED  BY <1>1, <1>2, <1>3

\* The workers of a set end their turn and the job table stays as it is.
LEMMA LettingGoKeepsCore ==
  ASSUME IInv, NEW G \in SUBSET Workers,
         pc' = [w \in Workers |-> IF w \in G THEN "idle" ELSE pc[w]],
         wjob' = [w \in Workers |-> IF w \in G THEN NoJob ELSE wjob[w]],
         wattempt' = [w \in Workers |-> IF w \in G THEN 0 ELSE wattempt[w]],
         UNCHANGED jobVars
  PROVE  Core'
<1> USE DEF IInv, TypeOK, WorkerTypeOK, Core
<1>1. HandsOK' /\ OneWorkerPerJob' /\ FreshOK'
  BY DEF HandsOK, OneWorkerPerJob, FreshOK
<1>2. HeldOK'
  BY DEF HeldOK, HasClaim, Waiting, BeforeOutcome
<1>3. AttemptsOK' /\ RunCountsOnce'
  BY DEF AttemptsOK, RunCountsOnce, BeforeOutcome
<1>4. QED  BY <1>1, <1>2, <1>3

\* A visible row is nobody's: its holder would have locked it, or made it
\* unclaimable.
LEMMA ClaimSelectKeepsCore ==
  ASSUME IInv, NEW w \in Workers, ClaimSelect(w)
  PROVE  Core'
<1> USE NumbersAssumption DEF IInv, TypeOK, JobTypeOK, WorkerTypeOK, Core, ClaimSelect, Visible, Claimable, RowLocked
<1>1. HandsOK' /\ FreshOK'
  BY DEF HandsOK, FreshOK, HeldOK, HasClaim, Waiting, BeforeOutcome, Finished
<1>2. OneWorkerPerJob'
  <2>1. PICK j \in JobIds : Visible(j) /\ wjob' = [wjob EXCEPT ![w] = j]
    BY DEF Visible
  <2>2. ASSUME NEW v \in Workers PROVE wjob[v] # j
    <3>1. CASE pc[v] = "idle"
      BY <3>1 DEF HandsOK
    <3>2. CASE pc[v] = "selected"
      BY <2>1, <3>2
    <3>3. CASE HasClaim(v)
      BY <2>1, <3>3 DEF HeldOK, Waiting, Finished
    <3>4. QED  BY <3>1, <3>2, <3>3 DEF HasClaim
  <2>3. QED  BY <2>1, <2>2 DEF OneWorkerPerJob
<1>3. HeldOK'
  BY DEF HandsOK, OneWorkerPerJob, HeldOK, HasClaim, Waiting, BeforeOutcome, FreshOK, Finished
<1>4. AttemptsOK' /\ RunCountsOnce'
  BY DEF HandsOK, OneWorkerPerJob, HeldOK, HasClaim, Waiting, BeforeOutcome,
         AttemptsOK, RunCountsOnce, FreshOK, Active, Finished
<1>5. QED  BY <1>1, <1>2, <1>3, <1>4

\* The row was locked, so nobody else has the job.
LEMMA ClaimCommitKeepsCore ==
  ASSUME IInv, NEW w \in Workers, ClaimCommit(w)
  PROVE  Core'
<1> USE NumbersAssumption DEF IInv, TypeOK, JobTypeOK, WorkerTypeOK, Core, ClaimCommit
<1>1. HandsOK' /\ FreshOK'
  BY DEF HandsOK, FreshOK, HeldOK, HasClaim, Waiting, BeforeOutcome, Finished
<1>2. OneWorkerPerJob'
  BY DEF HandsOK, OneWorkerPerJob, HeldOK, HasClaim, Waiting, Finished
<1>3. HeldOK'
  BY DEF HandsOK, OneWorkerPerJob, HeldOK, HasClaim, Waiting, BeforeOutcome, FreshOK, Finished
<1>4. AttemptsOK' /\ RunCountsOnce'
  BY DEF HandsOK, OneWorkerPerJob, HeldOK, HasClaim, Waiting, BeforeOutcome,
         AttemptsOK, RunCountsOnce, FreshOK, Active, Finished
<1>5. QED  BY <1>1, <1>2, <1>3, <1>4

\* The job returns as it was claimed.
LEMMA RequeueKeepsCore ==
  ASSUME IInv, NEW w \in Workers, Requeue(w)
  PROVE  Core'
<1> USE NumbersAssumption DEF IInv, TypeOK, JobTypeOK, WorkerTypeOK, Core, Requeue, TurnOver
<1>1. HandsOK' /\ FreshOK'
  BY DEF HandsOK, FreshOK, HeldOK, HasClaim, Waiting, BeforeOutcome, Finished
<1>2. OneWorkerPerJob'
  BY DEF HandsOK, OneWorkerPerJob, HeldOK, HasClaim, Waiting, Finished
<1>3. HeldOK'
  BY DEF HandsOK, OneWorkerPerJob, HeldOK, HasClaim, Waiting, BeforeOutcome, FreshOK, Finished
<1>4. AttemptsOK' /\ RunCountsOnce'
  BY DEF HandsOK, OneWorkerPerJob, HeldOK, HasClaim, Waiting, BeforeOutcome,
         AttemptsOK, RunCountsOnce, FreshOK, Active, Finished
<1>5. QED  BY <1>1, <1>2, <1>3, <1>4

\* The first write of a success.
LEMMA SuccessJobKeepsCore ==
  ASSUME IInv, NEW w \in Workers, SuccessJob(w)
  PROVE  Core'
<1> USE NumbersAssumption DEF IInv, TypeOK, JobTypeOK, WorkerTypeOK, Core, SuccessJob
<1>1. HandsOK' /\ FreshOK'
  BY DEF HandsOK, FreshOK, HeldOK, HasClaim, Waiting, BeforeOutcome, Finished
<1>2. OneWorkerPerJob'
  BY DEF HandsOK, OneWorkerPerJob, HeldOK, HasClaim, Waiting, Finished
<1>3. HeldOK'
  BY DEF HandsOK, OneWorkerPerJob, HeldOK, HasClaim, Waiting, BeforeOutcome, FreshOK, Finished
<1>4. AttemptsOK' /\ RunCountsOnce'
  BY DEF HandsOK, OneWorkerPerJob, HeldOK, HasClaim, Waiting, BeforeOutcome,
         AttemptsOK, RunCountsOnce, FreshOK, Active, Finished
<1>5. QED  BY <1>1, <1>2, <1>3, <1>4

\* The first write of a failure; in the catch block, a second one.
LEMMA FailureJobKeepsCore ==
  ASSUME IInv, NEW w \in Workers, FailureJob(w)
  PROVE  Core'
<1> USE NumbersAssumption DEF IInv, TypeOK, JobTypeOK, WorkerTypeOK, Core, FailureJob, Attempt, Retries
<1>1. HandsOK' /\ FreshOK'
  BY DEF HandsOK, FreshOK, HeldOK, HasClaim, Waiting, BeforeOutcome, Finished
<1>2. OneWorkerPerJob'
  BY DEF HandsOK, OneWorkerPerJob, HeldOK, HasClaim, Waiting, Finished
<1>3. HeldOK'
  BY SMTT(30) DEF HandsOK, OneWorkerPerJob, HeldOK, HasClaim, Waiting, BeforeOutcome, FreshOK, Finished
<1>4. AttemptsOK' /\ RunCountsOnce'
  BY DEF HandsOK, OneWorkerPerJob, HeldOK, HasClaim, Waiting, BeforeOutcome,
         AttemptsOK, RunCountsOnce, FreshOK, Active, Finished
<1>5. QED  BY <1>1, <1>2, <1>3, <1>4

\* A new row has an id nobody has seen.
LEMMA EnqueueInsertKeepsCore ==
  ASSUME IInv, NEW c \in Callers, EnqueueInsert(c)
  PROVE  Core'
<1> USE NumbersAssumption DEF IInv, TypeOK, JobTypeOK, WorkerTypeOK, Core, EnqueueInsert, AfterEnqueue
<1>1. HandsOK' /\ FreshOK'
  BY DEF HandsOK, FreshOK, HeldOK, HasClaim, Waiting, BeforeOutcome, Finished
<1>2. OneWorkerPerJob'
  BY DEF HandsOK, OneWorkerPerJob, HeldOK, HasClaim, Waiting, Finished
<1>3. HeldOK'
  BY DEF HandsOK, OneWorkerPerJob, HeldOK, HasClaim, Waiting, BeforeOutcome, FreshOK, Finished
<1>4. AttemptsOK' /\ RunCountsOnce'
  BY DEF HandsOK, OneWorkerPerJob, HeldOK, HasClaim, Waiting, BeforeOutcome,
         AttemptsOK, RunCountsOnce, FreshOK, Active, Finished
<1>5. QED  BY <1>1, <1>2, <1>3, <1>4

\* The timer passes only when the job is in nobody's hands.
LEMMA RetryDueKeepsCore ==
  ASSUME IInv, NEW j \in JobIds, RetryDue(j)
  PROVE  Core'
<1> USE NumbersAssumption DEF IInv, TypeOK, JobTypeOK, WorkerTypeOK, Core, RetryDue
<1>1. HandsOK' /\ FreshOK'
  BY DEF HandsOK, FreshOK, HeldOK, HasClaim, Waiting, BeforeOutcome, Finished
<1>2. OneWorkerPerJob'
  BY DEF HandsOK, OneWorkerPerJob, HeldOK, HasClaim, Waiting, Finished
<1>3. HeldOK'
  BY DEF HandsOK, OneWorkerPerJob, HeldOK, HasClaim, Waiting, BeforeOutcome, FreshOK, Finished
<1>4. AttemptsOK' /\ RunCountsOnce'
  BY DEF HandsOK, OneWorkerPerJob, HeldOK, HasClaim, Waiting, BeforeOutcome,
         AttemptsOK, RunCountsOnce, FreshOK, Active, Finished
<1>5. QED  BY <1>1, <1>2, <1>3, <1>4

LEMMA WorkerKeepsCore ==
  ASSUME IInv, NEW w \in Workers, WorkerStep(w) \/ WorkerThrows(w)
  PROVE  Core'
<1>1. CASE ClaimSelect(w)  BY <1>1, ClaimSelectKeepsCore
<1>2. CASE ClaimCommit(w)  BY <1>2, ClaimCommitKeepsCore
<1>3. CASE Requeue(w)  BY <1>3, RequeueKeepsCore
<1>4. CASE SuccessJob(w)  BY <1>4, SuccessJobKeepsCore
<1>5. CASE FailureJob(w)  BY <1>5, FailureJobKeepsCore
<1>6. CASE acquireShopSyncLock(w)
  BY <1>6, MovingOnKeepsCore DEF HasClaim, WorkerPCs, BeforeOutcome, acquireShopSyncLock, LockRefused
<1>7. CASE MarkSyncing(w)
  BY <1>7, MovingOnKeepsCore DEF HasClaim, WorkerPCs, BeforeOutcome, MarkSyncing
<1>8. CASE ResolveShop(w)
  BY <1>8, MovingOnKeepsCore DEF HasClaim, WorkerPCs, BeforeOutcome, ResolveShop, GoFail
<1>9. CASE FetchOk(w)
  BY <1>9, MovingOnKeepsCore DEF HasClaim, WorkerPCs, BeforeOutcome, FetchOk, VerifiedHealthy
<1>10. CASE FetchFails(w)
  BY <1>10, MovingOnKeepsCore DEF HasClaim, WorkerPCs, BeforeOutcome, FetchFails, GoFail
<1>11. CASE SuccessRow(w)
  BY <1>11, MovingOnKeepsCore DEF HasClaim, WorkerPCs, BeforeOutcome, SuccessRow, VerifiedHealthy
<1>12. CASE FailureRow(w)
  BY <1>12, MovingOnKeepsCore DEF HasClaim, WorkerPCs, BeforeOutcome, FailureRow, FailureRowStatus
<1>13. CASE ThrowIntoCatch(w)
  BY <1>13, MovingOnKeepsCore DEF HasClaim, WorkerPCs, BeforeOutcome, ThrowIntoCatch, GoFail, StatementFails, VerifiedHealthy, FailureRowStatus
<1>14. CASE ThrowInCatch(w)
  BY <1>14, MovingOnKeepsCore DEF HasClaim, WorkerPCs, BeforeOutcome, ThrowInCatch, StatementFails
<1>15. CASE releaseShopSyncLock(w)
  <2>1. /\ pc' = [v \in Workers |-> IF v \in {w} THEN "idle" ELSE pc[v]]
        /\ wjob' = [v \in Workers |-> IF v \in {w} THEN NoJob ELSE wjob[v]]
        /\ wattempt' = [v \in Workers |-> IF v \in {w} THEN 0 ELSE wattempt[v]]
    BY <1>15 DEF IInv, TypeOK, WorkerTypeOK, releaseShopSyncLock, TurnOver
  <2>2. QED  BY <1>15, <2>1, LettingGoKeepsCore DEF releaseShopSyncLock
<1>16. CASE ThrowOutOfTurn(w)
  <2>1. /\ pc' = [v \in Workers |-> IF v \in {w} THEN "idle" ELSE pc[v]]
        /\ wjob' = [v \in Workers |-> IF v \in {w} THEN NoJob ELSE wjob[v]]
        /\ wattempt' = [v \in Workers |-> IF v \in {w} THEN 0 ELSE wattempt[v]]
    BY <1>16 DEF IInv, TypeOK, WorkerTypeOK, ThrowOutOfTurn, TurnOver, StatementFails
  <2>2. QED  BY <1>16, <2>1, LettingGoKeepsCore DEF ThrowOutOfTurn
<1>17. QED
  BY <1>1, <1>2, <1>3, <1>4, <1>5, <1>6, <1>7, <1>8, <1>9, <1>10, <1>11, <1>12, <1>13, <1>14, <1>15, <1>16 DEF WorkerStep, WorkerThrows

------------------------------------------------------------------------------
(* The theorems                                                              *)

LEMMA InitInv == Init => IInv
<1> SUFFICES ASSUME Init PROVE IInv
  OBVIOUS
<1> USE NumbersAssumption, SetsAssumption DEF Init
<1>1. TypeOK
  BY DEF TypeOK, JobTypeOK, RowTypeOK, WorkerTypeOK, CallerTypeOK, EnvTypeOK, JobStatuses,
         Scheduled, Manual, RowStatuses, WorkerPCs, Failures, CallerPCs
<1>2. Core
  BY DEF Core, HandsOK, OneWorkerPerJob, HeldOK, HasClaim, BeforeOutcome, AttemptsOK,
         RunCountsOnce, FreshOK, Active
<1>3. QED  BY <1>1, <1>2 DEF IInv

LEMMA StepInv == IInv /\ [Next]_vars => IInv'
<1> SUFFICES ASSUME IInv, [Next]_vars PROVE IInv'
  OBVIOUS
<1>1. ASSUME NEW w \in Workers, WorkerStep(w) \/ WorkerThrows(w) PROVE IInv'
  BY <1>1, WorkerTypes, WorkerKeepsCore DEF IInv
<1>2. ASSUME NEW t \in Ticks, TickStep(t) PROVE IInv'
  <2>1. UNCHANGED <<jobVars, workerVars>>
    BY <1>2 DEF TickStep, TickStart, RecoverRead, RecoverPatch, RecoverEnd, TickLoad, TickScan, TickEnd
  <2>2. QED  BY <1>2, <2>1, TickTypes, OthersKeepCore DEF IInv
<1>3. ASSUME NEW m \in Manuals, ManualStart(m) PROVE IInv'
  <2>1. TypeOK'
    BY <1>3 DEF IInv, TypeOK, JobTypeOK, RowTypeOK, WorkerTypeOK, CallerTypeOK, EnvTypeOK, CallerPCs,
                ManualStart
  <2>2. QED  BY <1>3, <2>1, OthersKeepCore DEF IInv, ManualStart
<1>4. ASSUME NEW c \in Callers, EnqueueStep(c) PROVE IInv'
  <2>1. TypeOK'
    BY <1>4, EnqueueTypes
  <2>2. CASE EnqueueInsert(c)
    BY <2>1, <2>2, EnqueueInsertKeepsCore DEF IInv
  <2>3. CASE EnqueueCheck(c) \/ CallerFails(c)
    BY <2>1, <2>3, OthersKeepCore DEF IInv, EnqueueCheck, CallerFails
  <2>4. QED  BY <1>4, <2>2, <2>3 DEF EnqueueStep
<1>5. ASSUME NEW j \in JobIds, RetryDue(j) PROVE IInv'
  <2>1. TypeOK'
    BY <1>5 DEF IInv, TypeOK, JobTypeOK, RowTypeOK, WorkerTypeOK, CallerTypeOK, EnvTypeOK, RetryDue
  <2>2. QED  BY <1>5, <2>1, RetryDueKeepsCore DEF IInv
<1>6. ASSUME NEW s \in Shops, LockLapses(s) \/ OtherPathVerifies(s) PROVE IInv'
  <2>1. TypeOK'
    <3>1. RowTypeOK'
      BY <1>6 DEF IInv, TypeOK, RowTypeOK, RowStatuses, LockLapses, OtherPathVerifies, VerifiedHealthy
    <3>2. JobTypeOK' /\ WorkerTypeOK' /\ CallerTypeOK' /\ EnvTypeOK'
      BY <1>6 DEF IInv, TypeOK, JobTypeOK, WorkerTypeOK, CallerTypeOK, EnvTypeOK, LockLapses, OtherPathVerifies
    <3>3. QED  BY <3>1, <3>2 DEF TypeOK
  <2>2. QED  BY <1>6, <2>1, OthersKeepCore DEF IInv, LockLapses, OtherPathVerifies
<1>7. ASSUME NEW p \in Procs, Crash(p) PROVE IInv'
  <2> DEFINE G == {w \in Workers : Host[w] = p}
  <2>1. JobTypeOK' /\ RowTypeOK'
    BY <1>7 DEF IInv, TypeOK, JobTypeOK, RowTypeOK, Crash
  <2>2. WorkerTypeOK'
    <3>1. pc' \in [Workers -> WorkerPCs] /\ wfail' \in [Workers -> Failures]
      BY <1>7 DEF IInv, TypeOK, WorkerTypeOK, WorkerPCs, Failures, Crash
    <3>2. wjob' \in [Workers -> JobIds \cup {NoJob}] /\ wattempt' \in [Workers -> 0..MaxAttempts]
      BY <1>7, NumbersAssumption DEF IInv, TypeOK, WorkerTypeOK, Crash
    <3>3. caught' \in [Workers -> BOOLEAN]
      BY <1>7 DEF IInv, TypeOK, WorkerTypeOK, Crash
    <3>4. QED  BY <3>1, <3>2, <3>3 DEF WorkerTypeOK
  <2>3. CallerTypeOK' /\ EnvTypeOK'
    BY <1>7, NumbersAssumption DEF IInv, TypeOK, CallerTypeOK, EnvTypeOK, CallerPCs, Crash
  <2>4. /\ pc' = [w \in Workers |-> IF w \in G THEN "idle" ELSE pc[w]]
        /\ wjob' = [w \in Workers |-> IF w \in G THEN NoJob ELSE wjob[w]]
        /\ wattempt' = [w \in Workers |-> IF w \in G THEN 0 ELSE wattempt[w]]
    BY <1>7 DEF Crash
  <2>5. Core'
    BY <1>7, <2>4, LettingGoKeepsCore DEF Crash
  <2>6. QED  BY <2>1, <2>2, <2>3, <2>5 DEF IInv, TypeOK
<1>8. CASE UNCHANGED vars
  <2>1. TypeOK'
    BY <1>8 DEF IInv, TypeOK, JobTypeOK, RowTypeOK, WorkerTypeOK, CallerTypeOK, EnvTypeOK, vars
  <2>2. QED  BY <1>8, <2>1, OthersKeepCore DEF IInv, vars
<1>9. QED  BY <1>1, <1>2, <1>3, <1>4, <1>5, <1>6, <1>7, <1>8 DEF Next

LEMMA Invariance == Spec => []IInv
  BY InitInv, StepInv, PTL DEF Spec

\* Type correctness of the queue, for every value of the constants.
THEOREM TypeCorrect == Spec => []TypeOK
<1>1. IInv => TypeOK
  BY DEF IInv
<1>2. QED  BY <1>1, Invariance, PTL

\* claimNextJob's locking read, the retry timer and the requeue together keep
\* every job in at most one worker's hands, whatever fails or crashes.
THEOREM ClaimIsExclusive == Spec => []OneWorkerPerJob
<1>1. IInv => OneWorkerPerJob
  BY DEF IInv, Core
<1>2. QED  BY <1>1, Invariance, PTL

\* A run of a job adds at most one to its attempt_count, even when the catch
\* block repeats finalizeJobFailure.
THEOREM RunsCountOnce == Spec => []RunCountsOnce
<1>1. IInv => RunCountsOnce
  BY DEF IInv, Core
<1>2. QED  BY <1>1, Invariance, PTL

------------------------------------------------------------------------------
(* A disabled shop has used up a job                                         *)

Exhausted(j) == jstatus[j] = "failed" /\ attempts[j] = MaxAttempts

\* Whoever is about to disable a shop has recorded its job as failed for good.
LastOK ==
  \A w \in Workers :
    pc[w] = "fail2" /\ wfail[w] \in {"ineligible", "sync"} /\ Attempt(w) >= MaxAttempts
      => Exhausted(wjob[w])

\* The six steps that write the job table.
LEMMA WhoWritesJobs ==
  ASSUME [Next]_vars
  PROVE  \/ UNCHANGED jobVars
         \/ \E w \in Workers : ClaimCommit(w) \/ Requeue(w) \/ SuccessJob(w) \/ FailureJob(w)
         \/ \E c \in Callers : EnqueueInsert(c)
         \/ \E j \in JobIds : RetryDue(j)
<1>1. ASSUME NEW w \in Workers, WorkerStep(w)
      PROVE  UNCHANGED jobVars \/ ClaimCommit(w) \/ Requeue(w) \/ SuccessJob(w) \/ FailureJob(w)
  BY <1>1 DEF WorkerStep, ClaimSelect, acquireShopSyncLock, MarkSyncing, ResolveShop, FetchOk, FetchFails,
       SuccessRow, FailureRow, releaseShopSyncLock
<1>2. ASSUME NEW w \in Workers, WorkerThrows(w) PROVE UNCHANGED jobVars
  BY <1>2 DEF WorkerThrows, ThrowOutOfTurn, ThrowIntoCatch, ThrowInCatch
<1>3. ASSUME NEW t \in Ticks, TickStep(t) PROVE UNCHANGED jobVars
  BY <1>3 DEF TickStep, TickStart, RecoverRead, RecoverPatch, RecoverEnd, TickLoad, TickScan, TickEnd
<1>4. ASSUME NEW c \in Callers, EnqueueStep(c) PROVE UNCHANGED jobVars \/ EnqueueInsert(c)
  BY <1>4 DEF EnqueueStep, EnqueueCheck, CallerFails
<1>5. ASSUME NEW s \in Shops, LockLapses(s) \/ OtherPathVerifies(s) PROVE UNCHANGED jobVars
  BY <1>5 DEF LockLapses, OtherPathVerifies
<1>6. \A m \in Manuals : ManualStart(m) => UNCHANGED jobVars
  BY DEF ManualStart
<1>7. \A p \in Procs : Crash(p) => UNCHANGED jobVars
  BY DEF Crash
<1>q. QED  BY <1>1, <1>2, <1>3, <1>4, <1>5, <1>6, <1>7 DEF Next, vars

\* What is used up stays so: a repeated finalisation writes the same again.
LEMMA ExhaustedStays ==
  ASSUME IInv, [Next]_vars, NEW j \in JobIds, Exhausted(j)
  PROVE  Exhausted(j)' /\ jshop'[j] = jshop[j]
<1> USE DEF IInv, TypeOK, JobTypeOK, WorkerTypeOK, Core, Exhausted
<1>1. CASE UNCHANGED jobVars
  BY <1>1
<1>2. ASSUME NEW w \in Workers, ClaimCommit(w) \/ Requeue(w) \/ SuccessJob(w)
      PROVE  Exhausted(j)' /\ jshop'[j] = jshop[j]
  <2>1. jstatus[wjob[w]] \in {"queued", "retry_wait", "running"}
    BY <1>2 DEF HeldOK, BeforeOutcome, ClaimCommit, Requeue, SuccessJob
  <2>2. wjob[w] # j
    BY <2>1
  <2>q. QED  BY <1>2, <2>2 DEF ClaimCommit, Requeue, SuccessJob
<1>3. ASSUME NEW w \in Workers, FailureJob(w)
      PROVE  Exhausted(j)' /\ jshop'[j] = jshop[j]
  <2>1. CASE wjob[w] # j
    BY <1>3, <2>1 DEF FailureJob
  <2>2. CASE wjob[w] = j
    <3>1. wattempt[w] \in Nat /\ MaxAttempts \in Nat /\ wattempt[w] < MaxAttempts
      BY <1>3, NumbersAssumption DEF AttemptsOK, FailureJob
    <3>2. Attempt(w) = MaxAttempts
      <4>1. wjob[w] # NoJob /\ attempts[wjob[w]] = MaxAttempts
        BY <2>2, NumbersAssumption
      <4>2. MaxAttempts \in {wattempt[w], wattempt[w] + 1}
        BY <4>1 DEF RunCountsOnce
      <4>q. QED  BY <3>1, <4>2 DEF Attempt
    <3>3. ~Retries(w)
      BY <3>1, <3>2 DEF Retries
    <3>q. QED  BY <1>3, <2>2, <3>2, <3>3 DEF FailureJob
  <2>q. QED  BY <2>1, <2>2
<1>4. ASSUME NEW c \in Callers, EnqueueInsert(c)
      PROVE  Exhausted(j)' /\ jshop'[j] = jshop[j]
  <2>1. lastId' > lastId /\ lastId' # j
    BY <1>4, NumbersAssumption DEF EnqueueInsert, FreshOK
  <2>q. QED  BY <1>4, <2>1 DEF EnqueueInsert
<1>5. ASSUME NEW i \in JobIds, RetryDue(i)
      PROVE  Exhausted(j)' /\ jshop'[j] = jshop[j]
  BY <1>5 DEF RetryDue
<1>q. QED  BY <1>1, <1>2, <1>3, <1>4, <1>5, WhoWritesJobs

\* A worker is at the second write of a failure after the first one, or still.
LEMMA WhoIsLast ==
  ASSUME IInv, [Next]_vars, NEW v \in Workers, pc'[v] = "fail2"
  PROVE  \/ FailureJob(v)
         \/ pc[v] = "fail2" /\ wjob'[v] = wjob[v] /\ wattempt'[v] = wattempt[v] /\ wfail'[v] = wfail[v]
<1> DEFINE Stays == pc[v] = "fail2" /\ wjob'[v] = wjob[v] /\ wattempt'[v] = wattempt[v] /\ wfail'[v] = wfail[v]
<1> USE DEF IInv, TypeOK, WorkerTypeOK
<1>1. CASE UNCHANGED workerVars
  BY <1>1
<1>2. ASSUME NEW w \in Workers, WorkerStep(w) PROVE FailureJob(v) \/ Stays
  <2>1. CASE ClaimSelect(w) \/ ClaimCommit(w)
    BY <2>1 DEF ClaimSelect, ClaimCommit
  <2>2. CASE acquireShopSyncLock(w) \/ Requeue(w) \/ MarkSyncing(w)
    BY <2>2 DEF acquireShopSyncLock, Requeue, MarkSyncing, TurnOver
  <2>3. CASE ResolveShop(w) \/ FetchOk(w) \/ FetchFails(w)
    BY <2>3 DEF ResolveShop, FetchOk, FetchFails, GoFail
  <2>4. CASE SuccessJob(w) \/ SuccessRow(w)
    BY <2>4 DEF SuccessJob, SuccessRow
  <2>5. CASE FailureJob(w)
    BY <2>5 DEF FailureJob
  <2>6. CASE FailureRow(w) \/ releaseShopSyncLock(w)
    BY <2>6 DEF FailureRow, releaseShopSyncLock, TurnOver
  <2>q. QED  BY <1>2, <2>1, <2>2, <2>3, <2>4, <2>5, <2>6 DEF WorkerStep
<1>3. ASSUME NEW w \in Workers, WorkerThrows(w) PROVE Stays
  BY <1>3 DEF WorkerThrows, ThrowOutOfTurn, ThrowIntoCatch, ThrowInCatch, TurnOver, GoFail
<1>4. ASSUME NEW p \in Procs, Crash(p) PROVE Stays
  BY <1>4 DEF Crash
<1>5. ASSUME NEW t \in Ticks, TickStep(t) PROVE UNCHANGED workerVars
  BY <1>5 DEF TickStep, TickStart, RecoverRead, RecoverPatch, RecoverEnd, TickLoad, TickScan, TickEnd
<1>6. ASSUME NEW c \in Callers, EnqueueStep(c) PROVE UNCHANGED workerVars
  BY <1>6 DEF EnqueueStep, EnqueueCheck, EnqueueInsert, CallerFails
<1>7. /\ \A m \in Manuals : ManualStart(m) => UNCHANGED workerVars
      /\ \A j \in JobIds : RetryDue(j) => UNCHANGED workerVars
      /\ \A s \in Shops : LockLapses(s) \/ OtherPathVerifies(s) => UNCHANGED workerVars
  BY DEF ManualStart, RetryDue, LockLapses, OtherPathVerifies
<1>q. QED  BY <1>1, <1>2, <1>3, <1>4, <1>5, <1>6, <1>7 DEF Next, vars

LEMMA LastKeeps ==
  ASSUME IInv, LastOK, [Next]_vars
  PROVE  LastOK'
<1> USE DEF IInv, TypeOK, JobTypeOK, WorkerTypeOK, Core
<1> SUFFICES ASSUME NEW v \in Workers,
                    pc'[v] = "fail2", wfail'[v] \in {"ineligible", "sync"}, Attempt(v)' >= MaxAttempts
             PROVE  Exhausted(wjob[v])'
  BY DEF LastOK
<1>1. CASE FailureJob(v)
  <2>1. /\ wattempt[v] \in Nat /\ MaxAttempts \in Nat /\ wattempt[v] < MaxAttempts /\ wjob[v] \in JobIds
        /\ wattempt' = wattempt /\ wjob' = wjob
    BY <1>1, NumbersAssumption DEF AttemptsOK, HandsOK, FailureJob
  <2>2. Attempt(v) = MaxAttempts
    BY <2>1 DEF Attempt
  <2>3. ~Retries(v)
    BY <2>1, <2>2 DEF Retries
  <2>q. QED  BY <1>1, <2>1, <2>2, <2>3 DEF FailureJob, Exhausted
<1>2. CASE pc[v] = "fail2" /\ wjob'[v] = wjob[v] /\ wattempt'[v] = wattempt[v] /\ wfail'[v] = wfail[v]
  <2>1. wjob[v] \in JobIds
    BY <1>2 DEF HandsOK
  <2>2. Exhausted(wjob[v])
    BY <1>2 DEF LastOK, Attempt
  <2>3. \A j \in JobIds : Exhausted(j) => Exhausted(j)'
    BY ExhaustedStays
  <2>q. QED  BY <1>2, <2>1, <2>2, <2>3 DEF Exhausted
<1>q. QED  BY <1>1, <1>2, WhoIsLast

\* Only the second write of a failure disables a shop.
LEMMA WhoDisables ==
  ASSUME IInv, [Next]_vars, NEW s \in Shops, row'[s] = "disabled", row[s] # "disabled"
  PROVE  \E w \in Workers : pc[w] = "fail2" /\ WorkerShop(w) = s /\ FailureRowStatus(w) = "disabled"
<1> USE DEF IInv, TypeOK, RowTypeOK
<1>1. ASSUME NEW w \in Workers, WorkerStep(w)
      PROVE  pc[w] = "fail2" /\ WorkerShop(w) = s /\ FailureRowStatus(w) = "disabled"
  <2>1. CASE FailureRow(w)
    BY <2>1 DEF FailureRow, PatchFailed
  <2>2. CASE acquireShopSyncLock(w) \/ MarkSyncing(w)
    BY <2>2 DEF acquireShopSyncLock, MarkSyncing
  <2>3. CASE FetchOk(w) \/ FetchFails(w) \/ SuccessRow(w)
    BY <2>3 DEF FetchOk, FetchFails, SuccessRow, VerifiedHealthy
  <2>q. QED  BY <1>1, <2>1, <2>2, <2>3 DEF WorkerStep, ClaimSelect, ClaimCommit, Requeue, ResolveShop,
                SuccessJob, FailureJob, releaseShopSyncLock
<1>2. ASSUME NEW w \in Workers, WorkerThrows(w)
      PROVE  pc[w] = "fail2" /\ WorkerShop(w) = s /\ FailureRowStatus(w) = "disabled"
  BY <1>2 DEF WorkerThrows, ThrowOutOfTurn, ThrowIntoCatch, ThrowInCatch, VerifiedHealthy, PatchFailed
<1>3. ASSUME NEW t \in Ticks, TickStep(t) PROVE FALSE
  BY <1>3 DEF TickStep, TickStart, releaseExpiredLocks, RecoverRead, RecoverPatch, RecoverEnd, TickLoad, TickScan, TickEnd
<1>4. ASSUME NEW c \in Callers, EnqueueStep(c) PROVE FALSE
  BY <1>4 DEF EnqueueStep, EnqueueCheck, EnqueueInsert, CallerFails
<1>5. ASSUME NEW x \in Shops, LockLapses(x) \/ OtherPathVerifies(x) PROVE FALSE
  BY <1>5 DEF LockLapses, OtherPathVerifies, VerifiedHealthy
<1>6. /\ \A m \in Manuals : ~ManualStart(m)
      /\ \A j \in JobIds : ~RetryDue(j)
      /\ \A p \in Procs : ~Crash(p)
  BY DEF ManualStart, RetryDue, Crash
<1>q. QED  BY <1>1, <1>2, <1>3, <1>4, <1>5, <1>6 DEF Next, vars

LEMMA DisabledKeeps ==
  ASSUME IInv, LastOK, DisabledMeansExhausted, [Next]_vars
  PROVE  DisabledMeansExhausted'
<1> SUFFICES ASSUME NEW s \in Shops, row'[s] = "disabled"
             PROVE  \E j \in JobIds : jshop'[j] = s /\ Exhausted(j)'
  BY DEF DisabledMeansExhausted, Exhausted
<1>1. \E j \in JobIds : jshop[j] = s /\ Exhausted(j)
  <2>1. CASE row[s] = "disabled"
    BY <2>1 DEF DisabledMeansExhausted, Exhausted
  <2>2. CASE row[s] # "disabled"
    <3>1. PICK w \in Workers : pc[w] = "fail2" /\ WorkerShop(w) = s /\ FailureRowStatus(w) = "disabled"
      BY <2>2, WhoDisables
    <3>2. wfail[w] \in {"ineligible", "sync"} /\ Attempt(w) >= MaxAttempts
      BY <3>1 DEF FailureRowStatus, IInv, TypeOK, WorkerTypeOK, Failures
    <3>3. wjob[w] \in JobIds /\ jshop[wjob[w]] = s
      BY <3>1 DEF WorkerShop, IInv, TypeOK, WorkerTypeOK, Core, HandsOK
    <3>q. QED  BY <3>1, <3>2, <3>3 DEF LastOK
  <2>q. QED  BY <2>1, <2>2
<1>q. QED  BY <1>1, ExhaustedStays

\* For every attempt limit, number of workers and order of faults and crashes: a
\* shop whose row says disabled has a job that failed for good with every
\* attempt used.
THEOREM DisabledShopsAreExhausted == Spec => []DisabledMeansExhausted
<1>1. Init => LastOK /\ DisabledMeansExhausted
  BY DEF Init, LastOK, DisabledMeansExhausted
<1>2. IInv /\ LastOK /\ DisabledMeansExhausted /\ [Next]_vars => (IInv /\ LastOK /\ DisabledMeansExhausted)'
  BY StepInv, LastKeeps, DisabledKeeps
<1>q. QED  BY <1>1, <1>2, InitInv, PTL DEF Spec

------------------------------------------------------------------------------
(* The queue implements the job board                                        *)

\* A claim comes by its commit and keeps its job and the count it read.
LEMMA HandsStay ==
  ASSUME IInv, [Next]_vars, NEW v \in Workers, HasClaim(v)'
  PROVE  \/ ClaimCommit(v)
         \/ HasClaim(v) /\ wjob'[v] = wjob[v] /\ wattempt'[v] = wattempt[v]
<1> DEFINE Stays == HasClaim(v) /\ wjob'[v] = wjob[v] /\ wattempt'[v] = wattempt[v]
<1> USE DEF IInv, TypeOK, WorkerTypeOK, HasClaim
<1>1. CASE UNCHANGED workerVars
  BY <1>1
<1>2. ASSUME NEW w \in Workers, WorkerStep(w) PROVE ClaimCommit(v) \/ Stays
  <2>1. CASE ClaimSelect(w)
    BY <2>1 DEF ClaimSelect
  <2>2. CASE ClaimCommit(w)
    BY <2>2 DEF ClaimCommit
  <2>3. CASE acquireShopSyncLock(w) \/ Requeue(w) \/ MarkSyncing(w)
    BY <2>3 DEF acquireShopSyncLock, Requeue, MarkSyncing, TurnOver
  <2>4. CASE ResolveShop(w) \/ FetchOk(w) \/ FetchFails(w)
    BY <2>4 DEF ResolveShop, FetchOk, FetchFails, GoFail
  <2>5. CASE SuccessJob(w) \/ SuccessRow(w)
    BY <2>5 DEF SuccessJob, SuccessRow
  <2>6. CASE FailureJob(w) \/ FailureRow(w) \/ releaseShopSyncLock(w)
    BY <2>6 DEF FailureJob, FailureRow, releaseShopSyncLock, TurnOver
  <2>q. QED  BY <1>2, <2>1, <2>2, <2>3, <2>4, <2>5, <2>6 DEF WorkerStep
<1>3. ASSUME NEW w \in Workers, WorkerThrows(w) PROVE Stays
  BY <1>3 DEF WorkerThrows, ThrowOutOfTurn, ThrowIntoCatch, ThrowInCatch, TurnOver, GoFail
<1>4. ASSUME NEW p \in Procs, Crash(p) PROVE Stays
  BY <1>4 DEF Crash
<1>5. ASSUME NEW t \in Ticks, TickStep(t) PROVE UNCHANGED workerVars
  BY <1>5 DEF TickStep, TickStart, RecoverRead, RecoverPatch, RecoverEnd, TickLoad, TickScan, TickEnd
<1>6. ASSUME NEW c \in Callers, EnqueueStep(c) PROVE UNCHANGED workerVars
  BY <1>6 DEF EnqueueStep, EnqueueCheck, EnqueueInsert, CallerFails
<1>7. /\ \A m \in Manuals : ManualStart(m) => UNCHANGED workerVars
      /\ \A j \in JobIds : RetryDue(j) => UNCHANGED workerVars
      /\ \A s \in Shops : LockLapses(s) \/ OtherPathVerifies(s) => UNCHANGED workerVars
  BY DEF ManualStart, RetryDue, LockLapses, OtherPathVerifies
<1>q. QED  BY <1>1, <1>2, <1>3, <1>4, <1>5, <1>6, <1>7 DEF Next, vars

\* A worker that lets go leaves the table as it is, or puts its job back.
LEMMA HandsGo ==
  ASSUME IInv, [Next]_vars, NEW w \in Workers, HasClaim(w), ~HasClaim(w)'
  PROVE  UNCHANGED jobVars \/ Requeue(w)
<1> USE DEF IInv, TypeOK, WorkerTypeOK, HasClaim
<1>1. ASSUME NEW v \in Workers, ClaimCommit(v) \/ SuccessJob(v) \/ FailureJob(v) PROVE FALSE
  BY <1>1 DEF ClaimCommit, SuccessJob, FailureJob
<1>2. ASSUME NEW v \in Workers, Requeue(v) PROVE v = w
  BY <1>2 DEF Requeue, TurnOver
<1>3. ASSUME NEW c \in Callers, EnqueueInsert(c) PROVE FALSE
  BY <1>3 DEF EnqueueInsert
<1>4. ASSUME NEW j \in JobIds, RetryDue(j) PROVE FALSE
  BY <1>4 DEF RetryDue
<1>q. QED  BY <1>1, <1>2, <1>3, <1>4, WhoWritesJobs

\* A run whose outcome is not written has not been counted.
UncountedOK ==
  \A w \in Workers : HasClaim(w) /\ jstatus[wjob[w]] = "running" => attempts[wjob[w]] = wattempt[w]

LEMMA UncountedKeeps ==
  ASSUME IInv, UncountedOK, [Next]_vars
  PROVE  UncountedOK'
<1> USE DEF IInv, TypeOK, JobTypeOK, WorkerTypeOK, Core
<1> SUFFICES ASSUME NEW v \in Workers, HasClaim(v)', jstatus'[wjob'[v]] = "running"
             PROVE  attempts'[wjob'[v]] = wattempt'[v]
  BY DEF UncountedOK, HasClaim
<1>1. CASE ClaimCommit(v)
  BY <1>1 DEF ClaimCommit, AttemptsOK
<1>2. CASE HasClaim(v) /\ wjob'[v] = wjob[v] /\ wattempt'[v] = wattempt[v]
  <2>1. wjob[v] \in JobIds
    BY <1>2 DEF HandsOK, HasClaim
  <2>2. CASE UNCHANGED jobVars
    BY <1>2, <2>2 DEF UncountedOK
  <2>3. ASSUME NEW w \in Workers, ClaimCommit(w) \/ Requeue(w) \/ SuccessJob(w) \/ FailureJob(w)
        PROVE  attempts'[wjob'[v]] = wattempt'[v]
    <3>1. wjob[w] = wjob[v] => w = v
      BY <2>1, NumbersAssumption DEF OneWorkerPerJob
    <3>2. CASE wjob[w] # wjob[v]
      <4>1. jstatus'[wjob[v]] = jstatus[wjob[v]] /\ attempts'[wjob[v]] = attempts[wjob[v]]
        BY <2>1, <2>3, <3>2 DEF ClaimCommit, Requeue, SuccessJob, FailureJob
      <4>q. QED  BY <1>2, <4>1 DEF UncountedOK
    <3>3. CASE w = v
      BY <1>2, <2>1, <2>3, <3>3 DEF HasClaim, ClaimCommit, Requeue, SuccessJob, FailureJob
    <3>q. QED  BY <3>1, <3>2, <3>3
  <2>4. ASSUME NEW c \in Callers, EnqueueInsert(c)
        PROVE  attempts'[wjob'[v]] = wattempt'[v]
    BY <1>2, <2>1, <2>4 DEF UncountedOK, EnqueueInsert
  <2>5. ASSUME NEW j \in JobIds, RetryDue(j)
        PROVE  attempts'[wjob'[v]] = wattempt'[v]
    BY <1>2, <2>5 DEF UncountedOK, RetryDue
  <2>q. QED  BY <2>2, <2>3, <2>4, <2>5, WhoWritesJobs
<1>q. QED  BY <1>1, <1>2, HandsStay

\* What the board shows of a job in no worker's hands.
FreeState(status) ==
  IF status = "absent" THEN "absent"
  ELSE IF status \in {"queued", "retry_wait"} THEN "open"
  ELSE IF status \in Finished THEN "done"
  ELSE "lost"

\* The refinement mapping, without CASE and CHOOSE.
MappingOK ==
  /\ \A w \in Workers : HasClaim(w) =>
       LET j == wjob[w] IN
       j \in JobIds /\ Holders(j) = {w} /\ BoardState(j) = "taken" /\ BoardTries(j) = wattempt[w]
  /\ \A j \in JobIds : Holders(j) = {} => BoardState(j) = FreeState(jstatus[j]) /\ BoardTries(j) = attempts[j]

LEMMA MappingHolds == IInv => MappingOK
<1> SUFFICES ASSUME IInv PROVE MappingOK
  OBVIOUS
<1> USE DEF IInv, TypeOK, JobTypeOK, WorkerTypeOK, Core
<1>1. ASSUME NEW w \in Workers, HasClaim(w)
      PROVE  /\ wjob[w] \in JobIds /\ Holders(wjob[w]) = {w}
             /\ BoardState(wjob[w]) = "taken" /\ BoardTries(wjob[w]) = wattempt[w]
  <2>1. wjob[w] \in JobIds /\ wjob[w] # NoJob
    BY <1>1, NumbersAssumption DEF HandsOK, HasClaim
  <2>2. Holders(wjob[w]) = {w}
    BY <1>1, <2>1 DEF Holders, OneWorkerPerJob
  <2>3. BoardState(wjob[w]) = "taken"
    BY <2>2 DEF BoardState
  <2>4. (CHOOSE v \in Holders(wjob[w]) : TRUE) = w
    BY <2>2
  <2>5. BoardTries(wjob[w]) = wattempt[w]
    BY <2>2, <2>4 DEF BoardTries
  <2>q. QED  BY <2>1, <2>2, <2>3, <2>5
<1>2. ASSUME NEW j \in JobIds, Holders(j) = {}
      PROVE  BoardState(j) = FreeState(jstatus[j]) /\ BoardTries(j) = attempts[j]
  <2>1. jstatus[j] \in JobStatuses
    OBVIOUS
  <2>2. BoardState(j) = FreeState(jstatus[j])
    BY <1>2, <2>1 DEF BoardState, FreeState, JobStatuses, Finished
  <2>3. BoardTries(j) = attempts[j]
    BY <1>2 DEF BoardTries
  <2>q. QED  BY <2>2, <2>3
<1>q. QED  BY <1>1, <1>2 DEF MappingOK

LEMMA InitOnBoard == Init => Board!Init
<1> SUFFICES ASSUME Init PROVE Board!Init
  OBVIOUS
<1>1. \A j \in JobIds : Holders(j) = {} /\ jstatus[j] = "absent" /\ attempts[j] = 0
  BY DEF Init, Holders, HasClaim
<1>2. MappingOK
  BY InitInv, MappingHolds
<1>3. \A j \in JobIds : BoardState(j) = "absent" /\ BoardTries(j) = 0
  BY <1>1, <1>2 DEF MappingOK, FreeState
<1>q. QED  BY <1>1, <1>3 DEF Board!Init

\* A job in a worker's hands stays there, or the worker lets go of it.
LEMMA TakenStep ==
  ASSUME IInv, UncountedOK, MappingOK, [Next]_vars, IInv', MappingOK',
         NEW w \in Workers, HasClaim(w), NEW j \in JobIds, j = wjob[w]
  PROVE  Board!Same(j) \/ Board!LetGo(j)
<1> USE DEF IInv, TypeOK, JobTypeOK, WorkerTypeOK, Core
<1>1. Holders(j) = {w} /\ BoardState(j) = "taken" /\ BoardTries(j) = wattempt[w]
  BY DEF MappingOK
<1>2. CASE HasClaim(w)'
  <2>1. wjob'[w] = j /\ wattempt'[w] = wattempt[w]
    BY <1>2, HandsStay DEF ClaimCommit, HasClaim
  <2>2. Holders(j)' = {w} /\ BoardState(j)' = "taken" /\ BoardTries(j)' = wattempt[w]
    BY <1>2, <2>1 DEF MappingOK
  <2>3. Board!Same(j)
    BY <1>1, <2>2 DEF Board!Same
  <2>q. QED  BY <2>3
<1>3. CASE ~HasClaim(w)'
  <2>1. Holders(j)' = {}
    <3>1. SUFFICES ASSUME NEW v \in Workers, HasClaim(v)', wjob'[v] = j PROVE FALSE
      BY DEF Holders
    <3>2. wjob[v] = j
      BY <3>1, HandsStay DEF ClaimCommit
    <3>3. v = w
      BY <3>2, NumbersAssumption DEF OneWorkerPerJob
    <3>q. QED  BY <1>3, <3>1, <3>3
  <2>2. BoardState(j)' = FreeState(jstatus'[j]) /\ BoardTries(j)' = attempts'[j]
    BY <2>1 DEF MappingOK
  <2>3. attempts'[j] = attempts[j] /\ (jstatus'[j] = jstatus[j] \/ jstatus'[j] = "queued")
    BY <1>3, HandsGo DEF Requeue
  <2>4. attempts[j] \in {wattempt[w], wattempt[w] + 1}
    BY NumbersAssumption DEF RunCountsOnce
  <2>5. jstatus'[j] \in JobStatuses \ {"absent"}
    BY <2>3 DEF HeldOK, Waiting, Finished, JobStatuses
  <2>6. FreeState(jstatus'[j]) \in {"open", "done", "lost"}
    BY <2>5 DEF FreeState
  <2>7. FreeState(jstatus'[j]) = "open" => attempts'[j] < MaxAttempts
    BY DEF FreeState, AttemptsOK, Active
  <2>8. FreeState(jstatus'[j]) = "lost" => attempts'[j] = wattempt[w]
    <3>1. FreeState(jstatus'[j]) = "lost" => jstatus'[j] = "running"
      BY <2>5 DEF FreeState, JobStatuses, Finished
    <3>q. QED  BY <2>3, <3>1 DEF UncountedOK
  <2>9. Board!LetGo(j)
    BY <1>1, <2>1, <2>2, <2>3, <2>4, <2>6, <2>7, <2>8 DEF Board!LetGo
  <2>q. QED  BY <2>9
<1>q. QED  BY <1>2, <1>3

\* A job in no worker's hands stays as it is, is posted, or is taken.
LEMMA FreeStep ==
  ASSUME IInv, MappingOK, [Next]_vars, IInv', MappingOK', NEW j \in JobIds, Holders(j) = {}
  PROVE  Board!Same(j) \/ Board!Post(j) \/ Board!Take(j)
<1> USE DEF IInv, TypeOK, JobTypeOK, WorkerTypeOK, Core
<1>1. BoardState(j) = FreeState(jstatus[j]) /\ BoardTries(j) = attempts[j]
  BY DEF MappingOK
<1>2. ASSUME NEW v \in Workers, HasClaim(v), wjob[v] = j PROVE FALSE
  BY <1>2 DEF Holders
<1>3. ASSUME NEW v \in Workers, HasClaim(v)', wjob'[v] = j PROVE Board!Take(j)
  <2>1. ClaimCommit(v) /\ wjob[v] = j /\ wattempt'[v] = wattempt[v]
    BY <1>2, <1>3, HandsStay DEF ClaimCommit
  <2>2. Holders(j)' = {v} /\ BoardState(j)' = "taken" /\ BoardTries(j)' = wattempt[v]
    BY <1>3, <2>1 DEF MappingOK
  <2>3. FreeState(jstatus[j]) = "open"
    BY <2>1 DEF ClaimCommit, HeldOK, FreeState
  <2>4. attempts[j] = wattempt[v] /\ wattempt[v] < MaxAttempts
    BY <2>1 DEF ClaimCommit, AttemptsOK
  <2>q. QED  BY <1>1, <2>2, <2>3, <2>4 DEF Board!Take
<1>4. CASE \A v \in Workers : HasClaim(v)' => wjob'[v] # j
  <2>1. Holders(j)' = {}
    BY <1>4 DEF Holders
  <2>2. BoardState(j)' = FreeState(jstatus'[j]) /\ BoardTries(j)' = attempts'[j]
    BY <2>1 DEF MappingOK
  <2>3. CASE attempts'[j] = attempts[j] /\ jstatus'[j] = jstatus[j]
    BY <1>1, <2>1, <2>2, <2>3 DEF Board!Same
  <2>4. ASSUME NEW w \in Workers, ClaimCommit(w) \/ Requeue(w) \/ SuccessJob(w) \/ FailureJob(w)
        PROVE  attempts'[j] = attempts[j] /\ jstatus'[j] = jstatus[j]
    <3>1. CASE ClaimCommit(w)
      <4>1. HasClaim(w)' /\ wjob'[w] = wjob[w]
        BY <3>1 DEF ClaimCommit, HasClaim
      <4>2. wjob[w] # j
        BY <1>4, <4>1
      <4>q. QED  BY <3>1, <4>2 DEF ClaimCommit
    <3>2. CASE Requeue(w) \/ SuccessJob(w) \/ FailureJob(w)
      <4>1. wjob[w] # j
        BY <1>2, <3>2 DEF HasClaim, Requeue, SuccessJob, FailureJob
      <4>q. QED  BY <3>2, <4>1 DEF Requeue, SuccessJob, FailureJob
    <3>q. QED  BY <2>4, <3>1, <3>2
  <2>5. ASSUME NEW c \in Callers, EnqueueInsert(c)
        PROVE  Board!Post(j) \/ (attempts'[j] = attempts[j] /\ jstatus'[j] = jstatus[j])
    <3>1. CASE j = lastId'
      <4>1. jstatus[j] = "absent" /\ jstatus'[j] = "queued" /\ attempts'[j] = attempts[j]
        BY <2>5, <3>1, NumbersAssumption DEF EnqueueInsert, FreshOK
      <4>q. QED  BY <1>1, <2>1, <2>2, <4>1 DEF Board!Post, FreeState
    <3>2. CASE j # lastId'
      BY <2>5, <3>2 DEF EnqueueInsert
    <3>q. QED  BY <3>1, <3>2
  <2>6. ASSUME NEW i \in JobIds, RetryDue(i)
        PROVE  attempts'[j] = attempts[j] /\ jstatus'[j] = jstatus[j]
    BY <2>6 DEF RetryDue
  <2>q. QED  BY <2>3, <2>4, <2>5, <2>6, WhoWritesJobs
<1>q. QED  BY <1>3, <1>4

LEMMA StepOnBoard ==
  ASSUME IInv, UncountedOK, MappingOK, [Next]_vars, IInv', MappingOK'
  PROVE  Board!Next
<1> SUFFICES ASSUME NEW j \in JobIds
             PROVE  Board!Post(j) \/ Board!Take(j) \/ Board!LetGo(j) \/ Board!Same(j)
  BY DEF Board!Next
<1>1. CASE Holders(j) = {}
  BY <1>1, FreeStep
<1>2. CASE Holders(j) # {}
  <2>1. PICK w \in Workers : HasClaim(w) /\ wjob[w] = j
    BY <1>2 DEF Holders
  <2>q. QED  BY <2>1, TakenStep
<1>q. QED  BY <1>1, <1>2

\* For every number of workers, callers and jobs, and through every failed
\* statement and crash: a job is open until one worker takes it, and the worker
\* gives it back open, done or lost, counting at most one attempt.
THEOREM QueueIsAJobBoard == Spec => ImplementsBoard
<1>1. Init => UncountedOK
  BY DEF Init, UncountedOK, HasClaim
<1>2. IInv /\ UncountedOK /\ [Next]_vars => (IInv /\ UncountedOK)'
  BY StepInv, UncountedKeeps
<1>3. IInv /\ UncountedOK /\ MappingOK /\ [Next]_vars /\ (IInv /\ MappingOK)' => [Board!Next]_Board!vars
  BY StepOnBoard
<1>q. QED  BY <1>1, <1>2, <1>3, InitInv, InitOnBoard, MappingHolds, PTL DEF Spec, ImplementsBoard, Board!Spec

------------------------------------------------------------------------------
(* Where no statement fails and nothing crashes                              *)

LEMMA NoFaults == ASSUME IInv, MaxFaults = 0 PROVE ~StatementFails
BY DEF IInv, TypeOK, EnvTypeOK, StatementFails

LEMMA NoCrashes == ASSUME IInv, MaxCrashes = 0, NEW p PROVE ~Crash(p)
BY DEF IInv, TypeOK, EnvTypeOK, Crash

\* A held job keeps its shop: rows are inserted under new ids only.
LEMMA ShopStays ==
  ASSUME IInv, [Next]_vars, NEW v \in Workers, pc[v] # "idle", wjob'[v] = wjob[v]
  PROVE  wjob[v] \in JobIds /\ jshop'[wjob[v]] = jshop[wjob[v]] /\ WorkerShop(v)' = WorkerShop(v)
<1> USE DEF IInv, TypeOK, JobTypeOK, WorkerTypeOK, Core
<1>1. wjob[v] \in JobIds /\ wjob[v] # NoJob
  BY NumbersAssumption DEF HandsOK
<1>2. jshop'[wjob[v]] = jshop[wjob[v]]
  <2>1. CASE UNCHANGED jobVars
    BY <2>1
  <2>2. ASSUME NEW w \in Workers, ClaimCommit(w) \/ Requeue(w) \/ SuccessJob(w) \/ FailureJob(w)
        PROVE  UNCHANGED jshop
    BY <2>2 DEF ClaimCommit, Requeue, SuccessJob, FailureJob
  <2>3. ASSUME NEW c \in Callers, EnqueueInsert(c)
        PROVE  jshop'[wjob[v]] = jshop[wjob[v]]
    <3>1. jstatus[wjob[v]] # "absent"
      BY DEF HeldOK, HasClaim, Waiting, Finished
    <3>2. lastId' # wjob[v]
      BY <2>3, <3>1, NumbersAssumption DEF EnqueueInsert, FreshOK
    <3>q. QED  BY <2>3, <3>2 DEF EnqueueInsert
  <2>4. \A j \in JobIds : RetryDue(j) => UNCHANGED jshop
    BY DEF RetryDue
  <2>q. QED  BY <2>1, <2>2, <2>3, <2>4, WhoWritesJobs
<1>q. QED  BY <1>1, <1>2 DEF WorkerShop

\* What one worker does leaves the others' places and hands alone.
LEMMA OthersStand ==
  ASSUME IInv, NEW w \in Workers, WorkerStep(w) \/ WorkerThrows(w), NEW v \in Workers, v # w
  PROVE  pc'[v] = pc[v] /\ wjob'[v] = wjob[v]
<1> USE DEF IInv, TypeOK, WorkerTypeOK
<1>1. CASE ClaimSelect(w) \/ ClaimCommit(w)
  BY <1>1 DEF ClaimSelect, ClaimCommit
<1>2. CASE acquireShopSyncLock(w) \/ Requeue(w) \/ MarkSyncing(w)
  BY <1>2 DEF acquireShopSyncLock, Requeue, MarkSyncing, TurnOver
<1>3. CASE ResolveShop(w) \/ FetchOk(w) \/ FetchFails(w)
  BY <1>3 DEF ResolveShop, FetchOk, FetchFails, GoFail
<1>4. CASE SuccessJob(w) \/ SuccessRow(w) \/ FailureJob(w) \/ FailureRow(w) \/ releaseShopSyncLock(w)
  BY <1>4 DEF SuccessJob, SuccessRow, FailureJob, FailureRow, releaseShopSyncLock, TurnOver
<1>5. CASE WorkerThrows(w)
  BY <1>5 DEF WorkerThrows, ThrowOutOfTurn, ThrowIntoCatch, ThrowInCatch, TurnOver, GoFail
<1>q. QED  BY <1>1, <1>2, <1>3, <1>4, <1>5 DEF WorkerStep

\* A worker stands still unless it steps, throws or dies.
LEMMA WhoMoves ==
  ASSUME IInv, [Next]_vars, NEW v \in Workers
  PROVE  \/ WorkerStep(v) \/ WorkerThrows(v) \/ \E p \in Procs : Crash(p)
         \/ pc'[v] = pc[v] /\ wjob'[v] = wjob[v]
<1>1. ASSUME NEW t \in Ticks, TickStep(t) PROVE UNCHANGED workerVars
  BY <1>1 DEF TickStep, TickStart, RecoverRead, RecoverPatch, RecoverEnd, TickLoad, TickScan, TickEnd
<1>2. ASSUME NEW c \in Callers, EnqueueStep(c) PROVE UNCHANGED workerVars
  BY <1>2 DEF EnqueueStep, EnqueueCheck, EnqueueInsert, CallerFails
<1>3. /\ \A m \in Manuals : ManualStart(m) => UNCHANGED workerVars
      /\ \A j \in JobIds : RetryDue(j) => UNCHANGED workerVars
      /\ \A s \in Shops : LockLapses(s) \/ OtherPathVerifies(s) => UNCHANGED workerVars
  BY DEF ManualStart, RetryDue, LockLapses, OtherPathVerifies
<1>4. ASSUME NEW w \in Workers, WorkerStep(w) \/ WorkerThrows(w)
      PROVE  WorkerStep(v) \/ WorkerThrows(v) \/ (pc'[v] = pc[v] /\ wjob'[v] = wjob[v])
  BY <1>4, OthersStand
<1>q. QED  BY <1>1, <1>2, <1>3, <1>4 DEF Next, vars

\* Once an outcome is written the job is not running any more.
OutcomeOK == \A w \in Workers : pc[w] \in {"done2", "fail2", "release"} => jstatus[wjob[w]] # "running"

LEMMA OutcomeKeeps ==
  ASSUME IInv, OutcomeOK, [Next]_vars, MaxFaults = 0, MaxCrashes = 0
  PROVE  OutcomeOK'
<1> USE DEF IInv, TypeOK, JobTypeOK, WorkerTypeOK, Core
<1> DEFINE Done == {"done2", "fail2", "release"}
<1> SUFFICES ASSUME NEW v \in Workers, pc'[v] \in Done
             PROVE  jstatus'[wjob'[v]] # "running"
  BY DEF OutcomeOK
<1>1. CASE SuccessJob(v) \/ FailureJob(v)
  <2>1. wjob[v] \in JobIds /\ wjob' = wjob
    BY <1>1, NumbersAssumption DEF HandsOK, SuccessJob, FailureJob
  <2>2. jstatus'[wjob[v]] \in {"success", "retry_wait", "failed"}
    BY <1>1, <2>1 DEF SuccessJob, FailureJob
  <2>q. QED  BY <2>1, <2>2
<1>2. CASE pc[v] \in Done /\ wjob'[v] = wjob[v]
  <2>1. jstatus[wjob[v]] # "running" /\ wjob[v] \in JobIds /\ wjob[v] # NoJob
    BY <1>2, NumbersAssumption DEF OutcomeOK, HandsOK
  <2>2. ASSUME NEW w \in Workers, ClaimCommit(w) PROVE wjob[w] # wjob[v]
    BY <1>2, <2>1, <2>2 DEF OneWorkerPerJob, ClaimCommit
  <2>3. ASSUME NEW w \in Workers, ClaimCommit(w) \/ Requeue(w) \/ SuccessJob(w) \/ FailureJob(w)
        PROVE  jstatus'[wjob[v]] # "running"
    BY <2>1, <2>2, <2>3 DEF ClaimCommit, Requeue, SuccessJob, FailureJob
  <2>4. ASSUME NEW c \in Callers, EnqueueInsert(c) PROVE jstatus'[wjob[v]] # "running"
    BY <2>1, <2>4 DEF EnqueueInsert
  <2>5. ASSUME NEW j \in JobIds, RetryDue(j) PROVE jstatus'[wjob[v]] # "running"
    BY <2>1, <2>5 DEF RetryDue
  <2>q. QED  BY <1>2, <2>1, <2>3, <2>4, <2>5, WhoWritesJobs
<1>3. ~WorkerThrows(v) /\ \A p \in Procs : ~Crash(p)
  BY NoFaults, NoCrashes DEF WorkerThrows, ThrowOutOfTurn, ThrowIntoCatch, ThrowInCatch
<1>4. ASSUME WorkerStep(v), ~SuccessJob(v), ~FailureJob(v)
      PROVE  pc[v] \in Done /\ wjob'[v] = wjob[v]
  <2>1. CASE ClaimSelect(v) \/ ClaimCommit(v) \/ acquireShopSyncLock(v) \/ Requeue(v) \/ MarkSyncing(v)
    BY <2>1 DEF ClaimSelect, ClaimCommit, acquireShopSyncLock, Requeue, MarkSyncing, TurnOver
  <2>2. CASE ResolveShop(v) \/ FetchOk(v) \/ FetchFails(v) \/ releaseShopSyncLock(v)
    BY <2>2 DEF ResolveShop, FetchOk, FetchFails, GoFail, releaseShopSyncLock, TurnOver
  <2>3. CASE SuccessRow(v) \/ FailureRow(v)
    BY <2>3 DEF SuccessRow, FailureRow
  <2>q. QED  BY <1>4, <2>1, <2>2, <2>3 DEF WorkerStep
<1>q. QED  BY <1>1, <1>2, <1>3, <1>4, WhoMoves

LEMMA RunningKeeps ==
  ASSUME IInv, OutcomeOK, RunningIsHeld, [Next]_vars, MaxFaults = 0, MaxCrashes = 0
  PROVE  RunningIsHeld'
<1> USE DEF IInv, TypeOK, JobTypeOK, WorkerTypeOK, Core
<1> SUFFICES ASSUME NEW j \in JobIds, jstatus'[j] = "running"
             PROVE  \E w \in Workers : HasClaim(w)' /\ wjob'[w] = j
  BY DEF RunningIsHeld
<1>1. CASE \E w \in Workers : ClaimCommit(w) /\ wjob[w] = j
  BY <1>1 DEF ClaimCommit, HasClaim
<1>2. CASE jstatus[j] = "running"
  <2>1. PICK w \in Workers : HasClaim(w) /\ wjob[w] = j
    BY <1>2 DEF RunningIsHeld
  <2>2. CASE HasClaim(w)'
    BY <2>1, <2>2, HandsStay DEF HasClaim, ClaimCommit
  <2>3. CASE ~HasClaim(w)'
    <3>1. ~WorkerThrows(w) /\ \A p \in Procs : ~Crash(p)
      BY NoFaults, NoCrashes DEF WorkerThrows, ThrowOutOfTurn, ThrowIntoCatch, ThrowInCatch
    <3>2. WorkerStep(w)
      BY <2>1, <2>3, <3>1, WhoMoves DEF HasClaim
    <3>3. CASE Requeue(w)
      BY <2>1, <3>3 DEF Requeue
    <3>4. CASE releaseShopSyncLock(w)
      BY <1>2, <2>1, <3>4 DEF OutcomeOK, releaseShopSyncLock
    <3>5. CASE ClaimSelect(w) \/ ClaimCommit(w) \/ acquireShopSyncLock(w) \/ MarkSyncing(w)
      BY <2>1, <2>3, <3>5 DEF HasClaim, ClaimSelect, ClaimCommit, acquireShopSyncLock, MarkSyncing
    <3>6. CASE ResolveShop(w) \/ FetchOk(w) \/ FetchFails(w)
      BY <2>1, <2>3, <3>6 DEF HasClaim, ResolveShop, FetchOk, FetchFails, GoFail
    <3>7. CASE SuccessJob(w) \/ SuccessRow(w) \/ FailureJob(w) \/ FailureRow(w)
      BY <2>1, <2>3, <3>7 DEF HasClaim, SuccessJob, SuccessRow, FailureJob, FailureRow
    <3>q. QED  BY <3>2, <3>3, <3>4, <3>5, <3>6, <3>7 DEF WorkerStep
  <2>q. QED  BY <2>2, <2>3
<1>3. CASE jstatus[j] # "running" /\ ~\E w \in Workers : ClaimCommit(w) /\ wjob[w] = j
  <2>1. ASSUME NEW w \in Workers, ClaimCommit(w) \/ Requeue(w) \/ SuccessJob(w) \/ FailureJob(w) PROVE FALSE
    BY <1>3, <2>1 DEF ClaimCommit, Requeue, SuccessJob, FailureJob
  <2>2. ASSUME NEW c \in Callers, EnqueueInsert(c) PROVE FALSE
    BY <1>3, <2>2 DEF EnqueueInsert
  <2>3. ASSUME NEW i \in JobIds, RetryDue(i) PROVE FALSE
    BY <1>3, <2>3 DEF RetryDue
  <2>q. QED  BY <1>3, <2>1, <2>2, <2>3, WhoWritesJobs
<1>q. QED  BY <1>1, <1>2, <1>3

\* Where no statement fails and no process dies, and whatever callers, lapsing
\* locks and other programs do: a job marked running is being worked on.
THEOREM RunningJobsAreHeld ==
  ASSUME MaxFaults = 0, MaxCrashes = 0
  PROVE  Spec => []RunningIsHeld
<1>1. Init => OutcomeOK /\ RunningIsHeld
  BY DEF Init, OutcomeOK, RunningIsHeld
<1>2. IInv /\ OutcomeOK /\ RunningIsHeld /\ [Next]_vars => (IInv /\ OutcomeOK /\ RunningIsHeld)'
  BY StepInv, OutcomeKeeps, RunningKeeps
<1>q. QED  BY <1>1, <1>2, InitInv, PTL DEF Spec

------------------------------------------------------------------------------
(* The shop's row and its lock                                               *)

\* The two statements that put a shop under a worker.
TakesShop(w) == (acquireShopSyncLock(w) \/ MarkSyncing(w)) /\ pc'[w] \in {"locked", "resolving"}

\* Who writes sync_lock_until and current_job_id of one shop.
LEMMA WhoLocks ==
  ASSUME IInv, [Next]_vars, NEW s \in Shops
  PROVE  \/ \E w \in Workers : WorkerShop(w) = s /\ (TakesShop(w) \/ releaseShopSyncLock(w))
         \/ lock[s] = "lapsed" /\ lock'[s] = "none" /\ curJob'[s] = NoJob
         \/ LockLapses(s)
         \/ lock'[s] = lock[s] /\ curJob'[s] = curJob[s]
<1> USE DEF IInv, TypeOK, RowTypeOK, WorkerTypeOK, TakesShop
<1> DEFINE Same == lock'[s] = lock[s] /\ curJob'[s] = curJob[s]
<1>1. ASSUME NEW w \in Workers, WorkerStep(w)
      PROVE  Same \/ (WorkerShop(w) = s /\ (TakesShop(w) \/ releaseShopSyncLock(w)))
  <2>1. CASE acquireShopSyncLock(w) \/ MarkSyncing(w)
    BY <2>1 DEF acquireShopSyncLock, MarkSyncing
  <2>2. CASE releaseShopSyncLock(w)
    BY <2>2 DEF releaseShopSyncLock
  <2>3. CASE FetchOk(w) \/ FetchFails(w) \/ SuccessRow(w) \/ FailureRow(w)
    BY <2>3 DEF FetchOk, FetchFails, SuccessRow, FailureRow, PatchFailed, VerifiedHealthy
  <2>q. QED  BY <1>1, <2>1, <2>2, <2>3 DEF WorkerStep, ClaimSelect, ClaimCommit, Requeue, ResolveShop,
                SuccessJob, FailureJob
<1>2. ASSUME NEW w \in Workers, WorkerThrows(w) PROVE Same
  BY <1>2 DEF WorkerThrows, ThrowOutOfTurn, ThrowIntoCatch, ThrowInCatch, VerifiedHealthy, PatchFailed
<1>3. ASSUME NEW t \in Ticks, TickStep(t)
      PROVE  Same \/ (lock[s] = "lapsed" /\ lock'[s] = "none" /\ curJob'[s] = NoJob)
  BY <1>3 DEF TickStep, TickStart, releaseExpiredLocks, RecoverRead, RecoverPatch, RecoverEnd, TickLoad, TickScan, TickEnd
<1>4. ASSUME NEW c \in Callers, EnqueueStep(c) PROVE Same
  BY <1>4 DEF EnqueueStep, EnqueueCheck, EnqueueInsert, CallerFails
<1>5. ASSUME NEW x \in Shops, LockLapses(x) \/ OtherPathVerifies(x) PROVE Same \/ LockLapses(s)
  BY <1>5 DEF LockLapses, OtherPathVerifies, VerifiedHealthy
<1>6. /\ \A m \in Manuals : ManualStart(m) => Same
      /\ \A j \in JobIds : RetryDue(j) => Same
      /\ \A p \in Procs : Crash(p) => Same
  BY DEF ManualStart, RetryDue, Crash
<1>7. CASE UNCHANGED vars
  BY <1>7 DEF vars
<1>q. QED  BY <1>1, <1>2, <1>3, <1>4, <1>5, <1>6, <1>7 DEF Next

\* Who writes "syncing" in the row of one shop.
LEMMA WhoMarks ==
  ASSUME IInv, [Next]_vars, NEW s \in Shops, row'[s] = "syncing", row[s] # "syncing"
  PROVE  \E w \in Workers : WorkerShop(w) = s /\ TakesShop(w)
<1> USE DEF IInv, TypeOK, RowTypeOK, WorkerTypeOK, TakesShop
<1>1. ASSUME NEW w \in Workers, WorkerStep(w) PROVE WorkerShop(w) = s /\ TakesShop(w)
  <2>1. CASE acquireShopSyncLock(w) \/ MarkSyncing(w)
    BY <2>1 DEF acquireShopSyncLock, MarkSyncing
  <2>2. CASE FetchOk(w) \/ FetchFails(w) \/ SuccessRow(w) \/ FailureRow(w)
    BY <2>2 DEF FetchOk, FetchFails, SuccessRow, FailureRow, PatchFailed, VerifiedHealthy, FailureRowStatus
  <2>q. QED  BY <1>1, <2>1, <2>2 DEF WorkerStep, ClaimSelect, ClaimCommit, Requeue, ResolveShop,
                SuccessJob, FailureJob, releaseShopSyncLock
<1>2. ASSUME NEW w \in Workers, WorkerThrows(w) PROVE FALSE
  BY <1>2 DEF WorkerThrows, ThrowOutOfTurn, ThrowIntoCatch, ThrowInCatch, VerifiedHealthy, PatchFailed, FailureRowStatus
<1>3. ASSUME NEW t \in Ticks, TickStep(t) PROVE FALSE
  BY <1>3 DEF TickStep, TickStart, releaseExpiredLocks, RecoverRead, RecoverPatch, RecoverEnd, TickLoad, TickScan, TickEnd
<1>4. ASSUME NEW c \in Callers, EnqueueStep(c) PROVE FALSE
  BY <1>4 DEF EnqueueStep, EnqueueCheck, EnqueueInsert, CallerFails
<1>5. ASSUME NEW x \in Shops, LockLapses(x) \/ OtherPathVerifies(x) PROVE FALSE
  BY <1>5 DEF LockLapses, OtherPathVerifies, VerifiedHealthy
<1>6. /\ \A m \in Manuals : ~ManualStart(m)
      /\ \A j \in JobIds : ~RetryDue(j)
      /\ \A p \in Procs : ~Crash(p)
  BY DEF ManualStart, RetryDue, Crash
<1>q. QED  BY <1>1, <1>2, <1>3, <1>4, <1>5, <1>6 DEF Next, vars

\* The worker that takes a shop is in its locked section, on the same job.
LEMMA TakerIsInside ==
  ASSUME IInv, NEW w \in Workers, TakesShop(w)
  PROVE  pc[w] # "idle" /\ InLockedSection(w)' /\ pc'[w] # "release" /\ wjob'[w] = wjob[w]
BY DEF IInv, TypeOK, WorkerTypeOK, TakesShop, acquireShopSyncLock, MarkSyncing, InLockedSection, WorkerPCs

\* Where no statement fails and nothing crashes, a locked section is left by its
\* release, and a worker on its way to the release has cleared "syncing".
LEMMA SectionStays ==
  ASSUME IInv, [Next]_vars, MaxFaults = 0, MaxCrashes = 0, NEW w \in Workers, InLockedSection(w)
  PROVE  \/ releaseShopSyncLock(w)
         \/ /\ InLockedSection(w)' /\ wjob'[w] = wjob[w]
            /\ pc[w] # "release" => \/ pc'[w] # "release"
                                 \/ \A s \in Shops : WorkerShop(w) = s => row'[s] # "syncing"
<1> USE DEF IInv, TypeOK, RowTypeOK, JobTypeOK, WorkerTypeOK, Core
<1>1. CASE pc'[w] = pc[w] /\ wjob'[w] = wjob[w]
  BY <1>1 DEF InLockedSection
<1>2. ~WorkerThrows(w) /\ \A p \in Procs : ~Crash(p)
  BY NoFaults, NoCrashes DEF WorkerThrows, ThrowOutOfTurn, ThrowIntoCatch, ThrowInCatch
<1>3. ~ClaimSelect(w) /\ ~ClaimCommit(w) /\ ~acquireShopSyncLock(w) /\ ~Requeue(w)
  BY DEF InLockedSection, ClaimSelect, ClaimCommit, acquireShopSyncLock, Requeue
<1>4. CASE MarkSyncing(w) \/ ResolveShop(w) \/ FetchOk(w) \/ FetchFails(w)
  BY <1>4 DEF InLockedSection, WorkerPCs, MarkSyncing, ResolveShop, FetchOk, FetchFails, GoFail
<1>5. CASE SuccessJob(w) \/ FailureJob(w)
  BY <1>5 DEF InLockedSection, WorkerPCs, SuccessJob, FailureJob
<1>6. CASE SuccessRow(w) \/ FailureRow(w)
  <2>1. \A s \in Shops : WorkerShop(w) = s => row'[s] # "syncing"
    BY <1>6 DEF SuccessRow, FailureRow, PatchFailed, VerifiedHealthy, FailureRowStatus
  <2>q. QED  BY <1>6, <2>1 DEF InLockedSection, WorkerPCs, SuccessRow, FailureRow
<1>q. QED  BY <1>1, <1>2, <1>3, <1>4, <1>5, <1>6, WhoMoves DEF WorkerStep

\* What QuietShopsAreClean needs to be inductive: the traces of a sync point at
\* the worker that clears them.
TracesOK ==
  \A s \in Shops :
    /\ row[s] = "syncing" =>
         \E w \in Workers : InLockedSection(w) /\ pc[w] # "release" /\ WorkerShop(w) = s
    /\ lock[s] # "none" \/ curJob[s] # NoJob =>
         \E w \in Workers : InLockedSection(w) /\ WorkerShop(w) = s

LEMMA TracesKeep ==
  ASSUME IInv, TracesOK, [Next]_vars, MaxFaults = 0, MaxCrashes = 0
  PROVE  TracesOK'
<1> USE DEF IInv, TypeOK, RowTypeOK
<1> SUFFICES ASSUME NEW s \in Shops
             PROVE  /\ row'[s] = "syncing" =>
                         \E w \in Workers : (InLockedSection(w) /\ pc[w] # "release" /\ WorkerShop(w) = s)'
                    /\ lock'[s] # "none" \/ curJob'[s] # NoJob =>
                         \E w \in Workers : (InLockedSection(w) /\ WorkerShop(w) = s)'
  BY DEF TracesOK
<1>1. ASSUME NEW w \in Workers, TakesShop(w), WorkerShop(w) = s
      PROVE  InLockedSection(w)' /\ pc'[w] # "release" /\ WorkerShop(w)' = s
  BY <1>1, TakerIsInside, ShopStays
<1>2. ASSUME NEW w \in Workers, InLockedSection(w), WorkerShop(w) = s, ~releaseShopSyncLock(w)
      PROVE  InLockedSection(w)' /\ WorkerShop(w)' = s
  <2>1. pc[w] # "idle" /\ wjob'[w] = wjob[w] /\ InLockedSection(w)'
    BY <1>2, SectionStays DEF InLockedSection
  <2>q. QED  BY <1>2, <2>1, ShopStays
<1>3. ASSUME row'[s] = "syncing"
      PROVE  \E w \in Workers : (InLockedSection(w) /\ pc[w] # "release" /\ WorkerShop(w) = s)'
  <2>1. CASE row[s] # "syncing"
    BY <1>1, <1>3, <2>1, WhoMarks
  <2>2. CASE row[s] = "syncing"
    <3>1. PICK w \in Workers : InLockedSection(w) /\ pc[w] # "release" /\ WorkerShop(w) = s
      BY <2>2 DEF TracesOK
    <3>2. ~releaseShopSyncLock(w)
      BY <3>1 DEF releaseShopSyncLock
    <3>3. pc'[w] # "release"
      BY <1>3, <3>1, <3>2, SectionStays
    <3>q. QED  BY <1>2, <3>1, <3>2, <3>3
  <2>q. QED  BY <2>1, <2>2
<1>4. ASSUME lock'[s] # "none" \/ curJob'[s] # NoJob
      PROVE  \E w \in Workers : (InLockedSection(w) /\ WorkerShop(w) = s)'
  <2>1. ASSUME NEW w \in Workers, releaseShopSyncLock(w) PROVE WorkerShop(w) # s
    BY <1>4, <2>1 DEF releaseShopSyncLock
  <2>2. CASE lock[s] = "none" /\ curJob[s] = NoJob
    <3>1. ~LockLapses(s)
      BY <2>2 DEF LockLapses
    <3>2. \E w \in Workers : WorkerShop(w) = s /\ TakesShop(w)
      BY <1>4, <2>1, <2>2, <3>1, WhoLocks
    <3>q. QED  BY <1>1, <3>2
  <2>3. CASE lock[s] # "none" \/ curJob[s] # NoJob
    <3>1. PICK w \in Workers : InLockedSection(w) /\ WorkerShop(w) = s
      BY <2>3 DEF TracesOK
    <3>q. QED  BY <1>2, <2>1, <3>1
  <2>q. QED  BY <2>2, <2>3
<1>q. QED  BY <1>3, <1>4

\* Where no statement fails and no process dies, for every number of workers
\* and duplicate jobs, with locks that lapse early and other programs writing
\* the row: a shop no worker is syncing has no lock, no current job and no
\* "syncing" in its row.
THEOREM QuietShopsStayClean ==
  ASSUME MaxFaults = 0, MaxCrashes = 0
  PROVE  Spec => []QuietShopsAreClean
<1>1. Init => TracesOK
  BY DEF Init, TracesOK
<1>2. IInv /\ TracesOK /\ [Next]_vars => (IInv /\ TracesOK)'
  BY StepInv, TracesKeep
<1>3. TracesOK => QuietShopsAreClean
  BY DEF TracesOK, QuietShopsAreClean
<1>q. QED  BY <1>1, <1>2, <1>3, InitInv, PTL DEF Spec

\* A locked section begins by taking the lock.
LEMMA SectionBegins ==
  ASSUME IInv, [Next]_vars, NEW w \in Workers, InLockedSection(w)'
  PROVE  \/ TakesShop(w)
         \/ InLockedSection(w) /\ wjob'[w] = wjob[w]
<1> USE DEF IInv, TypeOK, WorkerTypeOK, InLockedSection, TakesShop
<1>1. CASE pc'[w] = pc[w] /\ wjob'[w] = wjob[w]
  BY <1>1
<1>2. CASE ClaimSelect(w) \/ ClaimCommit(w) \/ acquireShopSyncLock(w) \/ Requeue(w) \/ MarkSyncing(w)
  BY <1>2 DEF ClaimSelect, ClaimCommit, acquireShopSyncLock, Requeue, MarkSyncing, TurnOver
<1>3. CASE ResolveShop(w) \/ FetchOk(w) \/ FetchFails(w) \/ SuccessJob(w) \/ SuccessRow(w)
  BY <1>3 DEF ResolveShop, FetchOk, FetchFails, GoFail, SuccessJob, SuccessRow
<1>4. CASE FailureJob(w) \/ FailureRow(w) \/ releaseShopSyncLock(w)
  BY <1>4 DEF FailureJob, FailureRow, releaseShopSyncLock, TurnOver
<1>5. CASE WorkerThrows(w)
  BY <1>5 DEF WorkerThrows, ThrowOutOfTurn, ThrowIntoCatch, ThrowInCatch, TurnOver, GoFail
<1>6. ASSUME NEW p \in Procs, Crash(p) PROVE InLockedSection(w) /\ wjob'[w] = wjob[w]
  BY <1>6 DEF Crash
<1>q. QED  BY <1>1, <1>2, <1>3, <1>4, <1>5, <1>6, WhoMoves DEF WorkerStep

\* Callers move by their own steps and by crashes.
LEMMA CallersStand ==
  ASSUME [Next]_vars
  PROVE  \/ UNCHANGED callerVars
         \/ \E t \in Ticks : TickStep(t)
         \/ \E m \in Manuals : ManualStart(m)
         \/ \E c \in Callers : EnqueueStep(c)
         \/ \E p \in Procs : Crash(p)
<1>1. ASSUME NEW w \in Workers, WorkerStep(w) PROVE UNCHANGED callerVars
  BY <1>1 DEF WorkerStep, ClaimSelect, ClaimCommit, acquireShopSyncLock, Requeue, MarkSyncing, ResolveShop, FetchOk,
       FetchFails, SuccessJob, SuccessRow, FailureJob, FailureRow, releaseShopSyncLock
<1>2. ASSUME NEW w \in Workers, WorkerThrows(w) PROVE UNCHANGED callerVars
  BY <1>2 DEF WorkerThrows, ThrowOutOfTurn, ThrowIntoCatch, ThrowInCatch
<1>3. /\ \A j \in JobIds : RetryDue(j) => UNCHANGED callerVars
      /\ \A s \in Shops : LockLapses(s) \/ OtherPathVerifies(s) => UNCHANGED callerVars
  BY DEF RetryDue, LockLapses, OtherPathVerifies
<1>q. QED  BY <1>1, <1>2, <1>3 DEF Next, vars

\* A caller about to enqueue has a shop in hand, and every row of the job table
\* is a shop's.
ShopsOK ==
  /\ \A c \in Callers : cpc[c] \in {"check", "insert"} => cshop[c] \in Shops
  /\ \A j \in JobIds : jstatus[j] # "absent" => jshop[j] \in Shops

LEMMA ShopsKeep ==
  ASSUME IInv, ShopsOK, [Next]_vars
  PROVE  ShopsOK'
<1> USE DEF IInv, TypeOK, JobTypeOK, WorkerTypeOK, CallerTypeOK, Core
<1>1. ASSUME NEW j \in JobIds, jstatus'[j] # "absent" PROVE jshop'[j] \in Shops
  <2>1. CASE UNCHANGED jobVars
    BY <1>1, <2>1 DEF ShopsOK
  <2>2. ASSUME NEW w \in Workers, ClaimCommit(w) \/ Requeue(w) \/ SuccessJob(w) \/ FailureJob(w)
        PROVE  jshop'[j] \in Shops
    <3>1. jshop' = jshop
      BY <2>2 DEF ClaimCommit, Requeue, SuccessJob, FailureJob
    <3>2. jstatus[wjob[w]] # "absent"
      BY <2>2 DEF HeldOK, BeforeOutcome, HasClaim, Waiting, Finished, ClaimCommit, Requeue, SuccessJob, FailureJob
    <3>3. jstatus[j] # "absent"
      BY <1>1, <2>2, <3>2 DEF ClaimCommit, Requeue, SuccessJob, FailureJob
    <3>q. QED  BY <3>1, <3>3 DEF ShopsOK
  <2>3. ASSUME NEW c \in Callers, EnqueueInsert(c) PROVE jshop'[j] \in Shops
    BY <1>1, <2>3 DEF ShopsOK, EnqueueInsert
  <2>4. ASSUME NEW i \in JobIds, RetryDue(i) PROVE jshop'[j] \in Shops
    BY <1>1, <2>4 DEF ShopsOK, RetryDue
  <2>q. QED  BY <2>1, <2>2, <2>3, <2>4, WhoWritesJobs
<1>2. ASSUME NEW c \in Callers, cpc'[c] \in {"check", "insert"} PROVE cshop'[c] \in Shops
  <2>1. CASE UNCHANGED callerVars
    BY <1>2, <2>1 DEF ShopsOK
  <2>2. ASSUME NEW t \in Ticks, TickStep(t) PROVE cshop'[c] \in Shops
    <3>1. CASE TickScan(t)
      BY <1>2, <3>1 DEF ShopsOK, TickScan, Callers
    <3>2. CASE ~TickScan(t)
      BY <1>2, <2>2, <3>2 DEF ShopsOK, Callers, TickStep, TickStart, RecoverRead, RecoverPatch, RecoverEnd, TickLoad, TickEnd
    <3>q. QED  BY <3>1, <3>2
  <2>3. ASSUME NEW m \in Manuals, ManualStart(m) PROVE cshop'[c] \in Shops
    BY <1>2, <2>3 DEF ShopsOK, ManualStart, Callers
  <2>4. ASSUME NEW d \in Callers, EnqueueStep(d) PROVE cshop'[c] \in Shops
    BY <1>2, <2>4 DEF ShopsOK, EnqueueStep, EnqueueCheck, EnqueueInsert, CallerFails, AfterEnqueue
  <2>5. ASSUME NEW p \in Procs, Crash(p) PROVE cshop'[c] \in Shops
    BY <1>2, <2>5 DEF ShopsOK, Crash
  <2>q. QED  BY <2>1, <2>2, <2>3, <2>4, <2>5, CallersStand
<1>q. QED  BY <1>1, <1>2 DEF ShopsOK

\* Another worker of the shop is at a statement that writes the lock.
Disturbs(v, w) ==
  v # w /\ WorkerShop(v) = WorkerShop(w) /\ pc[v] \in {"claimed", "locked", "release"} /\ pc'[v] # pc[v]

\* Unless one does, a worker owns the lock from its acquisition to its release.
LEMMA OwnKeeps ==
  ASSUME IInv, ShopsOK, [Next]_vars, LockCoversSync, NEW w \in Workers, InLockedSection(w)',
         InLockedSection(w) => OwnsLock(w), \A v \in Workers : ~Disturbs(v, w)
  PROVE  OwnsLock(w)'
<1> USE DEF IInv, TypeOK, RowTypeOK, JobTypeOK, WorkerTypeOK, Core
<1> SUFFICES lock'[WorkerShop(w)'] = "held" /\ curJob'[WorkerShop(w)'] = wjob'[w]
  BY DEF OwnsLock
<1> DEFINE s == WorkerShop(w)
<1>1. pc[w] # "idle" /\ wjob'[w] = wjob[w] /\ wjob[w] \in JobIds /\ wjob[w] # NoJob
  BY SectionBegins, TakerIsInside, NumbersAssumption DEF InLockedSection, HandsOK
<1>2. WorkerShop(w)' = s /\ s = jshop[wjob[w]]
  BY <1>1, ShopStays DEF WorkerShop
<1>3. s \in Shops
  <2>1. jstatus[wjob[w]] # "absent"
    BY <1>1 DEF HeldOK, HasClaim, Waiting, Finished
  <2>q. QED  BY <1>1, <1>2, <2>1 DEF ShopsOK
<1>4. CASE acquireShopSyncLock(w)
  BY <1>1, <1>2, <1>3, <1>4 DEF acquireShopSyncLock, InLockedSection
<1>5. CASE MarkSyncing(w)
  BY <1>1, <1>2, <1>3, <1>5 DEF MarkSyncing, OwnsLock, InLockedSection, WorkerPCs
<1>6. CASE ~TakesShop(w)
  <2>1. InLockedSection(w) /\ ~releaseShopSyncLock(w)
    BY <1>6, SectionBegins DEF releaseShopSyncLock, TurnOver, InLockedSection
  <2>2. lock[s] = "held" /\ curJob[s] = wjob[w]
    BY <2>1 DEF OwnsLock
  <2>3. ~LockLapses(s)
    BY <2>1 DEF LockLapses
  <2>4. ASSUME NEW v \in Workers, WorkerShop(v) = s, TakesShop(v) \/ releaseShopSyncLock(v) PROVE FALSE
    <3>1. v # w
      BY <1>6, <2>1, <2>4
    <3>2. pc[v] \in {"claimed", "locked", "release"} /\ pc'[v] # pc[v]
      BY <2>4 DEF TakesShop, acquireShopSyncLock, MarkSyncing, releaseShopSyncLock, TurnOver
    <3>q. QED  BY <2>4, <3>1, <3>2 DEF Disturbs
  <2>5. lock'[s] = lock[s] /\ curJob'[s] = curJob[s]
    BY <1>3, <2>2, <2>3, <2>4, WhoLocks
  <2>q. QED  BY <1>1, <1>2, <2>2, <2>5
<1>q. QED  BY <1>4, <1>5, <1>6 DEF TakesShop

\* Where every lock outlasts every sync, for any number of workers, duplicate
\* jobs, failed statements and crashes: only another worker of the same shop
\* takes a worker's lock away.
THEOREM LocksGoToWorkers ==
  ASSUME LockCoversSync
  PROVE  Spec => OnlyWorkersTakeLocks
<1>1. Init => ShopsOK
  BY DEF Init, ShopsOK
<1>2. IInv /\ ShopsOK /\ [Next]_vars => (IInv /\ ShopsOK)'
  BY StepInv, ShopsKeep
<1>3. ASSUME IInv, ShopsOK, [Next]_vars, NEW w \in Workers,
             InLockedSection(w), OwnsLock(w), InLockedSection(w)', ~OwnsLock(w)'
      PROVE  \E v \in Workers : Disturbs(v, w)
  BY <1>3, OwnKeeps
<1>4. IInv /\ ShopsOK /\ [Next]_vars =>
        [\A w \in Workers :
           (InLockedSection(w) /\ OwnsLock(w) /\ InLockedSection(w)' /\ ~OwnsLock(w)')
             => \E v \in Workers \ {w} : /\ WorkerShop(v) = WorkerShop(w)
                                         /\ pc[v] \in {"claimed", "locked", "release"} /\ pc'[v] # pc[v]]_vars
  BY <1>3 DEF Disturbs
<1>q. QED  BY <1>1, <1>2, <1>4, InitInv, PTL DEF Spec, OnlyWorkersTakeLocks

\* With one worker loop and a lock that outlasts every sync, whatever callers,
\* failed statements and crashes do: from lock to release the shop's row holds
\* the worker's own lock.
THEOREM LoneWorkersOwnTheirLock ==
  ASSUME LockCoversSync, \A v, w \in Workers : v = w
  PROVE  Spec => []LockIsOwn
<1>1. Init => ShopsOK /\ LockIsOwn
  BY DEF Init, ShopsOK, LockIsOwn, InLockedSection
<1>2. IInv /\ ShopsOK /\ LockIsOwn /\ [Next]_vars => (IInv /\ ShopsOK /\ LockIsOwn)'
  <2>1. ASSUME IInv, ShopsOK, LockIsOwn, [Next]_vars, NEW w \in Workers, InLockedSection(w)' PROVE OwnsLock(w)'
    <3>1. \A v \in Workers : ~Disturbs(v, w)
      BY DEF Disturbs
    <3>q. QED  BY <2>1, <3>1, OwnKeeps DEF LockIsOwn
  <2>q. QED  BY <2>1, StepInv, ShopsKeep DEF LockIsOwn
<1>q. QED  BY <1>1, <1>2, InitInv, PTL DEF Spec

------------------------------------------------------------------------------
(* One enqueuer                                                              *)

\* What OnePullPerShop needs to be inductive. The last part fails after a
\* failed statement: the catch block records a failure of a job that succeeded.
OneActiveOK ==
  /\ \A i, j \in JobIds :
       jstatus[i] \in Active /\ jstatus[j] \in Active /\ jshop[i] = jshop[j] => i = j
  /\ \A c \in Callers : cpc[c] = "insert" => ~hasActiveJobForShop(cshop[c])
  /\ \A w \in Workers : pc[w] = "fail1" => jstatus[wjob[w]] = "running"

\* An active job was active, or has just been inserted.
LEMMA ActiveIsOld ==
  ASSUME IInv, OneActiveOK, [Next]_vars, NEW j \in JobIds, jstatus'[j] \in Active
  PROVE  \/ jstatus[j] \in Active /\ jshop'[j] = jshop[j]
         \/ \E c \in Callers : EnqueueInsert(c) /\ j = lastId' /\ jshop'[j] = cshop[c]
<1> USE DEF IInv, TypeOK, JobTypeOK, WorkerTypeOK, Core
<1>1. CASE UNCHANGED jobVars
  BY <1>1
<1>2. ASSUME NEW w \in Workers, ClaimCommit(w) \/ Requeue(w) \/ SuccessJob(w) \/ FailureJob(w)
      PROVE  jstatus[j] \in Active /\ jshop'[j] = jshop[j]
  <2>1. jstatus[wjob[w]] \in Active
    BY <1>2 DEF HeldOK, BeforeOutcome, OneActiveOK, Active, ClaimCommit, Requeue, SuccessJob, FailureJob
  <2>q. QED  BY <1>2, <2>1 DEF ClaimCommit, Requeue, SuccessJob, FailureJob
<1>3. ASSUME NEW c \in Callers, EnqueueInsert(c)
      PROVE  (jstatus[j] \in Active /\ jshop'[j] = jshop[j]) \/ (j = lastId' /\ jshop'[j] = cshop[c])
  BY <1>3 DEF EnqueueInsert
<1>4. ASSUME NEW i \in JobIds, RetryDue(i) PROVE jstatus[j] \in Active /\ jshop'[j] = jshop[j]
  BY <1>4 DEF RetryDue
<1>q. QED  BY <1>1, <1>2, <1>3, <1>4, WhoWritesJobs

LEMMA OneActiveKeeps ==
  ASSUME IInv, OneActiveOK, [Next]_vars, MaxFaults = 0, \A c, d \in Callers : c = d
  PROVE  OneActiveOK'
<1> USE DEF IInv, TypeOK, JobTypeOK, WorkerTypeOK, CallerTypeOK, Core
<1>1. ASSUME NEW i \in JobIds, NEW j \in JobIds,
             jstatus'[i] \in Active, jstatus'[j] \in Active, jshop'[i] = jshop'[j]
      PROVE  i = j
  <2>1. ASSUME NEW k \in JobIds, jstatus[k] \in Active, NEW c \in Callers, EnqueueInsert(c)
        PROVE  jshop[k] # cshop[c]
    BY <2>1 DEF OneActiveOK, hasActiveJobForShop, EnqueueInsert
  <2>q. QED  BY <1>1, <2>1, ActiveIsOld, SMTT(30) DEF OneActiveOK
<1>2. ASSUME NEW c \in Callers, cpc'[c] = "insert" PROVE ~hasActiveJobForShop(cshop[c])'
  <2>1. ~EnqueueInsert(c)
    BY <1>2 DEF EnqueueInsert, AfterEnqueue
  <2>2. \A d \in Callers : ~EnqueueInsert(d)
    BY <2>1
  <2>3. ~hasActiveJobForShop(cshop[c]) /\ cshop'[c] = cshop[c]
    <3>1. CASE UNCHANGED callerVars
      BY <1>2, <3>1 DEF OneActiveOK
    <3>2. ASSUME NEW t \in Ticks, TickStep(t) PROVE cpc[c] = "insert" /\ cshop'[c] = cshop[c]
      BY <1>2, <3>2 DEF Callers, TickStep, TickStart, RecoverRead, RecoverPatch, RecoverEnd, TickLoad, TickScan, TickEnd
    <3>3. \A m \in Manuals : ~ManualStart(m)
      BY <1>2 DEF ManualStart, Callers
    <3>4. CASE EnqueueCheck(c)
      BY <1>2, <3>4 DEF EnqueueCheck, AfterEnqueue
    <3>5. ~CallerFails(c)
      BY <1>2 DEF CallerFails
    <3>6. ASSUME NEW p \in Procs, Crash(p) PROVE cpc[c] = "insert" /\ cshop'[c] = cshop[c]
      BY <1>2, <3>6 DEF Crash
    <3>q. QED  BY <2>1, <3>1, <3>2, <3>3, <3>4, <3>5, <3>6, CallersStand DEF EnqueueStep, OneActiveOK
  <2>4. \A j \in JobIds : jstatus'[j] \in Active => jstatus[j] \in Active /\ jshop'[j] = jshop[j]
    BY <2>2, ActiveIsOld
  <2>q. QED  BY <2>3, <2>4 DEF hasActiveJobForShop
<1>3. ASSUME NEW w \in Workers, pc'[w] = "fail1" PROVE jstatus'[wjob'[w]] = "running"
  <2>1. ~WorkerThrows(w)
    BY NoFaults DEF WorkerThrows, ThrowOutOfTurn, ThrowIntoCatch, ThrowInCatch
  <2>2. CASE ResolveShop(w) \/ FetchFails(w)
    BY <2>2 DEF ResolveShop, FetchFails, HeldOK, BeforeOutcome
  <2>3. CASE pc[w] = "fail1" /\ wjob'[w] = wjob[w]
    <3>1. jstatus[wjob[w]] = "running" /\ wjob[w] \in JobIds /\ wjob[w] # NoJob
      BY <2>3, NumbersAssumption DEF OneActiveOK, HandsOK
    <3>2. ~FailureJob(w)
      BY <1>3 DEF FailureJob
    <3>3. ASSUME NEW v \in Workers, ClaimCommit(v) \/ Requeue(v) \/ SuccessJob(v) \/ FailureJob(v)
          PROVE  jstatus'[wjob[w]] = "running"
      <4>1. v # w
        BY <2>3, <3>2, <3>3 DEF ClaimCommit, Requeue, SuccessJob
      <4>2. wjob[v] # wjob[w]
        BY <3>1, <4>1 DEF OneWorkerPerJob
      <4>q. QED  BY <3>1, <3>3, <4>2 DEF ClaimCommit, Requeue, SuccessJob, FailureJob
    <3>4. ASSUME NEW c \in Callers, EnqueueInsert(c) PROVE jstatus'[wjob[w]] = "running"
      BY <3>1, <3>4, NumbersAssumption DEF EnqueueInsert, FreshOK
    <3>5. \A j \in JobIds : RetryDue(j) => UNCHANGED jstatus
      BY DEF RetryDue
    <3>q. QED  BY <2>3, <3>1, <3>3, <3>4, <3>5, WhoWritesJobs
  <2>4. ASSUME WorkerStep(w), ~ResolveShop(w), ~FetchFails(w) PROVE FALSE
    BY <1>3, <2>4 DEF WorkerStep, ClaimSelect, ClaimCommit, acquireShopSyncLock, Requeue, MarkSyncing, FetchOk,
         SuccessJob, SuccessRow, FailureJob, FailureRow, releaseShopSyncLock, TurnOver
  <2>5. ASSUME NEW p \in Procs, Crash(p) PROVE pc[w] = "fail1" /\ wjob'[w] = wjob[w]
    BY <1>3, <2>5 DEF Crash
  <2>q. QED  BY <1>3, <2>1, <2>2, <2>3, <2>4, <2>5, WhoMoves
<1>q. QED  BY <1>1, <1>2, <1>3 DEF OneActiveOK

\* With one enqueuer and no failed statement, for every number of workers and
\* of crashes: two workers never pull the orders of the same shop at once.
THEOREM ShopsArePulledOnce ==
  ASSUME MaxFaults = 0, \A c, d \in Callers : c = d
  PROVE  Spec => []OnePullPerShop
<1>1. Init => OneActiveOK
  BY DEF Init, OneActiveOK, Active
<1>2. IInv /\ OneActiveOK /\ [Next]_vars => (IInv /\ OneActiveOK)'
  BY StepInv, OneActiveKeeps
<1>3. IInv /\ OneActiveOK => OnePullPerShop
  <2> SUFFICES ASSUME IInv, OneActiveOK, NEW v \in Workers, NEW w \in Workers,
                      v # w, Pulling(v), Pulling(w), WorkerShop(v) = WorkerShop(w)
               PROVE  FALSE
    BY DEF OnePullPerShop
  <2> USE DEF IInv, TypeOK, WorkerTypeOK, Core, Pulling
  <2>1. wjob[v] \in JobIds /\ wjob[w] \in JobIds /\ wjob[v] # NoJob /\ wjob[w] # NoJob
    BY NumbersAssumption DEF HandsOK
  <2>2. jstatus[wjob[v]] = "running" /\ jstatus[wjob[w]] = "running"
    BY DEF HeldOK, BeforeOutcome
  <2>3. wjob[v] = wjob[w]
    BY <2>1, <2>2 DEF OneActiveOK, Active, WorkerShop
  <2>q. QED  BY <2>1, <2>3 DEF OneWorkerPerJob
<1>q. QED  BY <1>1, <1>2, <1>3, InitInv, PTL DEF Spec

==============================================================================
