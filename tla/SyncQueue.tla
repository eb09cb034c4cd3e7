------------------------------ MODULE SyncQueue ------------------------------
(***************************************************************************)
(* The MySQL job queue that pulls the orders of every authorised shop:     *)
(* backend/sync/** and the parts of modules/sync and lib that write the    *)
(* same two tables.                                                        *)
(*                                                                         *)
(*   - scheduler ticks and manual requests (Callers) check the table       *)
(*     sync_jobs for an active job of a shop and then insert one;          *)
(*   - workers claim the best claimable job in a transaction, take the     *)
(*     shop's lock in shop_sync_status, sync the shop, write the outcome   *)
(*     to the job and to the shop's row, and release the lock.             *)
(*                                                                         *)
(* Each action is what one caller or worker does between two awaits: one   *)
(* database statement or transaction, with the synchronous code around it. *)
(* Every statement can fail (MaxFaults of them) and every process can die  *)
(* and be restarted (MaxCrashes of them) between any two actions.          *)
(*                                                                         *)
(* Clock columns are abstracted to what the queries compare: a lock is     *)
(* "none", "held" (sync_lock_until in the future) or "lapsed" (in the      *)
(* past); next_retry_at is "none", "future" or "due".                      *)
(***************************************************************************)
EXTENDS Naturals, FiniteSets

CONSTANTS
  Shops,          \* the shops of the deployment
  NoShop,         \* no shop in hand
  Workers,        \* worker loops, over all processes
  Ticks,          \* scheduler ticks that can be in flight, over all processes
  Manuals,        \* manual sync requests that can be in flight
  Procs,          \* server processes
  Host,           \* the process a worker, tick or request runs in
  MaxJobs,        \* bound: rows ever inserted in sync_jobs
  MaxAttempts,    \* MAX_ATTEMPTS of syncRetryPolicy.js (5 in the code)
  RetryEnabled,   \* SYNC_JOB_RETRY_ENABLED
  LockCoversSync, \* TRUE: SYNC_LOCK_TIMEOUT_MS exceeds the length of any sync
  OtherSyncPaths, \* TRUE: collectOnce, direct runs and health repair also run
  MaxFaults,      \* bound: database statements that fail
  MaxCrashes      \* bound: process crashes

Callers == Ticks \cup Manuals

ASSUME SetsAssumption ==
  /\ NoShop \notin Shops
  /\ Workers \cap Callers = {}
  /\ Ticks \cap Manuals = {}
  /\ Host \in [Workers \cup Callers -> Procs]

ASSUME NumbersAssumption ==
  /\ MaxJobs \in Nat
  /\ MaxAttempts \in Nat \ {0}
  /\ MaxFaults \in Nat
  /\ MaxCrashes \in Nat

ASSUME FlagsAssumption ==
  /\ RetryEnabled \in BOOLEAN
  /\ LockCoversSync \in BOOLEAN
  /\ OtherSyncPaths \in BOOLEAN

JobIds    == 1..MaxJobs
NoJob     == 0

\* Columns of sync_jobs
JobStatuses == {"absent", "queued", "running", "retry_wait", "success", "failed"}
Active      == {"queued", "running", "retry_wait"}
Finished    == {"success", "failed"}
Manual      == 2        \* priority 200
Scheduled   == 1        \* priority 100

\* Columns of shop_sync_status. "idle" stands for idle and success (orders
\* today or none), which no query or guard tells apart.
RowStatuses == {"idle", "syncing", "failed", "token_expired", "disabled"}

\* What finalizeJobFailure tells apart in an error message. "ineligible" is
\* shop_not_found_or_not_eligible or a missing cipher, handled like "sync" by
\* the worker.
Failures == {"scope", "token", "ineligible", "sync"}

WorkerPCs == {"idle", "selected", "claimed", "requeue", "locked", "resolving",
              "fetching", "done1", "done2", "fail1", "fail2", "release"}
CallerPCs == {"off", "recoverRead", "recover", "load", "scan", "check", "insert"}

VARIABLES
  \* table sync_jobs
  jstatus, jshop, jprio, attempts, retryAt, lastId,
  \* table shop_sync_status
  row, lock, curJob, cipherError,
  \* worker loops: place, job, attempt_count as read by the claim, failure
  \* being recorded, and whether the catch block has been entered
  pc, wjob, wattempt, wfail, caught,
  \* callers: place, shop in hand, shops still to visit
  cpc, cshop, ctodo,
  \* processes: syncStatusRecoveredOnce
  recovered,
  \* bounds on disturbances
  faults, crashes

jobVars    == <<jstatus, jshop, jprio, attempts, retryAt, lastId>>
rowVars    == <<row, lock, curJob, cipherError>>
workerVars == <<pc, wjob, wattempt, wfail, caught>>
callerVars == <<cpc, cshop, ctodo>>
envVars    == <<recovered, faults, crashes>>
vars       == <<jobVars, rowVars, workerVars, callerVars, envVars>>

JobTypeOK ==
  /\ jstatus   \in [JobIds -> JobStatuses]
  /\ jshop     \in [JobIds -> Shops \cup {NoShop}]
  /\ jprio     \in [JobIds -> {Manual, Scheduled}]
  /\ attempts  \in [JobIds -> 0..MaxAttempts]
  /\ retryAt   \in [JobIds -> {"none", "future", "due"}]
  /\ lastId    \in 0..MaxJobs

RowTypeOK ==
  /\ row         \in [Shops -> RowStatuses]
  /\ lock        \in [Shops -> {"none", "held", "lapsed"}]
  /\ curJob      \in [Shops -> JobIds \cup {NoJob}]
  /\ cipherError \in [Shops -> BOOLEAN]

WorkerTypeOK ==
  /\ pc        \in [Workers -> WorkerPCs]
  /\ wjob      \in [Workers -> JobIds \cup {NoJob}]
  /\ wattempt  \in [Workers -> 0..MaxAttempts]
  /\ wfail     \in [Workers -> Failures]
  /\ caught    \in [Workers -> BOOLEAN]

CallerTypeOK ==
  /\ cpc       \in [Callers -> CallerPCs]
  /\ cshop     \in [Callers -> Shops \cup {NoShop}]
  /\ ctodo     \in [Callers -> SUBSET Shops]

EnvTypeOK ==
  /\ recovered \in [Procs -> BOOLEAN]
  /\ faults    \in 0..MaxFaults
  /\ crashes   \in 0..MaxCrashes

TypeOK == JobTypeOK /\ RowTypeOK /\ WorkerTypeOK /\ CallerTypeOK /\ EnvTypeOK

Init ==
  /\ jstatus = [j \in JobIds |-> "absent"]
  /\ jshop = [j \in JobIds |-> NoShop]
  /\ jprio = [j \in JobIds |-> Scheduled]
  /\ attempts = [j \in JobIds |-> 0]
  /\ retryAt = [j \in JobIds |-> "none"]
  /\ lastId = 0
  /\ row = [s \in Shops |-> "idle"]
  /\ lock = [s \in Shops |-> "none"]
  /\ curJob = [s \in Shops |-> NoJob]
  /\ cipherError = [s \in Shops |-> FALSE]
  /\ pc = [w \in Workers |-> "idle"]
  /\ wjob = [w \in Workers |-> NoJob]
  /\ wattempt = [w \in Workers |-> 0]
  /\ wfail = [w \in Workers |-> "sync"]
  /\ caught = [w \in Workers |-> FALSE]
  /\ cpc = [c \in Callers |-> "off"]
  /\ cshop = [c \in Callers |-> NoShop]
  /\ ctodo = [c \in Callers |-> {}]
  /\ recovered = [p \in Procs |-> FALSE]
  /\ faults = 0
  /\ crashes = 0

------------------------------------------------------------------------------
(* Queries                                                                  *)

\* The database refuses or loses one statement: an exception in the caller.
StatementFails == faults < MaxFaults /\ faults' = faults + 1

\* (mutant) only waiting jobs are looked for
hasQueuedJobForShop(s) ==
  \E j \in JobIds : jshop[j] = s /\ jstatus[j] \in {"queued", "retry_wait"}

hasActiveJobForShop(s) ==
  \E j \in JobIds : jshop[j] = s /\ jstatus[j] \in Active

\* The WHERE clause of the claim's SELECT.
Claimable(j) ==
  jstatus[j] \in {"queued", "retry_wait"} /\ retryAt[j] # "future"

\* The row lock the claim's transaction holds between SELECT and COMMIT.
RowLocked(j) == \E w \in Workers : pc[w] = "selected" /\ wjob[w] = j

\* (mutant) a plain SELECT
VisibleUnlocked(j) == Claimable(j)

\* FOR UPDATE SKIP LOCKED: only rows no other transaction has locked.
Visible(j) == Claimable(j) /\ ~RowLocked(j)

\* ORDER BY priority DESC, id ASC
Before(i, j) == jprio[i] > jprio[j] \/ (jprio[i] = jprio[j] /\ i < j)

\* The worker has a committed claim on its job.
HasClaim(w) == pc[w] \notin {"idle", "selected"}

\* Between acquireShopSyncLock and releaseShopSyncLock.
InLockedSection(w) == pc[w] \in WorkerPCs \ {"idle", "selected", "claimed", "requeue"}

\* Between acquireShopSyncLock and the first write of the outcome.
Pulling(w) == pc[w] \in {"locked", "resolving", "fetching"}

WorkerShop(w) == IF wjob[w] = NoJob THEN NoShop ELSE jshop[wjob[w]]

------------------------------------------------------------------------------
(* Scheduler ticks and manual requests                                      *)

\* (mutant) the sweep does not compare sync_lock_until with NOW()
releaseAllLocks ==
  /\ row' = [s \in Shops |-> IF row[s] = "syncing" THEN "idle" ELSE row[s]]
  /\ curJob' = [s \in Shops |-> NoJob]
  /\ lock' = [s \in Shops |-> "none"]
  /\ UNCHANGED cipherError

\* (mutant) the sweep looks at syncing rows only
releaseExpiredSyncing ==
  LET swept(s) == lock[s] = "lapsed" /\ row[s] = "syncing" IN
  /\ row' = [s \in Shops |-> IF swept(s) THEN "idle" ELSE row[s]]
  /\ curJob' = [s \in Shops |-> IF swept(s) THEN NoJob ELSE curJob[s]]
  /\ lock' = [s \in Shops |-> IF swept(s) THEN "none" ELSE lock[s]]
  /\ UNCHANGED cipherError

\* releaseExpiredLocks: one UPDATE over every lapsed lock.
releaseExpiredLocks ==
  /\ row' = [s \in Shops |-> IF lock[s] = "lapsed" /\ row[s] = "syncing"
                             THEN "idle" ELSE row[s]]
  /\ curJob' = [s \in Shops |-> IF lock[s] = "lapsed" THEN NoJob ELSE curJob[s]]
  /\ lock' = [s \in Shops |-> IF lock[s] = "lapsed" THEN "none" ELSE lock[s]]
  /\ UNCHANGED cipherError

\* setInterval has no overlap guard: any tick that is off may start. The
\* process's first tick sets syncStatusRecoveredOnce before it awaits.
TickStart(t) ==
  /\ cpc[t] = "off"
  /\ releaseExpiredLocks
  /\ cpc' = [cpc EXCEPT ![t] = IF recovered[Host[t]] THEN "load" ELSE "recoverRead"]
  /\ recovered' = [recovered EXCEPT ![Host[t]] = TRUE]
  /\ UNCHANGED <<jobVars, workerVars, cshop, ctodo, faults, crashes>>

\* recoverShopSyncStatusIfEligible reads the rows of the eligible shops first ...
RecoverRead(t) ==
  /\ cpc[t] = "recoverRead"
  /\ \E eligible \in SUBSET Shops :
       ctodo' = [ctodo EXCEPT ![t] =
         {s \in eligible : row[s] = "disabled" \/ (row[s] = "failed" /\ cipherError[s])}]
  /\ cpc' = [cpc EXCEPT ![t] = "recover"]
  /\ UNCHANGED <<jobVars, rowVars, workerVars, cshop, envVars>>

\* ... and patches them one at a time, without looking again.
RecoverPatch(t) ==
  /\ cpc[t] = "recover"
  /\ \E s \in ctodo[t] :
       /\ ctodo' = [ctodo EXCEPT ![t] = @ \ {s}]
       /\ row' = [row EXCEPT ![s] = "idle"]
       /\ cipherError' = [cipherError EXCEPT ![s] = FALSE]
  /\ UNCHANGED <<jobVars, lock, curJob, workerVars, cpc, cshop, envVars>>

\* An exception of the recovery is swallowed: the tick goes on.
RecoverEnd(t) ==
  /\ \/ cpc[t] = "recover" /\ ctodo[t] = {} /\ UNCHANGED faults
     \/ cpc[t] \in {"recoverRead", "recover"} /\ StatementFails
  /\ ctodo' = [ctodo EXCEPT ![t] = {}]
  /\ cpc' = [cpc EXCEPT ![t] = "load"]
  /\ UNCHANGED <<jobVars, rowVars, workerVars, cshop, recovered, crashes>>

\* loadShopsForOpenApiCollect: the shops eligible now; it throws on none.
TickLoad(t) ==
  /\ cpc[t] = "load"
  /\ \E eligible \in SUBSET Shops :
       /\ ctodo' = [ctodo EXCEPT ![t] = eligible]
       /\ cpc' = [cpc EXCEPT ![t] = IF eligible = {} THEN "off" ELSE "scan"]
  /\ UNCHANGED <<jobVars, rowVars, workerVars, cshop, envVars>>

\* One turn of the loop: the tick's own hasActiveJobForShop.
TickScan(t) ==
  /\ cpc[t] = "scan"
  /\ \E s \in ctodo[t] :
       /\ ctodo' = [ctodo EXCEPT ![t] = @ \ {s}]
       /\ \/ hasActiveJobForShop(s) /\ UNCHANGED <<cpc, cshop>>
          \/ /\ ~hasActiveJobForShop(s)
             /\ cshop' = [cshop EXCEPT ![t] = s]
             /\ cpc' = [cpc EXCEPT ![t] = "check"]
  /\ UNCHANGED <<jobVars, rowVars, workerVars, envVars>>

TickEnd(t) ==
  /\ cpc[t] = "scan" /\ ctodo[t] = {}
  /\ cpc' = [cpc EXCEPT ![t] = "off"]
  /\ UNCHANGED <<jobVars, rowVars, workerVars, cshop, ctodo, envVars>>

\* runShop in queue-only mode: straight to enqueueShopSyncJob.
ManualStart(m) ==
  /\ cpc[m] = "off"
  /\ \E s \in Shops : cshop' = [cshop EXCEPT ![m] = s]
  /\ cpc' = [cpc EXCEPT ![m] = "check"]
  /\ UNCHANGED <<jobVars, rowVars, workerVars, ctodo, envVars>>

\* Where a caller goes after enqueueShopSyncJob returns.
AfterEnqueue(c) ==
  /\ cpc' = [cpc EXCEPT ![c] = IF c \in Ticks THEN "scan" ELSE "off"]
  /\ cshop' = [cshop EXCEPT ![c] = NoShop]

\* enqueueShopSyncJob, the check ...
EnqueueCheck(c) ==
  /\ cpc[c] = "check"
  /\ \/ hasActiveJobForShop(cshop[c]) /\ AfterEnqueue(c)
     \/ /\ ~hasActiveJobForShop(cshop[c])
        /\ cpc' = [cpc EXCEPT ![c] = "insert"]
        /\ UNCHANGED cshop
  /\ UNCHANGED <<jobVars, rowVars, workerVars, ctodo, envVars>>

\* ... and the INSERT, which no unique key guards.
EnqueueInsert(c) ==
  /\ cpc[c] = "insert"
  /\ lastId < MaxJobs
  /\ lastId' = lastId + 1
  /\ jstatus' = [jstatus EXCEPT ![lastId'] = "queued"]
  /\ jshop' = [jshop EXCEPT ![lastId'] = cshop[c]]
  /\ jprio' = [jprio EXCEPT ![lastId'] = IF c \in Manuals THEN Manual ELSE Scheduled]
  /\ AfterEnqueue(c)
  /\ UNCHANGED <<attempts, retryAt, rowVars, workerVars, ctodo, envVars>>

\* Any other statement of a tick or request may throw, and ends it.
\* Past MaxJobs the model lets a caller give up without a fault.
CallerFails(c) ==
  /\ cpc[c] \in {"load", "scan", "check", "insert"}
  /\ \/ StatementFails
     \/ cpc[c] = "insert" /\ lastId = MaxJobs /\ UNCHANGED faults
  /\ cpc' = [cpc EXCEPT ![c] = "off"]
  /\ cshop' = [cshop EXCEPT ![c] = NoShop]
  /\ ctodo' = [ctodo EXCEPT ![c] = {}]
  /\ UNCHANGED <<jobVars, rowVars, workerVars, recovered, crashes>>

------------------------------------------------------------------------------
(* Workers: processOneSyncJob                                               *)

\* claimNextJob, the locking SELECT.
ClaimSelect(w) ==
  /\ pc[w] = "idle"
  /\ \E j \in JobIds :
       /\ Visible(j)
       /\ \A i \in JobIds : Visible(i) /\ i # j => Before(j, i)
       /\ pc' = [pc EXCEPT ![w] = "selected"]
       /\ wjob' = [wjob EXCEPT ![w] = j]
       /\ wattempt' = [wattempt EXCEPT ![w] = attempts[j]]
  /\ UNCHANGED <<jobVars, rowVars, wfail, caught, callerVars, envVars>>

\* claimNextJob, UPDATE and COMMIT.
ClaimCommit(w) ==
  /\ pc[w] = "selected"
  /\ jstatus' = [jstatus EXCEPT ![wjob[w]] = "running"]
  /\ pc' = [pc EXCEPT ![w] = "claimed"]
  /\ caught' = [caught EXCEPT ![w] = FALSE]
  /\ UNCHANGED <<jshop, jprio, attempts, retryAt, lastId, rowVars,
                 wjob, wattempt, wfail, callerVars, envVars>>

\* acquireShopSyncLock refuses only a lock in force on a row that says syncing.
LockRefused(s) == lock[s] = "held" /\ row[s] = "syncing"

acquireShopSyncLock(w) ==
  LET s == WorkerShop(w) IN
  /\ pc[w] = "claimed"
  /\ \/ /\ LockRefused(s)
        /\ pc' = [pc EXCEPT ![w] = "requeue"]
        /\ UNCHANGED rowVars
     \/ /\ ~LockRefused(s)
        /\ pc' = [pc EXCEPT ![w] = "locked"]
        /\ row' = [row EXCEPT ![s] = "syncing"]
        /\ lock' = [lock EXCEPT ![s] = "held"]
        /\ curJob' = [curJob EXCEPT ![s] = wjob[w]]
        /\ UNCHANGED cipherError
  /\ UNCHANGED <<jobVars, wjob, wattempt, wfail, caught, callerVars, envVars>>

\* The worker's turn is over; its loop sleeps and claims again.
TurnOver(w) ==
  /\ pc' = [pc EXCEPT ![w] = "idle"]
  /\ wjob' = [wjob EXCEPT ![w] = NoJob]
  /\ wattempt' = [wattempt EXCEPT ![w] = 0]
  /\ caught' = [caught EXCEPT ![w] = FALSE]
  /\ wfail' = [wfail EXCEPT ![w] = "sync"]

\* (mutant) gives up without putting the job back
RequeueForgotten(w) ==
  /\ pc[w] = "requeue"
  /\ TurnOver(w)
  /\ UNCHANGED <<jobVars, rowVars, callerVars, envVars>>

\* Another worker has the shop: back to queued, attempt_count untouched.
Requeue(w) ==
  /\ pc[w] = "requeue"
  /\ jstatus' = [jstatus EXCEPT ![wjob[w]] = "queued"]
  /\ TurnOver(w)
  /\ UNCHANGED <<jshop, jprio, attempts, retryAt, lastId, rowVars, callerVars, envVars>>

\* The patch after the lock, still outside the try block.
MarkSyncing(w) ==
  LET s == WorkerShop(w) IN
  /\ pc[w] = "locked"
  /\ row' = [row EXCEPT ![s] = "syncing"]
  /\ curJob' = [curJob EXCEPT ![s] = wjob[w]]
  /\ pc' = [pc EXCEPT ![w] = "resolving"]
  /\ UNCHANGED <<jobVars, lock, cipherError, wjob, wattempt, wfail, caught, callerVars, envVars>>

\* Record failure f next (finalizeJobFailure).
GoFail(w, f) ==
  /\ pc' = [pc EXCEPT ![w] = "fail1"]
  /\ wfail' = [wfail EXCEPT ![w] = f]

\* resolveShopForJob: found, not found, or a throw when no shop is eligible.
ResolveShop(w) ==
  /\ pc[w] = "resolving"
  /\ \/ pc' = [pc EXCEPT ![w] = "fetching"] /\ UNCHANGED <<wfail, caught>>
     \/ GoFail(w, "ineligible") /\ UNCHANGED caught
     \/ GoFail(w, "sync") /\ caught' = [caught EXCEPT ![w] = TRUE]
  /\ UNCHANGED <<jobVars, rowVars, wjob, wattempt, callerVars, envVars>>

\* applyApiVerifiedHealthyState on the row of shop s.
VerifiedHealthy(s) ==
  /\ row' = [row EXCEPT ![s] = "idle"]
  /\ cipherError' = [cipherError EXCEPT ![s] = FALSE]
  /\ UNCHANGED <<lock, curJob>>

\* syncOneShop succeeds: the runner marks the row healthy before the worker
\* has recorded anything, while the lock is still held.
FetchOk(w) ==
  /\ pc[w] = "fetching"
  /\ VerifiedHealthy(WorkerShop(w))
  /\ pc' = [pc EXCEPT ![w] = "done1"]
  /\ UNCHANGED <<jobVars, wjob, wattempt, wfail, caught, callerVars, envVars>>

\* syncOneShop returns a failure: TikTok refused, timed out, or MySQL did, in
\* the end after the row had been marked healthy.
FetchFails(w) ==
  /\ pc[w] = "fetching"
  /\ \/ \E f \in Failures : GoFail(w, f) /\ UNCHANGED rowVars
     \/ GoFail(w, "sync") /\ VerifiedHealthy(WorkerShop(w))
  /\ UNCHANGED <<jobVars, wjob, wattempt, caught, callerVars, envVars>>

\* finalizeJobSuccess, updateJob.
SuccessJob(w) ==
  /\ pc[w] = "done1"
  /\ jstatus' = [jstatus EXCEPT ![wjob[w]] = "success"]
  /\ pc' = [pc EXCEPT ![w] = "done2"]
  /\ UNCHANGED <<jshop, jprio, attempts, retryAt, lastId, rowVars,
                 wjob, wattempt, wfail, caught, callerVars, envVars>>

\* finalizeJobSuccess, the row and the log.
SuccessRow(w) ==
  /\ pc[w] = "done2"
  /\ VerifiedHealthy(WorkerShop(w))
  /\ pc' = [pc EXCEPT ![w] = "release"]
  /\ UNCHANGED <<jobVars, wjob, wattempt, wfail, caught, callerVars, envVars>>

\* (mutant) attempt_count = attempt_count + 1 on the table
AttemptFromTable(w) == attempts[wjob[w]] + 1

\* The attempt finalizeJobFailure writes: from the claimed row, not the table.
Attempt(w) == wattempt[w] + 1

\* (mutant) one retry too many
RetriesOneMore(w) ==
  wfail[w] \notin {"scope", "token"} /\ RetryEnabled /\ Attempt(w) <= MaxAttempts

Retries(w) ==
  wfail[w] \notin {"scope", "token"} /\ RetryEnabled /\ Attempt(w) < MaxAttempts

\* finalizeJobFailure, updateJob.
FailureJob(w) ==
  LET j == wjob[w] IN
  /\ pc[w] = "fail1"
  /\ attempts' = [attempts EXCEPT ![j] = Attempt(w)]
  /\ \/ /\ Retries(w)
        /\ jstatus' = [jstatus EXCEPT ![j] = "retry_wait"]
        /\ retryAt' = [retryAt EXCEPT ![j] = "future"]
     \/ /\ ~Retries(w)
        /\ jstatus' = [jstatus EXCEPT ![j] = "failed"]
        /\ UNCHANGED retryAt
  /\ pc' = [pc EXCEPT ![w] = "fail2"]
  /\ UNCHANGED <<jshop, jprio, lastId, rowVars, wjob, wattempt, wfail, caught,
                 callerVars, envVars>>

\* (mutant) disabled one attempt early
FailureRowStatusEarly(w) ==
  CASE wfail[w] = "token" -> "token_expired"
    [] wfail[w] \in {"ineligible", "sync"} /\ Attempt(w) >= MaxAttempts - 1 -> "disabled"
    [] OTHER -> "failed"

\* The row status finalizeJobFailure writes. shouldDisableAfterFailures looks
\* at the attempt only, on the path that neither scope nor token took.
FailureRowStatus(w) ==
  CASE wfail[w] = "token" -> "token_expired"
    [] wfail[w] \in {"ineligible", "sync"} /\ Attempt(w) >= MaxAttempts -> "disabled"
    [] OTHER -> "failed"

\* What isStaleCipherSyncFailure says of the message: a scope error's may carry
\* one of the markers, of an eligible shop too.
isStaleCipherSyncFailure(f) ==
  CASE f = "ineligible"        -> {TRUE}
    [] f = "scope"             -> BOOLEAN
    [] f \in {"token", "sync"} -> {FALSE}

\* The patchShopSyncStatus of finalizeJobFailure.
PatchFailed(w) ==
  /\ row' = [row EXCEPT ![WorkerShop(w)] = FailureRowStatus(w)]
  /\ \E stale \in isStaleCipherSyncFailure(wfail[w]) :
       cipherError' = [cipherError EXCEPT ![WorkerShop(w)] = stale]
  /\ UNCHANGED <<lock, curJob>>

\* finalizeJobFailure, the row and the log.
FailureRow(w) ==
  /\ pc[w] = "fail2"
  /\ PatchFailed(w)
  /\ pc' = [pc EXCEPT ![w] = "release"]
  /\ wfail' = [wfail EXCEPT ![w] = "sync"]
  /\ UNCHANGED <<jobVars, wjob, wattempt, caught, callerVars, envVars>>

\* (mutant) the lock is left to expire
releaseJobOnly(w) ==
  /\ pc[w] = "release"
  /\ curJob' = [curJob EXCEPT ![WorkerShop(w)] = NoJob]
  /\ TurnOver(w)
  /\ UNCHANGED <<jobVars, row, lock, cipherError, callerVars, envVars>>

\* releaseShopSyncLock: whoever holds the lock, and whatever the row says.
releaseShopSyncLock(w) ==
  LET s == WorkerShop(w) IN
  /\ pc[w] = "release"
  /\ lock' = [lock EXCEPT ![s] = "none"]
  /\ curJob' = [curJob EXCEPT ![s] = NoJob]
  /\ TurnOver(w)
  /\ UNCHANGED <<jobVars, row, cipherError, callerVars, envVars>>

------------------------------------------------------------------------------
(* A statement of a worker throws                                           *)

\* In the claim: rolled back. In the lock, the requeue, the patch outside the
\* try block or the release: the exception leaves processOneSyncJob and the
\* loop sleeps; what was written stays.
ThrowOutOfTurn(w) ==
  /\ pc[w] \in {"selected", "claimed", "requeue", "locked", "release"}
  /\ StatementFails
  /\ TurnOver(w)
  /\ UNCHANGED <<jobVars, rowVars, callerVars, recovered, crashes>>

\* Inside the try block: the catch runs finalizeJobFailure with the message.
ThrowIntoCatch(w) ==
  /\ pc[w] \in {"resolving", "fetching", "done1", "done2", "fail1", "fail2"}
  /\ ~caught[w]
  /\ StatementFails
  /\ \/ UNCHANGED rowVars
     \* the statement after the row was patched: the log's INSERT, or endShopSyncLog
     \/ pc[w] \in {"fetching", "done2"} /\ VerifiedHealthy(WorkerShop(w))
     \/ pc[w] = "fail2" /\ PatchFailed(w)
  /\ GoFail(w, "sync")
  /\ caught' = [caught EXCEPT ![w] = TRUE]
  /\ UNCHANGED <<jobVars, wjob, wattempt, callerVars, recovered, crashes>>

\* Inside the catch block: only the finally is left.
ThrowInCatch(w) ==
  /\ pc[w] \in {"fail1", "fail2"}
  /\ caught[w]
  /\ StatementFails
  /\ pc' = [pc EXCEPT ![w] = "release"]
  /\ UNCHANGED <<jobVars, rowVars, wjob, wattempt, wfail, caught, callerVars, recovered, crashes>>

------------------------------------------------------------------------------
(* Time, other programs, crashes                                            *)

\* next_retry_at passes. A retry is at least 60 s away (RETRY_DELAYS_SEC) and
\* is assumed not to pass while the worker that set it still holds the job.
RetryDue(j) ==
  /\ retryAt[j] = "future" /\ jstatus[j] = "retry_wait"
  /\ \A w \in Workers : wjob[w] # j
  /\ retryAt' = [retryAt EXCEPT ![j] = "due"]
  /\ UNCHANGED <<jstatus, jshop, jprio, attempts, lastId, rowVars, workerVars,
                 callerVars, envVars>>

\* sync_lock_until passes.
LockLapses(s) ==
  /\ lock[s] = "held"
  /\ LockCoversSync => \A w \in Workers : InLockedSection(w) => WorkerShop(w) # s
  /\ lock' = [lock EXCEPT ![s] = "lapsed"]
  /\ UNCHANGED <<jobVars, row, curJob, cipherError, workerVars, callerVars, envVars>>

\* collectOnce, a direct runShop (both without the lock) and the health repair
\* end in applyApiVerifiedHealthyState.
OtherPathVerifies(s) ==
  /\ OtherSyncPaths
  /\ VerifiedHealthy(s)
  /\ UNCHANGED <<jobVars, workerVars, callerVars, envVars>>

\* A process dies and is restarted: its memory is gone, open transactions roll
\* back, committed rows stay.
Crash(p) ==
  LET gone(x) == Host[x] = p IN
  /\ crashes < MaxCrashes
  /\ crashes' = crashes + 1
  /\ pc' = [w \in Workers |-> IF gone(w) THEN "idle" ELSE pc[w]]
  /\ wjob' = [w \in Workers |-> IF gone(w) THEN NoJob ELSE wjob[w]]
  /\ wattempt' = [w \in Workers |-> IF gone(w) THEN 0 ELSE wattempt[w]]
  /\ wfail' = [w \in Workers |-> IF gone(w) THEN "sync" ELSE wfail[w]]
  /\ caught' = [w \in Workers |-> IF gone(w) THEN FALSE ELSE caught[w]]
  /\ cpc' = [c \in Callers |-> IF gone(c) THEN "off" ELSE cpc[c]]
  /\ cshop' = [c \in Callers |-> IF gone(c) THEN NoShop ELSE cshop[c]]
  /\ ctodo' = [c \in Callers |-> IF gone(c) THEN {} ELSE ctodo[c]]
  /\ recovered' = [recovered EXCEPT ![p] = FALSE]
  /\ UNCHANGED <<jobVars, rowVars, faults>>

------------------------------------------------------------------------------

WorkerStep(w) ==
  \/ ClaimSelect(w) \/ ClaimCommit(w)
  \/ acquireShopSyncLock(w) \/ Requeue(w) \/ MarkSyncing(w)
  \/ ResolveShop(w) \/ FetchOk(w) \/ FetchFails(w)
  \/ SuccessJob(w) \/ SuccessRow(w) \/ FailureJob(w) \/ FailureRow(w)
  \/ releaseShopSyncLock(w)

WorkerThrows(w) == ThrowOutOfTurn(w) \/ ThrowIntoCatch(w) \/ ThrowInCatch(w)

TickStep(t) ==
  \/ TickStart(t) \/ RecoverRead(t) \/ RecoverPatch(t) \/ RecoverEnd(t)
  \/ TickLoad(t) \/ TickScan(t) \/ TickEnd(t)

EnqueueStep(c) == EnqueueCheck(c) \/ EnqueueInsert(c) \/ CallerFails(c)

Next ==
  \/ \E w \in Workers : WorkerStep(w) \/ WorkerThrows(w)
  \/ \E t \in Ticks : TickStep(t)
  \/ \E m \in Manuals : ManualStart(m)
  \/ \E c \in Callers : EnqueueStep(c)
  \/ \E j \in JobIds : RetryDue(j)
  \/ \E s \in Shops : LockLapses(s) \/ OtherPathVerifies(s)
  \/ \E p \in Procs : Crash(p)

Spec == Init /\ [][Next]_vars

\* Fairness: worker loops and the scheduler's interval never stop while their
\* process lives (and pm2 restarts it), and clocks advance. Nothing is assumed
\* of faults, crashes, manual requests or other programs.
FairSpec ==
  /\ Spec
  /\ \A w \in Workers : WF_vars(WorkerStep(w))
  /\ \A t \in Ticks : WF_vars(TickStep(t)) /\ WF_vars(EnqueueStep(t))
  /\ \A j \in JobIds : WF_vars(RetryDue(j))
  /\ \A s \in Shops : WF_vars(LockLapses(s))

------------------------------------------------------------------------------
(* Properties                                                               *)

\* A job is in the hands of at most one worker, from the locking SELECT of the
\* claim to the end of the turn: under retries, requeues, faults and crashes.
OneWorkerPerJob ==
  \A v, w \in Workers : v # w /\ wjob[v] = wjob[w] => wjob[v] = NoJob

\* However often a failed finalisation is repeated by the catch block, a run
\* counts as one attempt: the count is taken from the row the claim read.
RunCountsOnce ==
  \A w \in Workers : wjob[w] # NoJob =>
    attempts[wjob[w]] \in {wattempt[w], wattempt[w] + 1}

\* A shop is marked disabled only on the strength of a job of that shop that
\* failed for good with every attempt used (finalizeJobFailure).
DisabledMeansExhausted ==
  \A s \in Shops : row[s] = "disabled" =>
    \E j \in JobIds : jshop[j] = s /\ jstatus[j] = "failed" /\ attempts[j] = MaxAttempts

\* Without faults and crashes, a job marked running is being worked on.
RunningIsHeld ==
  \A j \in JobIds : jstatus[j] = "running" =>
    \E w \in Workers : HasClaim(w) /\ wjob[w] = j

\* Without faults and crashes, a shop no worker is syncing shows no trace of a
\* sync: no lock, no current job, not "syncing", whatever the interleaving of
\* unconditional releases, expiries, recoveries and duplicate jobs.
QuietShopsAreClean ==
  \A s \in Shops :
    (\A w \in Workers : ~(InLockedSection(w) /\ WorkerShop(w) = s))
      => lock[s] = "none" /\ curJob[s] = NoJob /\ row[s] # "syncing"

\* With one enqueuer and no failed statement, two workers never pull the orders
\* of the same shop at once. (From the moment a job is recorded finished to its
\* release, the next job of the shop may run.)
OnePullPerShop ==
  \A v, w \in Workers :
    v # w /\ Pulling(v) /\ Pulling(w) => WorkerShop(v) # WorkerShop(w)

\* The shop's row holds the worker's own lock.
OwnsLock(w) == lock[WorkerShop(w)] = "held" /\ curJob[WorkerShop(w)] = wjob[w]

\* With a single worker the row holds its own lock from lock to release.
LockIsOwn == \A w \in Workers : InLockedSection(w) => OwnsLock(w)

\* Where a lock outlasts a sync, a worker loses its lock before its own release
\* to another worker of the same shop only, which in that step takes the lock,
\* marks the row or releases: none of the three looks whose lock it is. No
\* expiry sweep, no recovery and none of its own writes takes it away.
OnlyWorkersTakeLocks ==
  [][\A w \in Workers :
       (InLockedSection(w) /\ OwnsLock(w) /\ InLockedSection(w)' /\ ~OwnsLock(w)')
         => \E v \in Workers \ {w} : /\ WorkerShop(v) = WorkerShop(w)
                                     /\ pc[v] \in {"claimed", "locked", "release"} /\ pc'[v] # pc[v]]_vars

\* Every queued job ends, through lock refusals and retries.
EveryJobEnds ==
  \A j \in JobIds : jstatus[j] = "queued" ~> jstatus[j] \in Finished

\* A lock left behind by a crash or a failed release is cleared in the end.
LocksAreReclaimed ==
  \A s \in Shops : lock[s] # "none" ~> lock[s] = "none"

------------------------------------------------------------------------------
(* Refinement: the queue is a job board                                     *)

Holders(j) == {w \in Workers : HasClaim(w) /\ wjob[w] = j}

BoardState(j) ==
  CASE Holders(j) # {}                           -> "taken"
    [] Holders(j) = {} /\ jstatus[j] = "absent"  -> "absent"
    [] Holders(j) = {} /\ jstatus[j] \in {"queued", "retry_wait"} -> "open"
    [] Holders(j) = {} /\ jstatus[j] \in Finished -> "done"
    [] Holders(j) = {} /\ jstatus[j] = "running" -> "lost"

\* A holder's own writes to attempt_count show once it has let go.
BoardTries(j) ==
  IF Holders(j) = {} THEN attempts[j] ELSE wattempt[CHOOSE w \in Holders(j) : TRUE]

Board == INSTANCE JobBoard WITH
  Jobs    <- JobIds,
  state   <- [j \in JobIds |-> BoardState(j)],
  holders <- [j \in JobIds |-> Holders(j)],
  tries   <- [j \in JobIds |-> BoardTries(j)]

\* Every behaviour of the queue, faults and crashes included, is a behaviour of
\* the job board.
ImplementsBoard == Board!Spec

==============================================================================
