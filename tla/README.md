# Verification of daping

daping is a dashboard for TikTok shops: a Node.js back end (`src/backend`) that
pulls the orders of every authorised shop into MySQL through a job queue and
answers aggregations of them through a layered cache, and a React front end
(`src/frontend`) that polls those aggregations.

This directory holds TLA+ models of the back end's core and of the order list's
polling, the TLC configurations that check them on small instances, and proofs
for all instances that the TLA+ proof system checks.

| file | what it is |
|---|---|
| `SyncQueue.tla` | the job queue, its workers, the shop locks and the scheduler |
| `JobBoard.tla` | the abstract specification that `SyncQueue` implements |
| `MCSyncQueue.tla`, `SyncQueue*.cfg` | its instances for TLC |
| `SyncQueueProofs.tla` | its theorems |
| `DashboardCache.tla` | the cache in front of the dashboard's aggregations |
| `MCDashboardCache.tla`, `Dashboard*.cfg` | its instances for TLC |
| `DashboardCacheProofs.tla` | its theorems |
| `ShopAuth.tla` | shops, their tokens and the shop limit, and who writes them |
| `MCShopAuth.tla`, `ShopAuth*.cfg` | its instances for TLC |
| `ShopAuthProofs.tla` | its theorems |
| `DashboardQueries.tla` | the aggregations themselves: windows, filters, statements |
| `MCDashboardQueries.tla`, `DashboardQueries.cfg` | its instance for TLC |
| `DashboardQueriesProofs.tla` | its theorems |
| `OrderStore.tla` | orders from the platform's pages to rows, lines, cache file and report |
| `MCOrderStore.tla`, `OrderStore.cfg` | its instance for TLC |
| `OrderStoreProofs.tla` | its theorems |
| `RealtimeOrders.tla` | the page's order list: bindings, polls, late answers |
| `MCRealtimeOrders.tla`, `RealtimeOrders.cfg` | its instance for TLC |
| `RealtimeOrdersProofs.tla` | its theorems |
| `Accounts.tla` | users, tenants and plans, and the requests that change them |
| `MCAccounts.tla`, `Accounts.cfg` | its instance for TLC |
| `AccountsProofs.tla` | its theorems |
| `FoldLemmas.tla` | lemmas on sums and joins that the proofs of two modules share |
| `PROJECT.json` | components, runs, mutants, the map to the source, findings, hazards |

`tlc -config SyncQueueSingle.cfg MCSyncQueue` checks one run, and
`tlapm SyncQueueProofs.tla` the proofs of one module.

## The system

### Components

Processes under pm2 share one MySQL database and one data directory. Inside a
process, JavaScript runs one callback at a time, so what interleaves is what lies
between two awaits. Across processes every statement interleaves.

| component | state it keeps | operations | talks to | what is hard | correct when |
|---|---|---|---|---|---|
| Sync job queue (`sync/queue`, `sync/worker`) | table `sync_jobs` | enqueue, claim, requeue, finish, fail with back-off | workers, ticks, manual requests | check-then-insert, claims that race, throws between statements, crashes | one worker per job, one attempt per run, every job ends |
| Shop lock and status row (`sync/services`) | `shop_sync_status` | acquire, release, reclaim, patch | workers, ticks, repair, direct runs | unconditional release, expiry, patches from four places | one pull per shop, no trace after a sync, locks are reclaimed |
| Start-up recovery, health repair (`modules/shops`) | none of their own | read rows, patch rows | shop row | read and patch are apart | never undoes a sync in progress |
| Queue runtime | loops and timers, in memory | start, tick, stop | all of the above | ticks overlap | as above |
| Dashboard cache (`lib/dashboardCache.js`) | memory map, MySQL tables, snapshot files, in-flight markers | ask, copy up, borrow, refresh, persist | aggregations, schedulers, pages | reads used later than made, writes nobody waits for | bounded age, right dimensions, one refresh per key, no page waits for ever |
| Read-only mode and precompute | cursor, hints, running flag | round, hint | dashboard cache | hints against a moving cursor | every hinted key is computed in the end |
| Refresh and warm schedulers | timer, running flag | tick | dashboard cache | overlap | one round at a time |
| Request dedupe | map of promises | run or join | routes | a load slower than the window | joined requests get the same answer |
| Dashboard queries, filter contract | none, but what a request holds between two awaits | parse, build SQL, run one or two statements, put the answer together | MySQL | a window computed twice, statements at different moments, boundaries of the day | only the day that was asked for, no row twice in a comparison, the same answer from every endpoint |
| JSON file store (`lib/storageFile.js`) | files, `.lock`, `.bak` | lock, read with recovery, write, back up | orders cache, shops | stale lock files, writers without the lock | exclusion, no order lost |
| Token refresh, OAuth, shop limit | `shops`, `shop_auth_tokens` | callback, create, import, disable, delete, refresh, cipher backfill | TikTok, shops, sync | count then insert, read-modify-write without transactions, no unique key on tokens | limit holds, token pairs stay whole, one token row per shop, the cipher is kept |
| Shop health refresh | rate limits in memory | guard, apply or retain | TikTok, shops | limits per user and shop | limits hold, a healthy state is never lowered by a failed probe |
| Order persistence, reconciliation | `orders`, `order_items`, `orders-cache.json` | page, upsert order, upsert line, rebuild the file, report | sync, TikTok | a row at a time, overlapping pulls, a list that moves while it is paged | lines fit their row, rows do not go back, what a pull listed is stored, a report after a rebuild is clean |
| Users, tenants, permissions | `users`, `user_tenants`, `tenants` | create, register, approve, reject, enable, disable, delete, patch a plan, let it expire | sync, dashboard | checks made in another statement than the write | owner and tenant agree, somebody is left to administer, plans are exceeded by overlaps only |
| Rate limit | counters in memory | count | routes | window boundary | never more than the limit in a window |
| Authentication, access | none | check a request | users | true when checked, not when used | as for users |
| TikTok client | none | sign, page, normalise | TikTok | paging a list that changes | as for orders |
| Front end: polling, query guard | timer, request in flight, times, generations | bind, poll, back off, drop late answers | routes | answers late and out of order, abandoned bindings that go on | the page shows the filter that is chosen, polls keep their distance and do not stop |
| Pages, migrations, scripts, quarantine | - | - | - | - | not modelled |

The modelled parts meet in the database. `SyncQueue` reads a shop's status row
and the outcome of a pull; what the pull does to `orders` and `order_items` is
`OrderStore`, which takes the queue's lock as the constant `Locked`. `ShopAuth`
writes the shops and tokens a pull needs, and a pull that finds a token about to
expire is a refresher of `ShopAuth`. `DashboardQueries` reads what `OrderStore`
writes, and its answers are the values of `DashboardCache`, which `RealtimeOrders`
and the other pages ask for. `Accounts` says who may ask. No variable is
written by two modules, so they are checked apart: the pull in the middle of a
job is one outcome to the queue (success or one of four failures), an aggregation
is one value to the cache, and a sync is one upsert to an aggregation.

### Hazards

`PROJECT.json` lists the hazards of this code at their lines, each with the
properties that would catch it or the reason none does yet. The main families:

- statements of the database that interleave where the code reads like one step:
  check and insert, read and patch, the write of an outcome and the release;
- exceptions and crashes in the middle of a worker's turn;
- leases (locks, retries, cache entries, table rows, files) that end while
  something still relies on them, or are granted anew to an old value;
- promises nobody awaits: table and snapshot writes, background refreshes, ticks;
- answers put together from several statements, or shown after the question
  changed;
- rights and quotas checked in one statement and used in another.

Beside those listed, these are known and too narrow for a property of their own:
a file's entry may be taken by the same six hash digits (`dashboardSnapshotCache.js:343`);
hinted jobs are moved to the front of a list the batch is not cut from
(`dashboardPrecomputeScheduler.js:121`); a load slower than the dedupe window is
started again (`dashboardRequestDedupe.js:21`); a plain miss has no in-flight
marker (`dashboardCache.js:1027`); the rebuild of the orders cache does not take
the lock that merges under (`orderCacheRebuildService.js:94`); a new shop counts
twice in a callback's batch (`oauthMysqlPersist.js:167`); of two refreshes of a
token the slower write wins (`tiktokTokenRefresh.js:68`).

## SyncQueue

### Correspondence

Each action is the code between two awaits: one statement or one transaction, and
the synchronous code around it.

| code | actions |
|---|---|
| `runSyncSchedulerTick` (`syncScheduler.js`), `recoverShopSyncStatusIfEligible` | `TickStart`, `RecoverRead`, `RecoverPatch`, `RecoverEnd`, `TickLoad`, `TickScan`, `TickEnd` |
| `runShop` in queue-only mode | `ManualStart` |
| `enqueueShopSyncJob`: `hasActiveJobForShop`, then `INSERT` | `EnqueueCheck`, `EnqueueInsert` |
| `claimNextJob`: `SELECT ... FOR UPDATE SKIP LOCKED`, then `UPDATE` and `COMMIT` | `ClaimSelect`, `ClaimCommit` |
| `processOneSyncJob` (`syncWorker.js`) | `acquireShopSyncLock`, `Requeue`, `MarkSyncing`, `ResolveShop`, `FetchOk`, `FetchFails`, `SuccessJob`, `SuccessRow`, `FailureJob`, `FailureRow`, `releaseShopSyncLock` |
| where a statement of that function throws: out of the turn, into the catch, inside the catch | `ThrowOutOfTurn`, `ThrowIntoCatch`, `ThrowInCatch` |
| `NOW()` passes `next_retry_at`, `sync_lock_until` | `RetryDue`, `LockLapses` |
| `collectOnce`, direct `runShop`, health repair: `applyApiVerifiedHealthyState` without the lock | `OtherPathVerifies` |
| a process dies and pm2 restarts it | `Crash` |

Abstractions:

- `sync_lock_until` is none, held or lapsed; `next_retry_at` is none, future or
  due: the comparisons the queries make. A retry is at least 60 s away, so
  `RetryDue` waits until the worker that set it has let go of the job.
- `row = "idle"` stands for `idle` and `success`; no guard tells them apart.
- `cipherError` stands for a `last_error` or `last_error_code` that
  `isStaleCipherSyncFailure` recognises: an ineligible shop's always, a scope
  error's possibly, since three of its six markers name scopes.
- `FetchFails` may leave the row as it was, or healthy: `syncOneShop` marks it before
  its last statements, and its catch returns a failure.
- `locked_by` is written by the code and never read, so it is left out. That is
  why a release is unconditional.
- `LockCoversSync` is an assumption a run makes or not: TRUE says
  `SYNC_LOCK_TIMEOUT_MS` exceeds the length of a sync.

Left out: the one-off insertion of a missing status row, the sync log, the
forced recovery after ciphers were patched, the pause after a missing-table
error, the schema guard at start-up.

### Properties and runs

| run | instance | properties | what it shows |
|---|---|---|---|
| `sync_single` | 2 workers in 2 processes, 1 tick at a time, 3 jobs, 1 crash, no failed statement, fairness | `TypeOK`, `OnePullPerShop`, `LocksAreReclaimed` | with one enqueuer the duplicate check is enough to keep pulls of a shop apart through a crash and retries, and a tick clears what a dead worker left |
| `sync_race` | a tick and a manual request race, locks may lapse during a sync, other paths write the row | `QuietShopsAreClean`, `RunningIsHeld` | even with duplicate jobs and stolen locks, a shop is clean when its last worker leaves |
| `sync_faults` | 2 workers, any 2 statements fail, 1 crash | `OneWorkerPerJob`, `RunCountsOnce`, `DisabledMeansExhausted`, `ImplementsBoard` | the claim and the attempt count survive exceptions anywhere, and the queue implements the job board |
| `sync_pair` | 2 workers, a tick and a manual request that each enqueue a job of one shop, fairness | `OnlyWorkersTakeLocks`, `EveryJobEnds` | who is refused the lock goes back to the queue and still ends, and a lock is lost to the other worker only |

Every run has one shop. Shops share nothing but the workers and the order of the
queue, and every property speaks of one shop or one job; two jobs of one shop are
what makes locks and claims collide. Two attempts give a first try, a retry and
exhaustion, the three cases of the retry policy. A third job in `sync_single`
lets jobs follow one another while a worker still finishes. When `MaxJobs`
rows exist an enqueuer gives up; the liveness properties speak of the rows there
are. `WorkerSymmetry` is used in runs without liveness, where both workers
run in one process and no property names one.

Where a property is checked says how far it holds:

- `OnlyWorkersTakeLocks` needs a lock that outlasts a sync. It does not say that a
  worker keeps its lock: the first worker's success marks the row healthy before it
  releases; the second may take the lock then, and the first worker's release
  clears it. `OnePullPerShop` still holds in that window when only one tick
  enqueues, because the first worker no longer pulls. With one worker, as in
  production, there is no such window; that is proved (`LoneWorkersOwnTheirLock`)
  and has no run.
- `EveryJobEnds` is checked where no statement fails and no process dies; a job whose
  worker dies does not end (see Findings).
- `OnePullPerShop` needs one enqueuer and no failed statement: a failure of
  the statement after `status = 'success'` sends the job through the catch back
  to `retry_wait`, by when a second job may have been enqueued; and two ticks, or a
  tick and a manual request, insert a job each (see Findings).
- `RunningIsHeld` and `QuietShopsAreClean` need no crash and no throw outside the
  try block: what a dead worker leaves is there until a tick sweeps it, or for ever.
- `OneWorkerPerJob`, `RunCountsOnce`, `DisabledMeansExhausted` and `ImplementsBoard`
  need nothing.

What duplicate jobs do not break is what `sync_race` and `sync_pair` check, which
have them; nothing says that there are none.

The theorems about them make these assumptions and no others.

### The abstract specification

`JobBoard` is the queue without shops, locks, statements, clocks: a job is open,
then taken by exactly one worker, which gives it back open, done or lost, having
counted at most one attempt. A done or lost job never returns. In the refinement
mapping a job is taken from the commit of a claim to the end of the turn, so that
the writes of an outcome, repeated or not, show only when the worker lets go; a
job that is `running` with no holder is lost.

### Fairness

A worker's step and a tick's step are weakly fair: the loops end in a timer that
always restarts them and pm2 restarts the process. Retries come due and locks
lapse, since clocks advance. Nothing is assumed of faults, crashes, manual
requests or other programs.

## DashboardCache

### Correspondence

| code | actions |
|---|---|
| `withDashboardCache`: the memory hit or the first await, and `bypass` | `Ask`, `AskBypass` |
| a read of the table, of a file, of expired or sibling rows comes back | `Fetch` |
| the code after such a read: hit, copy up, schedule | `Serve` |
| the code after such a read: miss, next layer | `GoOn` |
| `emitTrendPending` | `EmitPending` |
| the blocking loader and `persistDashboardCaches` | `Load`, `LoadFails` |
| `scheduleDashboardBackgroundRefresh` and its finally | part of the above; `RefreshDone`, `RefreshFails` |
| the fire-and-forget upsert and file write | `writeDashboardTableCache`, `writeDashboardSnapshotCache` |
| time, process restarts, the client gone | `Tick`, `Restart`, `Done` |

A read is two steps because what it returned is used after an await: the lease
of a row can end in between, and a newer value can arrive.

Abstractions:

- A value is the key it was computed for, the time its loader returned and whether
  it is empty. `Dims` gives a key's tenant, endpoint, shop, market, order filter and
  the name of its range, the columns `readTrendTableStaleByDimensions` selects by. The
  dates of a custom range are not among them, nor `groupBy` and `sort`.
- `Trend` are the keys of gmv-compare, order-volume and trend, which never load
  while a request waits; the others (summary, rankings) do.
- Rows are judged fresh when MySQL answers (`NOW()` is in the query), files when
  the answer is used.
- The two queries for expired rows of a key are one layer.
- `SnapshotOn` switches the files off; production does by default.
- `WriteDelay` bounds how long a write is under way, in the runs and as a
  parameter of the theorems.

Left out: read-only mode, the removal of invalid and old files, the fallback to
any file with the same six hash digits, the deprecated purge, the suppression of
repeated placeholders, labels and log lines.

### Properties and runs

| run | instance | properties | what it shows |
|---|---|---|---|
| `dash_trend` | 1 trend key that a page polls, 1 fault, 1 restart, slow writes, fairness | `TypeOK`, `OneRefreshPerKey`, `RowsAreYoung`, `PendingEnds` | the in-flight marker is set exactly while the aggregation runs, late and lost writes never renew an old payload beyond the lease and the delay, and a page that was told to wait gets data |
| `dash_dims` | 2 custom ranges of one trend, another shop's trend, a ranking, no snapshots, no failure | `DimsAreKept`, `BorrowedIsReplaced` | borrowing and copying up never cross a tenant, endpoint, shop, market, order filter or named range, and a row of the other custom range stays under the key only while the key's own aggregation is under way |

Leases of 1 unit and a clock of 2 give entries in their lease, expired but
usable, and gone; `dash_dims` has no clock, so that there every entry is in its
lease, and expiry and snapshots are left to the theorems `DimensionsAreKept` (all
settings) and `BorrowedRowsGo` (all leases and clocks). Two siblings, a stranger
and a plain key are the cases of a borrowed row and of the last layer.
`FewWrites` cuts `dash_trend` at states with more than two writes under way,
`FewUnderWay` `dash_dims` at more than two writes and refreshes; two upserts are what it takes
for one to overtake the other.
`FewUnderWay` also cuts at three trends touched at once and at the ranking beside
a trend, whose values never meet. That rows stay young with two processes too is
the theorem `TableIsYoung`. `ka` and `kb` are interchangeable, and so are the
requests, which `RequestSymmetry` uses.

`DimsAreKept` says nothing of the dates of a custom range, because the code lends
rows across them: see Findings for the document that excludes it.
`BorrowedIsReplaced` is how long that lasts in memory. Where a loader fails the
borrowed row stays until it expires; with snapshots on a warm write makes it the
key's own file, whose fresh hits refresh nothing. Both are outside the property.

`PendingEnds` has one page and one key because weak fairness of `Ask` is per
key: with two, the page could always ask for the other one.

Every memory hit and table hit writes the snapshot file again with a full lease
and a new `generatedAt` (`dashboardCache.js:820`), so a file's lease says nothing
of the age of its value: copied from memory to file and from file to memory, a
value lives as long as it is asked for. The one bound on age the code gives is
that of the table, `RowsAreYoung`.

### Fairness

Promises settle and writes land or fail (weak fairness of requests, refreshes and
writes), and the pages keep polling (weak fairness of `Ask`), as
`ordersPollScheduler.ts` does. The clock is not forced. Faults are bounded, so a
loader that fails is asked again.

## ShopAuth

### Correspondence

One tenant, its shops by `platform_shop_id`, and requests that each hold what they
have read. Every SELECT, INSERT and UPDATE is an action, since none of this code
uses a transaction.

| code | actions |
|---|---|
| `handleCallbackByCode`, `persistOAuthShopsToMysql`, `upsertShopAuthToken` | `handleCallbackByCode`, `countShopsForTenant`, `FindShop`, `UpdateShop`, `InsertShop`, `FindToken`, `upsertShopAuthToken`, `BatchEnds` |
| `createShop` with `assertShopLimit` | `assertShopLimit`, `createShop` |
| `importFromCache` | `importFromCache`, `ImportFind`, `ImportCount`, `ImportInsert`, `BatchEnds` |
| `updateShopStatus`, `softDeleteShop` | `FindForStatus`, `updateShopStatus`, `softDeleteShop` |
| `refreshShopAccessToken`, `persistRefreshedTokenToMysql` | `LoadShop`, `refreshShopAccessToken`, `ReadRawAuth`, `persistRefreshedTokenToMysql` |
| `backfillShopCipher`, `patchShopAuthCipherInMysql` | `listShopsMissingCipher`, `FindRawAuth`, `patchShopAuthCipherInMysql`, `ReactivateShop` |
| a statement rejects, TikTok refuses, the process dies | `Abort` |

Abstractions:

- A token is the number of the pair it was issued in; `issued` is TikTok's record
  of which refresh token belongs to which access token. A refresh that TikTok
  answers without a new refresh token is `rotated = FALSE`.
- Of `raw_auth_json` the model keeps whether the shop's cipher is in it. The
  tokens are in it a second time and are not read from there.
- `latest` is the row with the newest `updated_at`, which only the refresh selects
  by; everyone else takes the highest id (`Newest`). Ties of `updated_at` within
  a millisecond are left out (the code breaks them by id).
- `JsonObjects` says how the driver hands over a JSON column: parsed, as mysql2
  does with MySQL, or as text, as it does with MariaDB. The theorems hold for
  both.
- `softDeleteShop` is one step: deleting what is deleted changes nothing,
  so its read has no bearing on the outcome. The answer of TikTok and the SELECT
  of the row to write are one step too, as nobody else sees the answer.
- `exempt` and `req[a].raced` are history: they are written and never read by a
  guard. `exempt` are the live shops the limit was never asked for (a platform
  user's, and old rows revived by a callback or a status write) or was asked for
  in a race; `raced` says that a request that adds shops was not alone.
- The plan does not change and the tenant stays active. Rows vanish only with
  their tenant, which is not modelled.

Left out: `tiktok-api/client.js:109` has a `persistRefreshedTokenToMysql` of its
own that nothing calls; the recovery of the status row after a cipher is patched
writes `shop_sync_status` only; the second copy of the shops in `shops.json`.

### Properties and runs

| run | instance | properties | what it shows |
|---|---|---|---|
| `auth_two` | 2 shops, 2 requests that add shops, a refresher, a backfill, an editor, limit 1, 3 token pairs | `TypeOK`, `LimitHolds`, `PairsAreWhole`, `SecondRowIsRaced` | every interleaving of any two requests, each of which may stop anywhere |
| `auth_cipher` | 1 shop, 1 callback, 1 refresher | `CipherIsKept` | violated, see Findings |

`LimitHolds` is stated for the shops the code does ask the limit for. That two
overlapping callbacks can exceed it is plain from the code; what is not is that
nothing else can: not a callback whose count is old because shops were deleted,
revived or disabled since, not an import that counts anew for each shop, not a
request that ended half-way, not the double count of a new shop (`currentCount`
and `pendingNewInBatch` both grow, so a batch stops short of the limit).

`SecondRowIsRaced` says why the refresh, which selects by `updated_at`, and the
readers, who select by id, mean the same row: a shop only gets a second row from
callbacks that overlap. `PairsAreWhole` is what the callback's UPDATE of all
columns, and the refresh's fallback to the token it sent rather than to the
column (`tiktokTokenRefresh.js:185`), achieve together.

`Small` cuts the run at states with three requests at work, two shops with
tokens, or a third pair of tokens beside a second shop or row. Two requests are
what it takes to race, three pairs what it takes for a refresh that began before a
callback to end after it. Callbacks and imports are interchangeable, and so are
shops (`ShopSymmetry`). There is no liveness here: requests are started by
people and give up at the first error.

## DashboardQueries

### Correspondence

A request goes from the parsed query to the answer in steps between which time
passes and syncs write: the query is parsed into a contract with a window, the
loader builds its WHERE clauses later, MySQL answers each statement later still.

| code | definitions |
|---|---|
| `getTimeRangeBounds`, `parseDashboardFilterQuery` | the operators of these names; `Ask` |
| `buildDateRangeWhere`, `buildDashboardWhere`, `orderAnalyticsEventTimeExpr`, `buildIndexFriendlyEventTimeWhere`, `mysqlDashboardOrdersFilterClause` | the operators of these names |
| the loader of each endpoint | `Totals`, `queryDashboardRanking`, `queryDashboardTrend`, `queryDashboardGmvCompare`, `getTopShops`, `getShopTrend`, `getGmvCompare`, chosen by `Plan`; `Load`, `AskTotals` |
| a statement is answered | `Run` |
| merging and the result | `TotalsAnswer`, `RankingAnswer`, `CompareToday`, `AnalyticsHalf`, `enforceTodayMetricsInvariant`; `Answer` |
| a sync's upsert, time | `Persist`, `Tick` |

Abstractions: hours instead of seconds; one currency and whole amounts, so no
conversion or rounding; `analytics_status` is never NULL. The second half of the
analytics comparison is read but no property speaks of it (see Findings). `quiet`
is history: nothing was written and no hour passed since the request was parsed.

Left out: markets with other zones than the server's, shop scopes of users, the
other periods of the analytics pages, the day buckets of curves (sums do not
depend on them), limits and orders of ranking lines.

### Properties and run

`metrics` asks each of eight endpoints once, for today, yesterday, two sliding
ranges and custom dates, with six filters, while two orders are written or
rewritten with any of nine rows, an hour passes and midnight comes. Days of two
hours and a start in the last hour of a day make midnight fall between any two
steps; two orders can be in different shops, days and states.

- `StaysInItsDay`: a contract of yesterday's "today" reads no row of another day
  than the one it was parsed in. That it reads the day whole is not part of it.
- `HalvesApart`: a comparison never counts one and the same row twice, neither in its
  two curves nor in the totals that are asked anew when the hour has changed
  between the contract and the loader. One case is left out because the code does
  count twice there: when midnight passes between the two, the windows move on to
  the new day, while the totals of "today" are asked by the contract, whose day is
  now the half before (`gmvCompareQuery.js:313-324`). See Findings.
- `QuietAnswersAgree`: when nothing moves, all endpoints give the orders of the
  same days, those the range stands for, although three of them find them in three
  ways. Which day an order is of is the code's: paid, or else placed, or else
  stored (`orderAnalyticsEventTimeExpr`, as `docs/metric-definition-map.md:42` has
  it). `docs/source-of-truth.md:37-39` and `docs/field-registry.md:169` want
  `created_at_platform` and forbid `paid_at` as a date of figures; against those the
  code, and the property, fall short (see Findings). For a filter with
  cancelled orders the hourly comparison and the analytics pages count money that the others leave out, so only the orders are compared there.

## OrderStore

### Correspondence

| code | actions |
|---|---|
| `syncOneShop`, `fetchOrdersInTimeRange` | `FetchStart`, `FetchPage` (the last page: `Fetched`), `PullStops` |
| `persistOrdersFromCache`, `upsertOneOrderRow` | `UpsertOrder`, `UpsertOrderFails` |
| `persistOrderItemsFromCache` | `ReadOrders`, `UpsertLine`, `PullEnds` |
| `extractLineItemsForOrder` | the operator of this name |
| `rebuildOrdersCacheFromMysql` | `RebuildRead`, `RebuildWrite` |
| `buildOrdersReconcileReport`, `classifyMysqlOnlyDiff` | `Report`, `ReportEnds` and the operators of these names |
| the platform, time | `Change`, `Tick` |

One platform shop is connected by the shops of two tenants, which is where rows
change hands. A version of an order stands for its status, amount and lines; the
lines of a version are the constant `Lines`. A page lists one new order, or none
(orders seen before, an empty page), so that whatever moves between two pages
moves between two orders. The list belongs to the platform and moves while it
is read: any order of the day may be on a page and any may be missed. A pull
ends after any of its pages (no next token, an empty page, the deadline), at the
page limit, or before the first page, and is ok whatever it saw, as the code is.
`Locked` says that pulls of one shop exclude each other, which is what
`SyncQueue` is about.

`torn`, `writers`, `alone`, `since` and `olds` are history; the last two are the
versions on the platform when a pull began, and when those began that were
under way then. `torn` are the orders whose row and
lines were not written by one whole pull alone; `writers` the shops that wrote
an order.

Left out: amounts and their currencies, the SQL of the product ranking (its join
is `Joined`), the deprecated scheduler that merges into the cache file: with
`DASHBOARD_MYSQL_ONLY` at its default only a rebuild writes that file.

### Properties and run

`orders` has two orders with two versions each (the first with a repeated SKU,
the second with another line in its place, paid), two pulls, one failure
anywhere, three hours over two days and one rebuild with its report
(`UntilReport` ends a behaviour there).

- `LinesFollowRows`: after a whole pull a reader who joins rows and lines finds
  every line of the version of the row, also when another order of the pull failed.
  An order with a failed statement, or written by two pulls at once, is exempt
  until it is written again.
- `RowsGrow`: an upsert has no version check; the shop lock alone keeps an older
  page from replacing a newer row. A direct run, which takes no lock, is outside it.
- `PullIsStored`: what the pages listed is stored, at the version it had when the
  pull began or a later one, although upserts carry no version, pulls of another
  tenant's shop write the same rows, and of an order listed twice the later
  sighting is dropped. That the pages list everything is not promised by anybody: an
  order that slides past them is missed, and the pull is ok all the same.
- `RebuiltAgrees`: the windows of the two sides of the report are over different
  columns, and a report right after a rebuild still differs only as it says. With
  a pull in between nothing is said.

## RealtimeOrders

### Correspondence

| code | actions |
|---|---|
| the effect of `RealtimeOrdersPanel` and `bindOrdersPanel` | `Bind`, as `OpenPage` and `ChangeFilter` |
| its clean-up when the page is left | `LeavePage` |
| `executeOrdersFetch` | `JoinFetch`, `StartFetch` |
| `schedulePollLoop` and its timer | `schedulePollLoop`; `PollFires`, `PollFiresHidden` |
| the promise settles, its continuations run | `Answered`, `Rejected` |
| `shouldApplyDashboardQueryGeneration`, `mergeRealtimeOrderRows` | `Delivered` |

The module variables of `ordersPollScheduler.ts` are `active`, `since`, `suspend`,
`slot`, `timer`, `panelBound`; times are kept as ages up to the interval, so that
behaviours need no last tick. A binding that is given up keeps the promise it
awaits: `sent[g].waiters`. All continuations of a promise run in one turn, in the
order in which they were attached, so that they are one action. Rows on the page
are known by the filter they were read for (`filter`), the key their request was
sent under (`key`), and whether a binding sent it that had been given up by then
(`stray`).

Left out: the rows themselves and their limit, the loading marks, local storage,
the trend's hook and the other panels.

### Properties, run and fairness

`requests` lets a user bind the panel four times, with two filters, leave and
reopen, and refuses one request. Interval and suspension are two ticks, so that
answers come before, at and after the next poll is due. Four bindings are what it
takes for a key to be chosen again while its abandoned loop still polls.

- `ShownFits`: no answer to a request that was sent for another filter is shown, be
  it a filter's own request or the late poll of the loop that was the present one
  when it sent it. Rows of another filter come in one way only, by the poll of a
  loop that had been given up before it polled (see Findings).
- `PollsAreSpaced`: abandoned loops go on beside the present one, and still no poll is
  sent within an interval of any other request. The guard of a poll reads a clock
  that every way to send has to reset; that two requests are never under way at
  once (`ordersPollScheduler.ts:4`) is not covered, and two keys may have one each.
- `PollGoesOn`: while the panel is bound and nothing failed, there is always
  another request. It does not say that its rows are shown.

Timers are weakly fair (`Tick`), and so is each request's answer or refusal. A
poll's firing is strongly fair: a firing while the page is hidden re-arms the
timer with no request, and the property is about a page that is in view now and
then. The user owes nothing.

## Accounts

### Correspondence

| code | actions |
|---|---|
| routes, `requireFullAccess` | `AskCreate`, `AskPlan`, `AskUser`, `AskDecision` |
| `registerPublicTenantOwner` (a transaction) | the action of this name |
| `createUserByActor`, `assertTenantActive`, `assertUserLimit` | `assertTenantActive`, `getTenantPlan`, twice; `assertUserLimit`, `createUserByActor` |
| `getPlan`, `patchTenant`: `getTenantPlan`, `syncTenantExpiry`, `updateTenantPlan` | the actions of the last three names |
| `setUserStatusByActor` | the action of this name |
| `approvePendingTenantOwner`, `rejectPendingTenantOwner` | `ReadPending`, then the actions of these names |
| `deleteUserByActor`, `softDeleteTenantIfNoActiveAdmin` | `CheckDelete`, `RemoveRows`, `CommitDelete` |
| the expiry date passes | `PlanExpires` |

A request holds in its slot what it has read. A deletion is a transaction whose
statements others interleave with: between `RemoveRows` and `CommitDelete` its rows
are locked (`UserIsLocked`, `TenantIsLocked`) and its count is a snapshot. Other
transactions whose outcome does not depend on what lies between are one step.

A creation reads the plan four times: `createUserByActor` asks `assertTenantActive`,
and again through `assertUserLimit`, and each ends in `getTenantPlan`, which reads
anew. The first read of each throws if the plan may not be written to; the second
may switch the plan off and throws nothing, and its limit is the one that is
compared (`planService.js:240-258`, `:276-286`). So a request may switch a plan off
itself and still add the user; the model has it, and no property denies it.

Abstractions: a user has one membership, so `users` and `user_tenants` are one row
with both status columns; `super_admin` stands for platform scope too; ids are not
used again. `touched`, `widened`, `usurped` and `late` are history: who was switched
by hand, whose limit or membership was changed by hand, whether a request whose
actor had been disabled meanwhile switched a platform administrator, and whether
something that a clean-up or a deletion had read changed before it wrote.

Left out: the cache of current users in memory, shop permissions, names and
passwords, the lookup by a fixed user name, the deletion of a tenant by hand.

### Properties and run

`accounts` has two platform administrators, two more people and one customer's
tenant, which come into being by registration or creation; three administrators'
requests, two at a time, and the plan may expire. Three requests are an approval,
a refusal and a patch, or two deletions and a creation.

- `OwnerAndTenantAgree`: approve and reject check in one statement and write
  three rows in others; whatever overlaps, owner, membership and tenant are
  pending, open or shut alike. A status that an administrator set by hand goes its
  own way, and a tenant without admins is marked.
- `SomePlatformAdmin`: disabling counts nobody, and still one is left, unless a
  request outlives its actor's own disabling: two administrators who disable each
  other at once can both succeed.
- `OverrunIsBounded`: the plan that was read, the count and the insert are three
  steps, so additions that overlap exceed the plan. They do so by one less than
  there are requests at a time, whatever else happens in between. A patched limit
  and a member enabled by hand do not ask for the number and are exempt.
- `AdminlessIsFlagged`: a tenant that loses its last administrator is marked in
  the same transaction, as `warning`, unless another admin is deleted, disabled or
  refused between this deletion's count and its commit: then neither sees that it is
  the last. `docs/user-delete-remove-empty-tenant.md:12` and
  `docs/user-delete-tenant-sync-fix.md:12` promise `status = deleted` with the
  tenant's shops, jobs and users shut; the code has given that up
  (`tenantAdminSync.js:47`), and the property is about the code (see Findings).
- `RenewedStaysOn`: reading a plan has a side effect, and what it read may have
  been renewed by the time it writes. A clean-up that no patch has overtaken never
  shuts out a tenant whose plan is running. One that was overtaken (`late`) does,
  and nothing but another patch lets it in again.

There is no liveness: requests end by themselves and nobody retries them.

## Proofs

The theorems hold for every number of shops, workers, callers, processes, keys and
requests, every attempt limit and lease, and every bound on jobs, faults,
crashes, delays and time, under the `ASSUME`s that stand with the constants
(TLC evaluates them in every run). The bounds stay in the statements because the
state is bounded by them, but they are arbitrary.

### SyncQueueProofs

Every safety property of the `sync_*` runs, under the assumption its run stands for:
`TypeCorrect` (`TypeOK`), `ClaimIsExclusive` (`OneWorkerPerJob`), `RunsCountOnce`
(`RunCountsOnce`), `DisabledShopsAreExhausted` (`DisabledMeansExhausted`) and
`QueueIsAJobBoard` (`ImplementsBoard`) without any; `RunningJobsAreHeld`
(`RunningIsHeld`) and `QuietShopsStayClean` (`QuietShopsAreClean`) where no statement
fails and nothing crashes; `ShopsArePulledOnce` (`OnePullPerShop`) for one enqueuer and
no failed statement; `LocksGoToWorkers` (`OnlyWorkersTakeLocks`) for a lock that
outlasts a sync; and, of the production setting, `LoneWorkersOwnTheirLock`
(`LockIsOwn`) for one worker besides.

The first three rest on one inductive invariant. None of them is inductive alone: a claim
is exclusive only because no job in a worker's hand is claimable, which breaks
when a failure puts it in `retry_wait` with the worker still holding it, unless
one knows that the retry is in the future; and `attempts` keeps its type only if
a claimed job has attempts left. The invariant is

    IInv == TypeOK /\ HandsOK /\ OneWorkerPerJob /\ HeldOK /\ AttemptsOK
                   /\ RunCountsOnce /\ FreshOK

`HandsOK` ties a worker's place to having a job; `HeldOK` says that a held job
is running, finished, or waits for a retry that is not due; `AttemptsOK` that a
job that can still be claimed has attempts left, and that a claimed one had when
it was claimed; `FreshOK` that rows beyond `lastId` are absent. The proof has one
lemma or step per action, and one lemma each for the shapes that many actions share:
those that leave jobs and hands alone (`OthersKeepCore`), those that only move a
worker on (`MovingOnKeepsCore`), those that end a turn (`LettingGoKeepsCore`).

The others add to it what each needs, and start from lemmas that say who writes what
(`WhoWritesJobs`, `WhoDisables`, `WhoLocks`, `WhoMarks`, `WhoMoves`, `CallersStand`), so
that an action is opened once for each part of the state.

- `DisabledMeansExhausted` is about the row, written a statement after the job. `LastOK`
  says of a worker about to disable the shop that its job already is exhausted;
  `ExhaustedStays` that nothing changes such a job again but the same write repeated.
- `ImplementsBoard` goes job by job. A job's holders change by a commit of a claim
  (`HandsStay`) and by the end of a turn (`HandsGo`), in no other step; everything a
  holder writes in between is invisible on the board. So a job in somebody's hands stays
  taken or is let go (`TakenStep`), any other is posted, taken or left alone
  (`FreeStep`). What it is let go as follows from `HeldOK`, and that a lost job has
  counted nothing from `UncountedOK`.
- `RunningIsHeld` needs `OutcomeOK`: a worker past its outcome leaves no running job
  behind when it lets go.
- `QuietShopsAreClean` is not inductive, since a worker's release looks neither at the
  lock nor at the row. `TracesOK` names, for every trace of a sync, a worker that will
  clear it: a row that says syncing has one that has yet to write the row.
- `OnePullPerShop` needs `OneActiveOK`: a shop has one active job at most, an enqueuer
  about to insert has none in the table, and a failure about to be recorded is of a
  running job. The last part is what a failed statement breaks.
- `OnlyWorkersTakeLocks` and `LockIsOwn` need `ShopsOK`, that every job is a shop's, and
  one lemma, `OwnKeeps`: a worker's lock outlives every step but those of another
  worker of its shop that take, mark or release (`Disturbs`).

### DashboardCacheProofs

`TypeCorrect` (`TypeOK`), `RefreshIsShared` (`OneRefreshPerKey`), `TableIsYoung`
(`RowsAreYoung`) and `DimensionsAreKept` (`DimsAreKept`), and `BorrowedRowsGo`
(`BorrowedIsReplaced`) where no loader fails and the snapshots are off. Typing is not
free here: a memory entry must have a lease, which holds because `Lease` replaces a
lease found expired. The age of rows needs `WritesOK` (a write under way carries its key's
own value, no older than `WriteDelay`) and `RowsOK` (a row is no older at its
upsert than that); the dimensions need `HandsOK` (only a request that reads a layer has a result in
hand, and only an answered one an answer, so a request that starts over for another
key carries nothing along). A borrowed row is replaced because only the read by
dimensions has another key's value in hand (`GotOwn`), what it serves is stale by
definition and so starts the key's own aggregation, and that ends in the one write
to memory that its marker covers.

### ShopAuthProofs

`TypeCorrect` (`TypeOK`), `PairsStayWhole` (`PairsAreWhole`), `LimitIsKept`
(`LimitHolds`) and `SecondRowsAreRaced` (`SecondRowIsRaced`): every property of
`auth_two`, for any limit and any number of requests. The argument has three
layers, each an invariant that relies on the ones before.

- `IInv`: a request at work on a shop has a shop in hand, one at work on a token
  row has a row that exists (rows are only added, `Grows`), and the pair it holds
  was issued whole. With it every write to `tokens` writes a whole pair, which is
  `PairsAreWhole`.
- `RowInv`: a request that read a shop's row finds it again. So a status write
  never creates a shop, and whatever it makes live is exempt.
- `AInv`: two requests that add shops and overlap both know it (`RaceOK`); one that
  has had no company counted no fewer shops than count now, has room for the
  insert it is about to make, and finds no token row where it saw none
  (`AdmitOK`). Steps of others are `Calm`: they add no shop that counts and
  no first token row, except those of requests that have company.

`LimitHolds` alone is not inductive, because an insert relies on a count made
several steps before. Cardinalities of finite sets come from
`FiniteSetTheorems`.

### AccountsProofs

`TypeCorrect` (`TypeOK`), `AnAdminIsLeft` (`SomePlatformAdmin`), `OverrunsAreBounded`
(`OverrunIsBounded`), `AdminlessTenantsAreMarked` (`AdminlessIsFlagged`),
`RenewedPlansStayOn` (`RenewedStaysOn`) and `OwnersAgree` (`OwnerAndTenantAgree`): every
property of `accounts`, for any number of accounts, tenants and requests. Five
parts.

- `IInv == TypeOK /\ ReqsOK /\ RootsOK /\ HomeOK`. `ReqsOK` says of every request where
  its kind may stand (`PlaceOK`) and that whoever it decides on or deletes was found
  (`FoundOK`): that user's row, while it is there, is of the request's tenant, and not
  a platform administrator's. `RootsOK`: the platform administrators that were there
  first stay, on which `SomePlatformAdmin` rests. `HomeOK`: the platform's own tenant
  stays active, since no request that refuses or marks a tenant names it.
- `PlacesOK`: whoever is about to count holds the plan's limit (`LimitsRead`), and the
  members together with the additions that have counted exceed it by one less
  than there are requests (`Bounded`). The bound is on members and additions at
  once because an insert turns one into the other; it is there from the
  moment of the count, when there is one addition more and its count was below
  the limit. Hence `OverrunIsBounded`.
- `MarksOK`: a deletion that is not about to mark the tenant has seen another admin,
  who is there still unless the deletion is `late`. Hence `AdminlessIsFlagged`.
- `SwitchOK`: a request about to switch a plan off found it expired, and it is still,
  unless the request is `late`. Nobody but a patch takes an expiry back, and a patch
  makes all others of its tenant late. Hence `RenewedStaysOn`.
- `OwnersOK`: `OwnerAndTenantAgree` alone is not inductive. That an approval or a
  refusal leaves an owner and its tenant agreeing needs that a tenant has one
  registered owner and that nobody but owners is pending (`OwnersKnown`), and that
  whoever a request decides on is the owner of the tenant it holds (`Decides`).

Each action has one lemma, `StepIsOK(r)`: the invariant afterwards, rows are only
added or removed as the action says (`RowsKeep`), and the other requests stay as
they were (`OthersStay`); later parts start from those two and do not open the
action again where they need no more.

### RealtimeOrdersProofs

`TypeCorrect` (`TypeOK`), `LateAnswersFit` (`ShownFits`) and `PollsSpaced`
(`PollsAreSpaced`), from
`IInv == TypeOK /\ Numbered /\ ClocksAgree /\ RequestsOK /\ ShownFits`.

- `RequestsOK`: somebody awaits every request, whoever does was bound to the key it was
  sent for, and a request that no given-up binding sent asks for its key's rows. `ShownFits`
  alone is not inductive: an answer reaches the page through a waiter of the
  present generation, and that its rows fit the page follows from what this says of
  the request. It survives a new binding because bindings are only added
  (`Extends`, `RequestStillOK`).
- `ClocksAgree`: the scheduler's `lastFetchStartedAt` and the time since the page last
  sent anything are the same, since every way to send goes through the one place that
  resets both. With it the guard of a poll is the property.
- `Numbered` is there for the type of instances only.

### OrderStoreProofs

`PullsAreStored` (`PullIsStored`) and `RowsNeverGoBack` (`RowsGrow`), from
`IInv == SoldOK /\ RowsOK /\ PullsOK /\ Apart`.

- `SoldOK` and `RowsOK` type the platform's orders and the rows, and say that no row is
  ahead of the platform.
- `PullsOK` ties a pull to both. `Fresh`: what it fetched shows each order once, no
  older than when the pull began. `Ahead`: under the lock, no row of the pull's shop
  is newer than what the pull still has to write; that is `RowsGrow` one step
  before the upsert, and it is there from the moment the page arrives because
  nobody else writes this shop's rows. `Accounted`: what a pull listed is written,
  failed, or still waits; written means no older than when it, or a pull under
  way then, began (`NotBefore`), because those are the only ones that can still
  write something they read before.
- `Apart`: two pulls at work are both not alone, and under the lock of different
  shops.

The lock is a hypothesis of `RowsNeverGoBack` only (`ASSUME Locked`). That it is
enough shows that nothing else protects rows; TLC refutes `RowsGrow` when
`ShopIsFree` is dropped.

`TypesAreKept` (`TypeOK`), `LinesAlwaysFollowRows` (`LinesFollowRows`) and `RebuildsAgree`
(`RebuiltAgrees`) come from a second invariant that is inductive together with the
first (`WritesInvariant`):
`JInv == Counts /\ SoldInTime /\ TablesOK /\ RowsStand /\ PullsWrite /\ ReportOK`.

- `RowsStand`: whose row or line it is has written the order (`writers`), and an
  order that is not torn has every line of its row's version. Row and lines are
  separate statements, so this is true of the tables only between pulls;
- `PullsWrite` carries it through a pull: an order that the pull has come to is torn
  until its last line (`Begun`), and, of a lone pull that did not fail, each row has
  the version that was read and each line of that version is written or waits
  (`LinesWritten`). That nothing else waits, no line twice, and the last one last, is
  what `extractLineItemsForOrder` makes of a batch, the place where
  `FlattenSeqJoins` is needed.
- `SoldInTime`: an order is paid no earlier than it is placed, which makes the
  report's two windows nest.
- `ReportOK`: a rebuild that nothing wrote under holds the rows of its tenant.

`NoneAssumption` keeps `None` apart from orders, rows and the rows of lines (`Kept`).

### DashboardQueriesProofs

`TypeCorrect` (`TypeOK`), `TodayStaysToday` (`StaysInItsDay`) and `HalvesStayApart`
(`HalvesApart`), for any orders, filters, lengths of day, week and month. The
invariant is `TypeOK` with `AskOK` for every
request: its contract was parsed at the hour it carries (`ContractOK`); the windows
of its plan lie inside that day, or apart, as its endpoint promises (`PlanOK`); each
answer holds only rows of its window (`GotOK`). The two properties are about
rows, so neither is inductive before the windows are. Days come from one lemma on
division (`Division`), the solver's only arithmetic beyond sums.

`EndpointsTellTheSame` (`QuietAnswersAgree`) needs a second invariant, `QInv`: a stored
order was placed and paid before now (`Past`; a window that ends now then misses
nothing of its last day), a contract's window is that of its range (`Settled`), and
a request that nothing disturbed has planned the contract's own window for every
statement that is not of the half before (`PlannedAtOnce`) and has read what the
table still holds (`QuietOK`). From there:

- `PromisedWindow`, a result of its own: such a window holds an hour until now exactly
  when its day is promised;
- `ReadsPromised`: each statement has read exactly the promised orders, by its three
  indexed branches (`BranchesAreEventTime`);
- the additions agree: `ShopsAddUp` for the ranking's lines, `PlainMoney` for analytics,
  `NothingToRepair` for what is enforced of today, `QuietHalf` for the hours that
  analytics drops.

The sums are over finite sets: `InputAssumption` has `Ids` and `Shops` finite, as the
rows of two tables are.

### FoldLemmas

What `MapThenSumSet`, `SumFunctionOnSet` and `FlattenSeq` of the community modules
compute, for every finite set and every sequence. They are recursive functions
over a `CHOOSE`n order of the elements. The library's induction theorems take the
formula as an operator, so induction is done with the least counterexample
instead: a set of bad numbers, or of bad subsets, has a smallest member
(`LeastNumber`, `SmallestSubset`), which is then shown not to be bad. That the recursion has
a solution at all is `RecursionExists`. Its results are `SameSum`, `SumTakesOut`,
`SumByParts` (a sum over a set is the sum over the parts of any partition) and
`FlattenSeqJoins` (the joined sequence has exactly the members of the pieces).

### Only model-checked

Liveness (`EveryJobEnds`, `LocksAreReclaimed`, `PendingEnds`, `PollGoesOn`): the prover
handles neither `ENABLED` nor fairness. Every other property of the passing runs has
its theorem. `CipherIsKept`, which the code violates, has none.

## Findings

`auth_cipher` checks a defect of the code: a refresh parses `raw_auth_json` a
second time; with MySQL the driver has parsed it already, `JSON.parse` throws, and
the document is written back without `shop_cipher` (`tiktokTokenRefresh.js:61`).
That document is the cipher's only place (`docs/source-of-truth.md:14`,
`docs/database-map.md:13`), and a shop without it is not synced until a
backfill or a new authorisation.

Met while modelling, and not checked by a run of its own:

Sync and cache

- Two ticks in flight insert two active jobs of one shop, since the check and the
  insert are two statements and the timer does not wait for a tick;
  `syncScheduler.js:41` and `docs/sync-phase42-pressure-test.md:109` say there are
  none.
- A worker that dies after the claim leaves its job `running` for ever, and its
  shop is never enqueued again; the pressure test expects no such job (`:105`).
- Rows of one custom range are lent to another: the read by dimensions compares the
  name of the range and not its dates (`dashboardTableCache.js:167-171`).
  `docs/p1c-dashboard-cache-audit.md:293-301` has `startDate` and `endDate` in the key
  and concludes that no other filter's row is hit directly; `:309` and `:315` have the
  read lend only across `groupBy` and `sort`. The row becomes the borrower's entry in
  memory, and the next hit there is a plain memory hit, not marked stale, until the
  key's own aggregation comes back (`BorrowedIsReplaced`).
- Near expiry of a memory hit is judged by the lease as granted
  (`dashboardCache.js:829`), so a hit on an entry about to expire starts no refresh,
  against `p1c-dashboard-cache-audit.md:214` and `:316`; the report (`:56`) lists
  expired table rows before expired files, the code asks the files first.
- The read-only mode calls `emitPerfProbe` on its hit and on its miss
  (`dashboardReadonlyCache.js:93`, `:161`), which that file neither defines nor
  requires, so every such request throws.
- A hint moves its job to the front of the list, but the round starts at the cursor
  (`dashboardPrecomputeScheduler.js:121`), so the hinted job is often not in the round;
  reading hints does not remove them.
- `scripts/syncQueueWorker.js` starts the runtime without `schemaReady`, so its
  loops never start.

Aggregations

- The day of an order is COALESCE(paid, placed, stored). `docs/source-of-truth.md:37`
  makes `created_at_platform` the truth of the time window, `:38` forbids `paid_at` as
  the default date, `:39` forbids `created_at` in a dashboard's window, and
  `docs/field-registry.md:169` calls `created_at_platform` the truth of business dates
  (`:172` excludes `created_at`). `docs/metric-definition-map.md:42` has the code's
  expression and marks it locked. An order placed yesterday and paid today is
  counted today by the code and yesterday by the first two documents.
- An hourly comparison that is parsed before midnight and loaded after it takes its
  windows from the new day and its total of "today" from the contract, so the old
  day is in both halves (`gmvCompareQuery.js:313-324`).
- `analyticsCompareService.js:203` says that the second half of a comparison is
  yesterday up to the same time. The code passes its bounds but no range, the
  filter falls back to today, the rows outside yesterday's hours are dropped, and
  the second half is empty.

Orders

- A pull asks for orders created today, so a later payment or cancellation of an
  older order never arrives. It ends well at its deadline or page limit too, and when
  an order has slid past its pages (`tiktok-api/orders.js:485-509`).
- `dedupeNormalizedRows` says that the later copy of an order wins; the pages'
  `seenOrderIds` has kept the first by then.
- A line is known by its position and SKU. Lines that an order no longer has stay
  and are counted; two lines of a SKU are stored as one; the lines of an order
  taken over keep the tenant they had.
- The rebuild of one tenant replaces the cache file of all, without its lock. The
  comment at `orderReconcileService.js:222` speaks of the creation time where the
  statement takes the payment first.

Order list

- After A, B, A the continuation of the first A shares the timer with the newest
  binding, and the last one to end wins: when it is an older binding, the poll
  asks with the older key and the page's present filters, and its rows are shown
  when the key is chosen again. This is the exception in `ShownFits`.
- Whoever is not the present generation still takes the one timer; the rows of its
  polls are dropped, so the list can stand still until the filter changes.
- A refused request throws in every continuation and nobody catches it: polling
  ends until the panel is bound again, and `onError` is not called.
- While the page is hidden and the interval is over, the timer is set with no
  delay, again and again.
- `LegacyDashboardPage.tsx` aborts a controller on its timeouts that it does not
  pass to `fetch`.

Accounts

- No platform administrator can be deleted: the last by the check, the others
  because their role is neither admin nor viewer; the message of the check speaks
  of the last one only.
- A status patch of a pending owner goes past approval: the account is active and
  its tenant stays in review, where nobody of it is let in.
- A tenant in `warning` shuts out its members and no request resets it. The documents
  on deletion (`docs/user-delete-remove-empty-tenant.md:12`,
  `docs/user-delete-tenant-sync-fix.md:12`) have the tenant deleted softly, with its
  shops, jobs and users shut, instead.
- An expiry read before a renewal may be written after it and stays (`late` in
  `RenewedStaysOn`); renewing the date alone
  leaves the plan off; switching it on without a date lasts until the next read.
- Two deletions of the two administrators of a tenant each see the other: the
  tenant is left without any and unmarked. This is `late` in `AdminlessIsFlagged`.
- Enabling a user and lowering a plan do not ask the limit; overlapping additions
  exceed it, and a creation that finds the plan expired on its second read
  switches it off and adds the user.
- An approval or refusal that was overtaken reports success.

## Not modelled

- Planned below: the JSON file store, read-only mode and precompute, the warm and
  refresh schedulers, the request dedupe, the rate limit, the shop health refresh.
  Their hazards are under Hazards.
- Pages and styles, beyond the order list's polling and query guard: they render what
  they are given and keep no state that a second actor changes.
- Authentication and the access checks are modelled where a request of `Accounts` or
  `ShopAuth` depends on them; tokens, passwords and sessions are not.
- The TikTok client is modelled by what a page, a refresh or a failure brings the
  caller; signing and normalisation are data.
- Migrations, operator scripts and the quarantined legacy run by hand, once, or not
  at all.

## Plan

Done: `SyncQueue` with `JobBoard`; `DashboardCache` in its default mode; `ShopAuth`;
`DashboardQueries` with the filter contract; `OrderStore`; `RealtimeOrders`, the front
end's scheduler and query guard; `Accounts`. All safety properties of
these modules are proved, and the refinement of `JobBoard`.

Next, in this order:

1. `FileStore`: lock files with the stale break, backups and recovery; over it
   `OrdersCache`: `collectOnce` merging under the lock and the rebuild writing
   without. Abstract specification: one register per file. Theorem: exclusion when
   no lock turns stale under its holder.
2. `DashboardPrecompute`: read-only mode, the precompute rounds and the warm rounds,
   which share their shape (a list, a cursor, a pool, a marker per key), composed with
   the cache through `AskBypass`.
3. `RequestDedupe`, `RateLimit`: two small modules, proved entirely.
4. The shop health refresh with its limits; the double write to `shops.json`.
