---------------------------- MODULE DashboardCache ----------------------------
(***************************************************************************)
(* The layered cache in front of the dashboard's MySQL aggregations:       *)
(* withDashboardCache of backend/lib/dashboardCache.js with the layers it  *)
(* reads and writes (dashboardTableCache.js, dashboardSnapshotCache.js),   *)
(* in its default read-write mode with the table layer enabled.            *)
(*                                                                         *)
(*   - every process has a memory cache; all share a MySQL table and a     *)
(*     directory of snapshot files;                                        *)
(*   - a request walks memory, table, snapshot, and for the trend          *)
(*     endpoints the expired table rows; a hit below memory is copied up;  *)
(*   - stale hits schedule one background refresh per process and key;     *)
(*   - table and snapshot writes are fire-and-forget.                      *)
(*                                                                         *)
(* Each action is what runs between two awaits. A read of a layer is a     *)
(* step of its own (Fetch), so a result can be old when it is used.        *)
(***************************************************************************)
EXTENDS Integers, FiniteSets

CONSTANTS
  Keys,        \* cache keys (buildDashboardCacheKey)
  Trend,       \* keys of gmv-compare, order-volume and trend
  Dims,        \* what a row can be borrowed by: tenant, endpoint, shop, market,
               \* order filter and the name of the range, "custom" whatever its dates
  Procs,       \* server processes
  Requests,    \* HTTP requests that can be in flight
  Host,        \* the process a request runs in
  None,        \* no entry, no result
  Waiting,     \* a read that has not come back
  MemTtl,      \* clampTtlMs
  TableTtl,    \* tableTtlMs
  SnapTtl,     \* snapshotTtlMs
  Near,        \* snapshotNearExpiryRemainingMs
  MaxStale,    \* maxStaleSec of the trend endpoints
  SnapshotOn,  \* isSnapshotCacheEnabled and isSnapshotEndpoint: off in production
  WriteDelay,  \* bound: how long a table or file write can be under way
  MaxNow,      \* bound: how long the clock runs
  MaxFaults,   \* bound: failing reads, writes and loaders
  MaxRestarts  \* bound: process restarts

ASSUME SetsAssumption ==
  /\ Trend \subseteq Keys
  /\ Host \in [Requests -> Procs]

ASSUME TimesAssumption ==
  /\ {MemTtl, TableTtl, SnapTtl, MaxStale} \subseteq Nat \ {0}
  /\ {Near, WriteDelay, MaxNow, MaxFaults, MaxRestarts} \subseteq Nat
  /\ TableTtl <= MaxStale
  /\ SnapshotOn \in BOOLEAN

Values == [for : Keys, at : 0..MaxNow, empty : BOOLEAN]

\* None and Waiting are told apart from the entries.
ASSUME NoneAssumption ==
  /\ None # Waiting
  /\ {None, Waiting} \cap [val : Values, exp : Nat] = {}

TableLayers == {"table", "tableStale", "dimStale"}
Layers      == TableLayers \cup {"snapFresh", "snapStale"}

VARIABLES
  mem,          \* memCache: per process and key, value, expiry and full lease
  table,        \* dashboard_*_cache: value and refreshed_at
  snap,         \* snapshot files: value and expiresAt
  inflight,     \* trendRefreshInflight: keys, per process
  loaders,      \* background loaders running, per process and key
  tableWrites,  \* upserts under way
  snapWrites,   \* snapshot writes under way
  pc, key,      \* requests: place and cache key
  got,          \* requests: what the read under way has returned
  ans,          \* requests: the answer sent
  now, faults, restarts

refreshVars == <<inflight, loaders>>
storeVars   == <<table, snap>>
requestVars == <<pc, key, got, ans>>
boundVars   == <<faults, restarts>>
vars == <<mem, storeVars, refreshVars, tableWrites, snapWrites, requestVars, now, boundVars>>

Answers == [kind : Layers \cup {"memory", "db", "pending"},
            val : Values \cup {None}, marked : BOOLEAN]

TypeOK ==
  /\ mem \in [Procs -> [Keys -> [val : Values, exp : Nat, ttl : Nat \ {0}] \cup {None}]]
  /\ table \in [Keys -> [val : Values, at : 0..MaxNow] \cup {None}]
  /\ snap \in [Keys -> [val : Values, exp : Nat] \cup {None}]
  /\ inflight \in [Procs -> SUBSET Keys]
  /\ loaders \in [Procs -> [Keys -> Nat]]
  /\ tableWrites \subseteq [key : Keys, val : Values]
  /\ snapWrites \subseteq [key : Keys, val : Values, exp : Nat]
  /\ pc \in [Requests -> Layers \cup {"idle", "loading", "answered"}]
  /\ key \in [Requests -> Keys]
  /\ got \in [Requests -> [val : Values, exp : Nat] \cup {None, Waiting}]
  /\ ans \in [Requests -> Answers \cup {None}]
  /\ now \in 0..MaxNow
  /\ faults \in 0..MaxFaults
  /\ restarts \in 0..MaxRestarts

\* A cold deployment: nothing cached anywhere.
Init ==
  /\ mem = [p \in Procs |-> [k \in Keys |-> None]]
  /\ table = [k \in Keys |-> None]
  /\ snap = [k \in Keys |-> None]
  /\ inflight = [p \in Procs |-> {}]
  /\ loaders = [p \in Procs |-> [k \in Keys |-> 0]]
  /\ tableWrites = {}
  /\ snapWrites = {}
  /\ pc = [r \in Requests |-> "idle"]
  /\ key \in [Requests -> Keys]
  /\ got = [r \in Requests |-> None]
  /\ ans = [r \in Requests |-> None]
  /\ now = 0
  /\ faults = 0
  /\ restarts = 0

Fault == faults < MaxFaults /\ faults' = faults + 1

------------------------------------------------------------------------------
(* The layers                                                               *)

\* cacheGet
MemHit(p, k) == mem[p][k] # None /\ now <= mem[p][k].exp

\* cacheSet
MemEntry(v, ttl) == [val |-> v, exp |-> now + ttl, ttl |-> ttl]
cacheSet(p, k, v, ttl) == mem' = [mem EXCEPT ![p][k] = MemEntry(v, ttl)]

\* Left of a lease that runs to exp.
Left(exp) == IF exp > now THEN exp - now ELSE 0

isNearExpiryRemaining(left) == left <= Near

FreshRow(k)  == table[k] # None /\ table[k].at + TableTtl > now
UsableRow(k) == table[k] # None /\ table[k].at + MaxStale > now

\* (mutant) the WHERE clause by dimensions is lost
AnyRows(k) == {i \in Trend : UsableRow(i)}

\* The rows readTrendTableStaleByDimensions selects from: same tenant, endpoint,
\* shop, market, filter and range, whatever the dates and other parameters.
SiblingRows(k) == {i \in Trend : Dims[i] = Dims[k] /\ UsableRow(i)}

Newest(S) == {i \in S : \A j \in S : table[i].at >= table[j].at}

RowResult(k)  == [val |-> table[k].val, exp |-> table[k].at + TableTtl]
FileResult(k) == [val |-> snap[k].val, exp |-> snap[k].exp]

\* What reading a layer for key k can return, nothing being a miss.
Results(layer, k) ==
  CASE layer = "table"      -> {RowResult(i) : i \in {j \in {k} : FreshRow(j)}}
    [] layer = "tableStale" -> {RowResult(i) : i \in {j \in {k} : UsableRow(j)}}
    [] layer = "dimStale"   -> {RowResult(i) : i \in Newest(SiblingRows(k))}
    [] OTHER                -> {FileResult(i) : i \in {j \in {k} : snap[j] # None}}

\* shouldPersistSnapshot
shouldPersistSnapshot(k, v) == SnapshotOn /\ (k \in Trend => ~v.empty)

\* syncDashboardSnapshotWrite: a full lease, whatever the age of the value.
warmDashboardSnapshot(k, v) ==
  snapWrites' = IF shouldPersistSnapshot(k, v)
                THEN snapWrites \cup {[key |-> k, val |-> v, exp |-> now + SnapTtl]}
                ELSE snapWrites

\* (mutant) no look at trendRefreshInflight
scheduleAlways(p, k) ==
  /\ inflight' = [inflight EXCEPT ![p] = @ \cup {k}]
  /\ loaders' = [loaders EXCEPT ![p][k] = @ + 1]

scheduleDashboardBackgroundRefresh(p, k) ==
  \/ k \in inflight[p] /\ UNCHANGED refreshVars
  \/ /\ k \notin inflight[p]
     /\ inflight' = [inflight EXCEPT ![p] = @ \cup {k}]
     /\ loaders' = [loaders EXCEPT ![p][k] = @ + 1]

ScheduleIf(cond, p, k) ==
  IF cond THEN scheduleDashboardBackgroundRefresh(p, k) ELSE UNCHANGED refreshVars

\* The outcome of a loader, dated when it returns.
Loaded(k) == {[for |-> k, at |-> now, empty |-> e] :
                e \in IF k \in Trend THEN BOOLEAN ELSE {FALSE}}

\* persistDashboardCaches
persistDashboardCaches(p, k, v) ==
  /\ cacheSet(p, k, v, MemTtl)
  /\ tableWrites' = tableWrites \cup {[key |-> k, val |-> v]}
  /\ warmDashboardSnapshot(k, v)

------------------------------------------------------------------------------
(* Requests                                                                 *)

Answer(r, kind, v, marked) ==
  /\ pc' = [pc EXCEPT ![r] = "answered"]
  /\ got' = [got EXCEPT ![r] = None]
  /\ ans' = [ans EXCEPT ![r] = [kind |-> kind, val |-> v, marked |-> marked]]

Await(r, layer) ==
  /\ pc' = [pc EXCEPT ![r] = layer]
  /\ got' = [got EXCEPT ![r] = Waiting]
  /\ UNCHANGED ans

\* A memory hit rewrites the snapshot. It is near expiry when its lease, as
\* granted, is: the time already spent is not subtracted.
AnswerFromMemory(r, k) ==
  LET e    == mem[Host[r]][k]
      near == isNearExpiryRemaining(e.ttl) IN
  /\ warmDashboardSnapshot(k, e.val)
  /\ ScheduleIf(near, Host[r], k)
  /\ Answer(r, "memory", e.val, near)
  /\ UNCHANGED <<mem, tableWrites>>

\* withDashboardCache up to its first await.
Ask(r, k) ==
  /\ pc[r] = "idle"
  /\ key' = [key EXCEPT ![r] = k]
  /\ \/ MemHit(Host[r], k) /\ AnswerFromMemory(r, k)
     \/ /\ ~MemHit(Host[r], k)
        /\ Await(r, "table")
        /\ UNCHANGED <<mem, refreshVars, tableWrites, snapWrites>>
  /\ UNCHANGED <<storeVars, now, boundVars>>

\* forceRefresh, cacheBypass: straight to the loader.
AskBypass(r, k) ==
  /\ pc[r] = "idle"
  /\ key' = [key EXCEPT ![r] = k]
  /\ pc' = [pc EXCEPT ![r] = "loading"]
  /\ UNCHANGED <<mem, storeVars, refreshVars, tableWrites, snapWrites, got, ans, now, boundVars>>

\* MySQL or the disk answers a read; a read that fails is a miss.
Fetch(r) ==
  /\ pc[r] \in Layers /\ got[r] = Waiting
  /\ \/ \E g \in Results(pc[r], key[r]) : got' = [got EXCEPT ![r] = g] /\ UNCHANGED faults
     \/ Results(pc[r], key[r]) = {} /\ got' = [got EXCEPT ![r] = None] /\ UNCHANGED faults
     \/ Fault /\ got' = [got EXCEPT ![r] = None]
  /\ UNCHANGED <<mem, storeVars, refreshVars, tableWrites, snapWrites, pc, key, ans, now, restarts>>

\* Whether the result in hand answers the request.
Hit(r) ==
  /\ got[r] \notin {None, Waiting}
  /\ pc[r] = "snapFresh" => got[r].exp > now /\ shouldPersistSnapshot(key[r], got[r].val)

\* (mutant) what is left, expired or not
LeaseLeft(r) == Left(got[r].exp)

\* The lease a hit gets in memory: never zero, a value found expired starts anew.
Lease(r) ==
  LET left == Left(got[r].exp) IN
  IF pc[r] \in TableLayers
  THEN IF left > 0 THEN left ELSE IF key[r] \in Trend THEN TableTtl ELSE MemTtl
  ELSE IF left = 0 THEN MemTtl ELSE IF left > Near THEN left ELSE Near

\* (mutant) a borrowed row passes for the key's own
ServedStaleOwn(r) ==
  \/ pc[r] \in {"snapStale", "tableStale"}
  \/ pc[r] = "snapFresh" /\ isNearExpiryRemaining(Left(got[r].exp))

\* Hits that are answered as stale, with a refresh behind them.
ServedStale(r) ==
  \/ pc[r] \in {"snapStale", "tableStale", "dimStale"}
  \/ pc[r] = "snapFresh" /\ isNearExpiryRemaining(Left(got[r].exp))

\* A layer below memory answers: copy up, warm the snapshot from the table.
Serve(r) ==
  LET k == key[r]
      v == got[r].val IN
  /\ pc[r] \in Layers /\ Hit(r)
  /\ cacheSet(Host[r], k, v, Lease(r))
  /\ \/ pc[r] \in TableLayers /\ warmDashboardSnapshot(k, v)
     \/ pc[r] \notin TableLayers /\ UNCHANGED snapWrites
  /\ ScheduleIf(ServedStale(r), Host[r], k)
  /\ Answer(r, pc[r], v, ServedStale(r))
  /\ UNCHANGED <<storeVars, tableWrites, key, now, boundVars>>

Missed(r) == pc[r] \in Layers /\ got[r] # Waiting /\ ~Hit(r)

\* Where a miss goes. Plain endpoints end in a blocking loader.
NextLayer(r) ==
  CASE pc[r] = "table" /\ SnapshotOn -> "snapFresh"
    [] pc[r] = "snapFresh"  -> "snapStale"
    [] pc[r] \in {"table", "snapStale"} -> IF key[r] \in Trend THEN "tableStale" ELSE "loading"
    [] pc[r] = "tableStale" -> "dimStale"
    [] OTHER                -> "pending"

GoOn(r) ==
  /\ Missed(r)
  /\ NextLayer(r) # "pending"
  /\ \/ NextLayer(r) \in Layers /\ Await(r, NextLayer(r))
     \/ /\ NextLayer(r) = "loading"
        /\ pc' = [pc EXCEPT ![r] = "loading"]
        /\ got' = [got EXCEPT ![r] = None]
        /\ UNCHANGED ans
  /\ UNCHANGED <<mem, storeVars, refreshVars, tableWrites, snapWrites, key, now, boundVars>>

\* A trend request that found nothing never loads: it starts a refresh, looks
\* at memory once more (emitTrendPending) and answers a placeholder.
EmitPending(r) ==
  LET k    == key[r]
      p    == Host[r]
      peek == MemHit(p, k) /\ ~mem[p][k].val.empty IN
  /\ Missed(r)
  /\ NextLayer(r) = "pending"
  /\ scheduleDashboardBackgroundRefresh(p, k)
  /\ \/ /\ peek
        /\ warmDashboardSnapshot(k, mem[p][k].val)
        /\ Answer(r, "memory", mem[p][k].val, isNearExpiryRemaining(mem[p][k].ttl))
     \/ ~peek /\ Answer(r, "pending", None, TRUE) /\ UNCHANGED snapWrites
  /\ UNCHANGED <<mem, storeVars, tableWrites, key, now, boundVars>>

\* The blocking loader of a plain miss or of a bypass.
Load(r) ==
  /\ pc[r] = "loading"
  /\ \E v \in Loaded(key[r]) :
       /\ persistDashboardCaches(Host[r], key[r], v)
       /\ Answer(r, "db", v, FALSE)
  /\ UNCHANGED <<storeVars, refreshVars, key, now, boundVars>>

LoadFails(r) ==
  /\ pc[r] = "loading" /\ Fault
  /\ pc' = [pc EXCEPT ![r] = "idle"]
  /\ UNCHANGED <<mem, storeVars, refreshVars, tableWrites, snapWrites, key, got, ans, now, restarts>>

\* The client has its answer.
Done(r) ==
  /\ pc[r] = "answered"
  /\ pc' = [pc EXCEPT ![r] = "idle"]
  /\ ans' = [ans EXCEPT ![r] = None]
  /\ UNCHANGED <<mem, storeVars, refreshVars, tableWrites, snapWrites, key, got, now, boundVars>>

------------------------------------------------------------------------------
(* Background work                                                          *)

\* (mutant) the finally of the background refresh is lost
LeaveInflight(p, k) ==
  /\ loaders' = [loaders EXCEPT ![p][k] = @ - 1]
  /\ UNCHANGED inflight

\* The finally of scheduleDashboardBackgroundRefresh.
ClearInflight(p, k) ==
  /\ inflight' = [inflight EXCEPT ![p] = @ \ {k}]
  /\ loaders' = [loaders EXCEPT ![p][k] = @ - 1]

RefreshDone(p, k) ==
  /\ loaders[p][k] > 0
  /\ \E v \in Loaded(k) : persistDashboardCaches(p, k, v)
  /\ ClearInflight(p, k)
  /\ UNCHANGED <<storeVars, requestVars, now, boundVars>>

\* The catch and the finally: the failure is logged, the marker removed.
RefreshFails(p, k) ==
  /\ loaders[p][k] > 0 /\ Fault
  /\ ClearInflight(p, k)
  /\ UNCHANGED <<mem, storeVars, tableWrites, snapWrites, requestVars, now, restarts>>

\* (mutant) a row that exists keeps its payload when its lease is renewed
UpsertLease(w) ==
  table' = [table EXCEPT ![w.key] =
    [val |-> IF table[w.key] = None THEN w.val ELSE table[w.key].val, at |-> now]]

\* INSERT ... ON DUPLICATE KEY UPDATE: payload and lease together.
Upsert(w) == table' = [table EXCEPT ![w.key] = [val |-> w.val, at |-> now]]

writeDashboardTableCache(w) ==
  /\ tableWrites' = tableWrites \ {w}
  /\ \/ Upsert(w) /\ UNCHANGED faults
     \/ Fault /\ UNCHANGED table
  /\ UNCHANGED <<mem, snap, refreshVars, snapWrites, requestVars, now, restarts>>

\* A temporary file of its own and a rename: all or nothing, in any order.
writeDashboardSnapshotCache(w) ==
  /\ snapWrites' = snapWrites \ {w}
  /\ \/ snap' = [snap EXCEPT ![w.key] = [val |-> w.val, exp |-> w.exp]] /\ UNCHANGED faults
     \/ Fault /\ UNCHANGED snap
  /\ UNCHANGED <<mem, table, refreshVars, tableWrites, requestVars, now, restarts>>

\* Time passes, but no write stays under way for longer than WriteDelay.
Tick ==
  /\ now < MaxNow
  /\ \A w \in tableWrites : now - w.val.at < WriteDelay
  /\ \A w \in snapWrites : now - (w.exp - SnapTtl) < WriteDelay
  /\ now' = now + 1
  /\ UNCHANGED <<mem, storeVars, refreshVars, tableWrites, snapWrites, requestVars, boundVars>>

\* A process restarts: its memory and its requests are gone, and some of the
\* writes under way (whose they are is not recorded).
Restart(p) ==
  /\ restarts < MaxRestarts
  /\ restarts' = restarts + 1
  /\ mem' = [mem EXCEPT ![p] = [k \in Keys |-> None]]
  /\ inflight' = [inflight EXCEPT ![p] = {}]
  /\ loaders' = [loaders EXCEPT ![p] = [k \in Keys |-> 0]]
  /\ pc' = [r \in Requests |-> IF Host[r] = p THEN "idle" ELSE pc[r]]
  /\ got' = [r \in Requests |-> IF Host[r] = p THEN None ELSE got[r]]
  /\ ans' = [r \in Requests |-> IF Host[r] = p THEN None ELSE ans[r]]
  /\ tableWrites' \in SUBSET tableWrites
  /\ snapWrites' \in SUBSET snapWrites
  /\ UNCHANGED <<storeVars, key, now, faults>>

------------------------------------------------------------------------------

RequestStep(r) ==
  Fetch(r) \/ Serve(r) \/ GoOn(r) \/ EmitPending(r) \/ Load(r) \/ LoadFails(r) \/ Done(r)

RefreshStep(p, k) == RefreshDone(p, k) \/ RefreshFails(p, k)

WriteStep ==
  \/ \E w \in tableWrites : writeDashboardTableCache(w)
  \/ \E w \in snapWrites : writeDashboardSnapshotCache(w)

Next ==
  \/ \E r \in Requests, k \in Keys : Ask(r, k) \/ AskBypass(r, k)
  \/ \E r \in Requests : RequestStep(r)
  \/ \E p \in Procs, k \in Keys : RefreshStep(p, k)
  \/ WriteStep
  \/ Tick
  \/ \E p \in Procs : Restart(p)

Spec == Init /\ [][Next]_vars

\* Promises settle, writes land or fail, and the pages keep polling. The clock
\* is not forced, so leases last as long as a behaviour likes.
FairSpec ==
  /\ Spec
  /\ \A r \in Requests : WF_vars(RequestStep(r))
  /\ \A r \in Requests, k \in Keys : WF_vars(Ask(r, k))
  /\ \A p \in Procs, k \in Keys : WF_vars(RefreshStep(p, k))
  /\ WF_vars(WriteStep)

------------------------------------------------------------------------------
(* Properties                                                               *)

\* However many stale hits and misses of a key arrive while its aggregation is
\* running in the background, a process runs it once.
OneRefreshPerKey ==
  \A p \in Procs, k \in Keys : loaders[p][k] = IF k \in inflight[p] THEN 1 ELSE 0

\* No layer ever holds, and no request ever gets, a value computed for another
\* tenant, endpoint, shop, market, order filter or named range than the key's:
\* through copies up, warm writes and rows borrowed by dimensions. The dates of a
\* custom range are not among the dimensions: a row of other dates is borrowed
\* (see the README for the document that excludes it).
OfDims(k, v) == Dims[v.for] = Dims[k]

DimsAreKept ==
  /\ \A p \in Procs, k \in Keys : mem[p][k] # None => OfDims(k, mem[p][k].val)
  /\ \A k \in Keys : table[k] # None => OfDims(k, table[k].val)
  /\ \A k \in Keys : snap[k] # None => OfDims(k, snap[k].val)
  /\ \A w \in tableWrites \cup snapWrites : OfDims(w.key, w.val)
  /\ \A r \in Requests : got[r] \notin {None, Waiting} => OfDims(key[r], got[r].val)
  /\ \A r \in Requests : ans[r] # None /\ ans[r].val # None => OfDims(key[r], ans[r].val)

\* A borrowed row stays in memory under the borrower's key only while the key's
\* own aggregation is under way in that process, and so never outlives it, also
\* when a request that read the row earlier stores it after the aggregation has
\* come back: where no loader fails and the snapshots are off, as in production.
\* (A warm write makes the row the key's file, whose fresh hits refresh nothing.)
BorrowedIsReplaced ==
  \A p \in Procs, k \in Keys :
    mem[p][k] # None /\ mem[p][k].val.for # k => k \in inflight[p]

\* The table is the layer that can be trusted: only loaders write it, so a row
\* in its lease holds the key's own aggregation, no older than the lease and the
\* time its write took, however borrowed and copied the layers above are.
RowsAreYoung ==
  \A k \in Keys : FreshRow(k) =>
    table[k].val.for = k /\ now - table[k].val.at < TableTtl + WriteDelay

\* A page that was told to wait gets a real answer in the end.
PendingEnds ==
  \A k \in Keys :
    (\E r \in Requests : pc[r] = "answered" /\ key[r] = k /\ ans[r].kind = "pending")
      ~> (\E r \in Requests : pc[r] = "answered" /\ key[r] = k /\ ans[r].kind # "pending")

==============================================================================
