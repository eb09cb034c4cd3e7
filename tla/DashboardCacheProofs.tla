------------------------- MODULE DashboardCacheProofs -------------------------
(***************************************************************************)
(* Proofs about DashboardCache, for every set of keys, processes and       *)
(* requests, all leases, and any number of faults and restarts.            *)
(***************************************************************************)
EXTENDS DashboardCache, TLAPS

USE SetsAssumption, TimesAssumption, NoneAssumption
USE DEF refreshVars, storeVars, requestVars, boundVars

MemEntries == [val : Values, exp : Nat, ttl : Nat \ {0}]
Rows       == [val : Values, at : 0..MaxNow]
Files      == [val : Values, exp : Nat]

------------------------------------------------------------------------------
(* Type correctness                                                         *)

\* What a layer returns is a value with an expiry time.
LEMMA ResultTypes ==
  ASSUME TypeOK, NEW layer, NEW k \in Keys, NEW g \in Results(layer, k)
  PROVE  g \in Files
<1>1. \A i \in Keys : table[i] # None => RowResult(i) \in Files
  BY DEF TypeOK, RowResult, Files, Values
<1>2. \A i \in Keys : snap[i] # None => FileResult(i) \in Files
  BY DEF TypeOK, FileResult, Files, Values
<1>q. QED  BY <1>1, <1>2 DEF Results, Newest, SiblingRows, FreshRow, UsableRow

LEMMA ScheduleTypes ==
  ASSUME TypeOK, NEW p \in Procs, NEW k \in Keys,
         scheduleDashboardBackgroundRefresh(p, k) \/ UNCHANGED refreshVars
  PROVE  inflight' \in [Procs -> SUBSET Keys] /\ loaders' \in [Procs -> [Keys -> Nat]]
<1>1. CASE UNCHANGED refreshVars
  BY <1>1 DEF TypeOK
<1>2. CASE scheduleDashboardBackgroundRefresh(p, k) /\ k \notin inflight[p]
  <2>1. [loaders[p] EXCEPT ![k] = @ + 1] \in [Keys -> Nat]
    BY DEF TypeOK
  <2>2. inflight[p] \cup {k} \in SUBSET Keys
    BY DEF TypeOK
  <2>3. inflight' = [inflight EXCEPT ![p] = inflight[p] \cup {k}]
    BY <1>2 DEF scheduleDashboardBackgroundRefresh
  <2>4. loaders' = [loaders EXCEPT ![p] = [loaders[p] EXCEPT ![k] = @ + 1]]
    BY <1>2 DEF scheduleDashboardBackgroundRefresh
  <2>5. inflight' \in [Procs -> SUBSET Keys]
    BY <2>2, <2>3 DEF TypeOK
  <2>6. loaders' \in [Procs -> [Keys -> Nat]]
    BY <2>1, <2>4 DEF TypeOK
  <2>q. QED  BY <2>5, <2>6
<1>q. QED  BY <1>1, <1>2 DEF scheduleDashboardBackgroundRefresh

\* A loader returns the key's own aggregation, dated now.
LEMMA LoadedFields ==
  ASSUME NEW k \in Keys, NEW v \in Loaded(k)
  PROVE  v.for = k /\ v.at = now
<1>1. PICK e \in BOOLEAN : v = [for |-> k, at |-> now, empty |-> e]
  BY DEF Loaded
<1>q. QED  BY <1>1

LEMMA WarmTypes ==
  ASSUME TypeOK, NEW k \in Keys, NEW v \in Values, warmDashboardSnapshot(k, v)
  PROVE  snapWrites' \subseteq [key : Keys, val : Values, exp : Nat]
BY DEF TypeOK, warmDashboardSnapshot

LEMMA CacheSetTypes ==
  ASSUME TypeOK, NEW p \in Procs, NEW k \in Keys, NEW v \in Values,
         NEW ttl \in Nat \ {0}, cacheSet(p, k, v, ttl)
  PROVE  mem' \in [Procs -> [Keys -> MemEntries \cup {None}]]
<1>1. MemEntry(v, ttl) \in MemEntries
  BY DEF TypeOK, MemEntry, MemEntries
<1>q. QED  BY <1>1 DEF TypeOK, cacheSet, MemEntries

LEMMA AnswerTypes ==
  ASSUME TypeOK, NEW r \in Requests, NEW kind \in Layers \cup {"memory", "db", "pending"},
         NEW v \in Values \cup {None}, NEW marked \in BOOLEAN, Answer(r, kind, v, marked)
  PROVE  /\ pc' \in [Requests -> Layers \cup {"idle", "loading", "answered"}]
         /\ got' \in [Requests -> Files \cup {None, Waiting}]
         /\ ans' \in [Requests -> Answers \cup {None}]
BY DEF TypeOK, Answer, Answers, Files

LEMMA PersistTypes ==
  ASSUME TypeOK, NEW p \in Procs, NEW k \in Keys, NEW v \in Loaded(k),
         persistDashboardCaches(p, k, v)
  PROVE  /\ v \in Values
         /\ mem' \in [Procs -> [Keys -> MemEntries \cup {None}]]
         /\ tableWrites' \subseteq [key : Keys, val : Values]
         /\ snapWrites' \subseteq [key : Keys, val : Values, exp : Nat]
<1>1. v \in Values
  <2>1. PICK e \in BOOLEAN : v = [for |-> k, at |-> now, empty |-> e]
    BY DEF Loaded
  <2>q. QED  BY <2>1 DEF TypeOK, Values
<1>2. mem' \in [Procs -> [Keys -> MemEntries \cup {None}]]
  BY <1>1, CacheSetTypes DEF persistDashboardCaches
<1>3. snapWrites' \subseteq [key : Keys, val : Values, exp : Nat]
  BY <1>1, WarmTypes DEF persistDashboardCaches
<1>4. tableWrites' \subseteq [key : Keys, val : Values]
  BY <1>1 DEF TypeOK, persistDashboardCaches
<1>q. QED  BY <1>1, <1>2, <1>3, <1>4

LEMMA LeaseTypes ==
  ASSUME TypeOK, NEW r \in Requests, got[r] \in Files
  PROVE  Lease(r) \in Nat \ {0}
<1>1. got[r].exp \in Nat
  BY DEF Files
<1>2. Left(got[r].exp) \in Nat
  BY <1>1 DEF Left, TypeOK
<1>3. Left(got[r].exp) # 0 /\ ~(Left(got[r].exp) > Near) => Near \in Nat \ {0}
  BY <1>2
<1>q. QED  BY <1>2, <1>3 DEF Lease

LEMMA AskTypes ==
  ASSUME TypeOK, NEW r \in Requests, NEW k \in Keys, Ask(r, k) \/ AskBypass(r, k)
  PROVE  TypeOK'
<1>1. ASSUME AskBypass(r, k) PROVE TypeOK'
  BY <1>1 DEF TypeOK, AskBypass
<1>2. ASSUME Ask(r, k), MemHit(Host[r], k), AnswerFromMemory(r, k) PROVE TypeOK'
  <2> DEFINE e == mem[Host[r]][k]
  <2>1. Host[r] \in Procs /\ e \in MemEntries
    BY <1>2 DEF TypeOK, MemHit, MemEntries
  <2>2. e.val \in Values /\ e.ttl \in Nat /\ isNearExpiryRemaining(e.ttl) \in BOOLEAN
    BY <2>1 DEF MemEntries, isNearExpiryRemaining
  <2>3. snapWrites' \subseteq [key : Keys, val : Values, exp : Nat]
    BY <1>2, <2>2, WarmTypes DEF AnswerFromMemory
  <2>4. inflight' \in [Procs -> SUBSET Keys] /\ loaders' \in [Procs -> [Keys -> Nat]]
    BY <1>2, <2>1, ScheduleTypes DEF AnswerFromMemory, ScheduleIf
  <2>5. /\ pc' \in [Requests -> Layers \cup {"idle", "loading", "answered"}]
        /\ got' \in [Requests -> Files \cup {None, Waiting}]
        /\ ans' \in [Requests -> Answers \cup {None}]
    BY <1>2, <2>2, AnswerTypes DEF AnswerFromMemory
  <2>q. QED  BY <1>2, <2>3, <2>4, <2>5 DEF TypeOK, Ask, AnswerFromMemory, Files
<1>3. ASSUME Ask(r, k), Await(r, "table"), UNCHANGED <<mem, refreshVars, tableWrites, snapWrites>>
      PROVE  TypeOK'
  BY <1>3 DEF TypeOK, Ask, Await, Layers, TableLayers
<1>q. QED  BY <1>1, <1>2, <1>3 DEF Ask

LEMMA RequestTypes ==
  ASSUME TypeOK, NEW r \in Requests, RequestStep(r)
  PROVE  TypeOK'
<1> DEFINE k == key[r]
           p == Host[r]
<1>0. k \in Keys /\ p \in Procs
  BY DEF TypeOK
<1>1. ASSUME Fetch(r) PROVE TypeOK'
  <2>1. got' \in [Requests -> Files \cup {None, Waiting}]
    <3>1. CASE got' = [got EXCEPT ![r] = None]
      BY <3>1 DEF TypeOK, Files
    <3>2. ASSUME NEW g \in Results(pc[r], k), got' = [got EXCEPT ![r] = g]
          PROVE  got' \in [Requests -> Files \cup {None, Waiting}]
      <4>1. g \in Files
        BY <1>0, ResultTypes
      <4>q. QED  BY <3>2, <4>1 DEF TypeOK, Files
    <3>q. QED  BY <1>1, <3>1, <3>2 DEF Fetch
  <2>2. faults' \in 0..MaxFaults
    BY <1>1 DEF TypeOK, Fetch, Fault
  <2>q. QED  BY <1>1, <2>1, <2>2 DEF TypeOK, Fetch, Files
<1>2. ASSUME Serve(r) PROVE TypeOK'
  <2>1. got[r] \in Files /\ got[r].val \in Values
    BY <1>2 DEF TypeOK, Serve, Hit, Files
  <2>2. mem' \in [Procs -> [Keys -> MemEntries \cup {None}]]
    BY <1>0, <1>2, <2>1, LeaseTypes, CacheSetTypes DEF Serve
  <2>3. snapWrites' \subseteq [key : Keys, val : Values, exp : Nat]
    BY <1>0, <1>2, <2>1, WarmTypes DEF Serve, TypeOK
  <2>4. inflight' \in [Procs -> SUBSET Keys] /\ loaders' \in [Procs -> [Keys -> Nat]]
    BY <1>0, <1>2, ScheduleTypes DEF Serve, ScheduleIf
  <2>5. ServedStale(r) \in BOOLEAN
    BY DEF ServedStale
  <2>6. /\ pc' \in [Requests -> Layers \cup {"idle", "loading", "answered"}]
        /\ got' \in [Requests -> Files \cup {None, Waiting}]
        /\ ans' \in [Requests -> Answers \cup {None}]
    BY <1>2, <2>1, <2>5, AnswerTypes DEF Serve
  <2>q. QED  BY <1>2, <2>2, <2>3, <2>4, <2>6 DEF TypeOK, Serve, MemEntries, Files
<1>3. ASSUME GoOn(r) PROVE TypeOK'
  <2>1. /\ pc' \in [Requests -> Layers \cup {"idle", "loading", "answered"}]
        /\ got' \in [Requests -> Files \cup {None, Waiting}]
        /\ ans' \in [Requests -> Answers \cup {None}]
    <3>1. /\ pc \in [Requests -> Layers \cup {"idle", "loading", "answered"}]
          /\ got \in [Requests -> Files \cup {None, Waiting}]
          /\ ans \in [Requests -> Answers \cup {None}]
      BY DEF TypeOK, Files
    <3>2. CASE NextLayer(r) \in Layers /\ Await(r, NextLayer(r))
      BY <3>1, <3>2 DEF Await
    <3>3. CASE /\ pc' = [pc EXCEPT ![r] = "loading"]
               /\ got' = [got EXCEPT ![r] = None]
               /\ UNCHANGED ans
      BY <3>1, <3>3
    <3>q. QED  BY <1>3, <3>2, <3>3 DEF GoOn
  <2>2. UNCHANGED <<mem, storeVars, refreshVars, tableWrites, snapWrites, key, now, boundVars>>
    BY <1>3 DEF GoOn
  <2>q. QED  BY <2>1, <2>2 DEF TypeOK, storeVars, refreshVars, boundVars, Files
<1>4. ASSUME EmitPending(r) PROVE TypeOK'
  <2>1. inflight' \in [Procs -> SUBSET Keys] /\ loaders' \in [Procs -> [Keys -> Nat]]
    BY <1>0, <1>4, ScheduleTypes DEF EmitPending
  <2>2. CASE warmDashboardSnapshot(k, mem[p][k].val) /\ MemHit(p, k)
             /\ Answer(r, "memory", mem[p][k].val, isNearExpiryRemaining(mem[p][k].ttl))
    <3>1. mem[p][k] \in MemEntries
      BY <1>0, <2>2 DEF TypeOK, MemHit, MemEntries
    <3>2. mem[p][k].val \in Values /\ isNearExpiryRemaining(mem[p][k].ttl) \in BOOLEAN
      BY <3>1 DEF MemEntries, isNearExpiryRemaining
    <3>3. snapWrites' \subseteq [key : Keys, val : Values, exp : Nat]
      BY <1>0, <2>2, <3>2, WarmTypes
    <3>4. /\ pc' \in [Requests -> Layers \cup {"idle", "loading", "answered"}]
          /\ got' \in [Requests -> Files \cup {None, Waiting}]
          /\ ans' \in [Requests -> Answers \cup {None}]
      BY <2>2, <3>2, AnswerTypes
    <3>q. QED  BY <1>4, <2>1, <3>3, <3>4 DEF TypeOK, EmitPending, Files
  <2>3. CASE Answer(r, "pending", None, TRUE) /\ UNCHANGED snapWrites
    <3>1. /\ pc' \in [Requests -> Layers \cup {"idle", "loading", "answered"}]
          /\ got' \in [Requests -> Files \cup {None, Waiting}]
          /\ ans' \in [Requests -> Answers \cup {None}]
      BY <2>3, AnswerTypes
    <3>q. QED  BY <1>4, <2>1, <2>3, <3>1 DEF TypeOK, EmitPending, Files
  <2>q. QED  BY <1>4, <2>2, <2>3 DEF EmitPending
<1>5. ASSUME Load(r) PROVE TypeOK'
  <2>1. PICK v \in Loaded(k) : persistDashboardCaches(p, k, v) /\ Answer(r, "db", v, FALSE)
    BY <1>5 DEF Load
  <2>2. v \in Values
    BY <1>0, <2>1, PersistTypes
  <2>3. /\ pc' \in [Requests -> Layers \cup {"idle", "loading", "answered"}]
        /\ got' \in [Requests -> Files \cup {None, Waiting}]
        /\ ans' \in [Requests -> Answers \cup {None}]
    BY <2>1, <2>2, AnswerTypes
  <2>4. /\ mem' \in [Procs -> [Keys -> MemEntries \cup {None}]]
        /\ tableWrites' \subseteq [key : Keys, val : Values]
        /\ snapWrites' \subseteq [key : Keys, val : Values, exp : Nat]
    BY <1>0, <2>1, PersistTypes
  <2>q. QED  BY <1>5, <2>3, <2>4 DEF TypeOK, Load, MemEntries, Files
<1>6. ASSUME LoadFails(r) PROVE TypeOK'
  BY <1>6 DEF TypeOK, LoadFails, Fault
<1>7. ASSUME Done(r) PROVE TypeOK'
  BY <1>7 DEF TypeOK, Done
<1>q. QED  BY <1>1, <1>2, <1>3, <1>4, <1>5, <1>6, <1>7 DEF RequestStep

LEMMA BackgroundTypes ==
  ASSUME TypeOK,
         \/ \E p \in Procs, k \in Keys : RefreshStep(p, k)
         \/ WriteStep
         \/ Tick
         \/ \E p \in Procs : Restart(p)
  PROVE  TypeOK'
<1>1. ASSUME NEW p \in Procs, NEW k \in Keys, RefreshStep(p, k) PROVE TypeOK'
  <2>1. loaders[p][k] \in Nat /\ loaders[p][k] > 0 /\ ClearInflight(p, k)
    BY <1>1 DEF TypeOK, RefreshStep, RefreshDone, RefreshFails
  <2>2. inflight' \in [Procs -> SUBSET Keys] /\ loaders' \in [Procs -> [Keys -> Nat]]
    BY <2>1 DEF TypeOK, ClearInflight
  <2>3. CASE RefreshDone(p, k)
    <3>1. /\ mem' \in [Procs -> [Keys -> MemEntries \cup {None}]]
          /\ tableWrites' \subseteq [key : Keys, val : Values]
          /\ snapWrites' \subseteq [key : Keys, val : Values, exp : Nat]
      BY <2>3, PersistTypes DEF RefreshDone
    <3>q. QED  BY <2>2, <2>3, <3>1 DEF TypeOK, RefreshDone, MemEntries
  <2>4. CASE RefreshFails(p, k)
    BY <2>2, <2>4 DEF TypeOK, RefreshFails, Fault
  <2>q. QED  BY <1>1, <2>3, <2>4 DEF RefreshStep
<1>2. ASSUME NEW w \in tableWrites, writeDashboardTableCache(w) PROVE TypeOK'
  <2>1. w.key \in Keys /\ [val |-> w.val, at |-> now] \in Rows
    BY <1>2 DEF TypeOK, Rows
  <2>2. table' \in [Keys -> Rows \cup {None}]
    BY <1>2, <2>1 DEF TypeOK, writeDashboardTableCache, Upsert, Rows
  <2>3. faults' \in 0..MaxFaults
    BY <1>2 DEF TypeOK, writeDashboardTableCache, Fault
  <2>q. QED  BY <1>2, <2>2, <2>3 DEF TypeOK, writeDashboardTableCache, Rows
<1>3. ASSUME NEW w \in snapWrites, writeDashboardSnapshotCache(w) PROVE TypeOK'
  <2>1. w.key \in Keys /\ [val |-> w.val, exp |-> w.exp] \in Files
    BY <1>3 DEF TypeOK, Files
  <2>q. QED  BY <1>3, <2>1 DEF TypeOK, writeDashboardSnapshotCache, Fault, Files
<1>4. ASSUME Tick PROVE TypeOK'
  BY <1>4 DEF TypeOK, Tick
<1>5. ASSUME NEW p \in Procs, Restart(p) PROVE TypeOK'
  BY <1>5 DEF TypeOK, Restart
<1>q. QED  BY <1>1, <1>2, <1>3, <1>4, <1>5 DEF WriteStep

\* Every variable keeps its type: leases granted are never zero, counters stay
\* within their bounds.
THEOREM TypeCorrect == Spec => []TypeOK
<1>1. Init => TypeOK
  BY DEF Init, TypeOK
<1>2. TypeOK /\ [Next]_vars => TypeOK'
  <2> SUFFICES ASSUME TypeOK, [Next]_vars PROVE TypeOK'
    OBVIOUS
  <2>1. CASE UNCHANGED vars
    BY <2>1 DEF TypeOK, vars
  <2>2. CASE Next
    BY <2>2, AskTypes, RequestTypes, BackgroundTypes DEF Next
  <2>q. QED  BY <2>1, <2>2
<1>q. QED  BY <1>1, <1>2, PTL DEF Spec

------------------------------------------------------------------------------
(* One background refresh per key and process                               *)

LEMMA ScheduleOnce ==
  ASSUME TypeOK, OneRefreshPerKey, NEW p \in Procs, NEW k \in Keys,
         scheduleDashboardBackgroundRefresh(p, k) \/ UNCHANGED refreshVars
  PROVE  OneRefreshPerKey'
BY DEF TypeOK, OneRefreshPerKey, scheduleDashboardBackgroundRefresh

LEMMA ClearOnce ==
  ASSUME TypeOK, OneRefreshPerKey, NEW p \in Procs, NEW k \in Keys,
         loaders[p][k] > 0, ClearInflight(p, k)
  PROVE  OneRefreshPerKey'
BY DEF TypeOK, OneRefreshPerKey, ClearInflight

\* scheduleDashboardBackgroundRefresh: a process runs the aggregation of a key
\* in the background at most once at a time, and exactly when it is marked so.
THEOREM RefreshIsShared == Spec => []OneRefreshPerKey
<1>1. Init => OneRefreshPerKey
  BY DEF Init, OneRefreshPerKey
<1>2. TypeOK /\ OneRefreshPerKey /\ [Next]_vars => OneRefreshPerKey'
  <2> SUFFICES ASSUME TypeOK, OneRefreshPerKey, [Next]_vars PROVE OneRefreshPerKey'
    OBVIOUS
  <2>0. \A r \in Requests : Host[r] \in Procs /\ key[r] \in Keys
    BY DEF TypeOK
  <2>1. ASSUME UNCHANGED refreshVars PROVE OneRefreshPerKey'
    BY <2>1 DEF OneRefreshPerKey
  <2>2. ASSUME NEW r \in Requests, NEW k \in Keys, Ask(r, k) \/ AskBypass(r, k)
        PROVE  OneRefreshPerKey'
    <3>1. scheduleDashboardBackgroundRefresh(Host[r], k) \/ UNCHANGED refreshVars
      BY <2>2 DEF Ask, AskBypass, AnswerFromMemory, ScheduleIf
    <3>q. QED  BY <2>0, <3>1, ScheduleOnce
  <2>3. ASSUME NEW r \in Requests, RequestStep(r) PROVE OneRefreshPerKey'
    <3>1. scheduleDashboardBackgroundRefresh(Host[r], key[r]) \/ UNCHANGED refreshVars
      BY <2>3 DEF RequestStep, Fetch, Serve, GoOn, EmitPending, Load, LoadFails, Done, ScheduleIf
    <3>q. QED  BY <2>0, <3>1, ScheduleOnce
  <2>4. ASSUME NEW p \in Procs, NEW k \in Keys, RefreshStep(p, k) PROVE OneRefreshPerKey'
    BY <2>4, ClearOnce DEF RefreshStep, RefreshDone, RefreshFails
  <2>5. ASSUME WriteStep \/ Tick \/ UNCHANGED vars PROVE UNCHANGED refreshVars
    BY <2>5 DEF WriteStep, writeDashboardTableCache, writeDashboardSnapshotCache, Tick, vars
  <2>6. ASSUME NEW p \in Procs, Restart(p) PROVE OneRefreshPerKey'
    BY <2>6 DEF TypeOK, OneRefreshPerKey, Restart
  <2>q. QED  BY <2>1, <2>2, <2>3, <2>4, <2>5, <2>6 DEF Next
<1>q. QED  BY <1>1, <1>2, TypeCorrect, PTL DEF Spec

------------------------------------------------------------------------------
(* Rows of the table                                                        *)

\* An upsert under way carries its own key's aggregation and is not too late.
WritesOK ==
  \A w \in tableWrites : /\ w.val.for = w.key
                         /\ w.val.at <= now /\ now - w.val.at <= WriteDelay

\* A row is its own key's aggregation and was not old when it was written.
RowsOK ==
  \A k \in Keys : table[k] # None =>
    table[k].val.for = k /\ table[k].at - table[k].val.at <= WriteDelay

RowInv == TypeOK /\ WritesOK /\ RowsOK

LEMMA PersistRows ==
  ASSUME RowInv, NEW p \in Procs, NEW k \in Keys, NEW v \in Loaded(k),
         persistDashboardCaches(p, k, v), UNCHANGED <<table, now>>
  PROVE  WritesOK' /\ RowsOK'
<1>1. v.for = k /\ v.at = now
  BY LoadedFields
<1>2. now \in Nat /\ now - now = 0
  BY DEF RowInv, TypeOK
<1>3. WritesOK'
  BY <1>1, <1>2 DEF RowInv, WritesOK, persistDashboardCaches
<1>4. RowsOK'
  BY DEF RowInv, RowsOK
<1>q. QED  BY <1>3, <1>4

LEMMA RowStep ==
  ASSUME RowInv, [Next]_vars
  PROVE  WritesOK' /\ RowsOK'
<1>1. ASSUME UNCHANGED <<table, tableWrites, now>> PROVE WritesOK' /\ RowsOK'
  BY <1>1 DEF RowInv, WritesOK, RowsOK
<1>2. ASSUME NEW r \in Requests, NEW k \in Keys, Ask(r, k) \/ AskBypass(r, k)
      PROVE  UNCHANGED <<table, tableWrites, now>>
  BY <1>2 DEF Ask, AskBypass, AnswerFromMemory
<1>3. ASSUME NEW r \in Requests, RequestStep(r) PROVE WritesOK' /\ RowsOK'
  <2>1. CASE Load(r)
    <3>1. key[r] \in Keys /\ Host[r] \in Procs
      BY DEF RowInv, TypeOK
    <3>q. QED  BY <2>1, <3>1, PersistRows DEF Load
  <2>2. CASE ~Load(r)
    BY <1>1, <1>3, <2>2 DEF RequestStep, Fetch, Serve, GoOn, EmitPending, LoadFails, Done
  <2>q. QED  BY <2>1, <2>2
<1>4. ASSUME NEW p \in Procs, NEW k \in Keys, RefreshStep(p, k) PROVE WritesOK' /\ RowsOK'
  <2>1. CASE RefreshDone(p, k)
    BY <2>1, PersistRows DEF RefreshDone
  <2>2. CASE RefreshFails(p, k)
    BY <1>1, <2>2 DEF RefreshFails
  <2>q. QED  BY <1>4, <2>1, <2>2 DEF RefreshStep
<1>5. ASSUME NEW w \in tableWrites, writeDashboardTableCache(w) PROVE WritesOK' /\ RowsOK'
  <2>1. w.key \in Keys /\ w.val.for = w.key /\ now - w.val.at <= WriteDelay
    BY DEF RowInv, TypeOK, WritesOK
  <2>2. WritesOK'
    BY <1>5 DEF RowInv, WritesOK, writeDashboardTableCache
  <2>3. CASE Upsert(w)
    <3>1. table'[w.key] = [val |-> w.val, at |-> now]
      BY <2>1, <2>3 DEF Upsert, RowInv, TypeOK
    <3>2. \A k \in Keys \ {w.key} : table'[k] = table[k]
      BY <2>1, <2>3 DEF Upsert, RowInv, TypeOK
    <3>q. QED  BY <2>1, <2>2, <3>1, <3>2 DEF RowInv, RowsOK
  <2>4. CASE UNCHANGED table
    BY <2>2, <2>4 DEF RowInv, RowsOK
  <2>q. QED  BY <1>5, <2>3, <2>4 DEF writeDashboardTableCache
<1>6. ASSUME NEW w \in snapWrites, writeDashboardSnapshotCache(w)
      PROVE  UNCHANGED <<table, tableWrites, now>>
  BY <1>6 DEF writeDashboardSnapshotCache
<1>7. ASSUME Tick PROVE WritesOK' /\ RowsOK'
  <2>1. \A w \in tableWrites : w.val.at \in Nat
    BY DEF RowInv, TypeOK, Values
  <2>2. now \in Nat /\ now' = now + 1 /\ UNCHANGED <<table, tableWrites>>
    BY <1>7 DEF RowInv, TypeOK, Tick
  <2>3. WritesOK'
    BY <1>7, <2>1, <2>2 DEF RowInv, WritesOK, Tick
  <2>q. QED  BY <2>2, <2>3 DEF RowInv, RowsOK
<1>8. ASSUME NEW p \in Procs, Restart(p) PROVE WritesOK' /\ RowsOK'
  BY <1>8 DEF RowInv, WritesOK, RowsOK, Restart
<1>q. QED
  BY <1>1, <1>2, <1>3, <1>4, <1>5, <1>6, <1>7, <1>8 DEF Next, WriteStep, vars

\* writeDashboardTableCache and its callers: a row in its lease holds the key's
\* own aggregation, no older than the lease and the time its write took.
THEOREM TableIsYoung == Spec => []RowsAreYoung
<1>1. Init => WritesOK /\ RowsOK
  BY DEF Init, WritesOK, RowsOK
<1>2. RowInv /\ [Next]_vars => WritesOK' /\ RowsOK'
  BY RowStep
<1>3. RowInv => RowsAreYoung
  <2> SUFFICES ASSUME RowInv, NEW k \in Keys, FreshRow(k)
               PROVE  table[k].val.for = k /\ now - table[k].val.at < TableTtl + WriteDelay
    BY DEF RowsAreYoung
  <2>1. table[k] \in Rows /\ now \in Nat
    BY DEF RowInv, TypeOK, FreshRow, Rows
  <2>2. table[k].at \in Nat /\ table[k].val.at \in Nat
    BY <2>1 DEF Rows, Values
  <2>q. QED  BY <2>1, <2>2 DEF RowInv, RowsOK, FreshRow
<1>q. QED  BY <1>1, <1>2, <1>3, TypeCorrect, PTL DEF Spec, RowInv

------------------------------------------------------------------------------
(* Values stay within their dimensions                                      *)

\* Only a request that is reading a layer has a result in hand, and only one
\* that is answered has an answer: a request that starts over has neither.
HandsOK ==
  \A r \in Requests : /\ pc[r] \notin Layers => got[r] = None
                      /\ pc[r] # "answered" => ans[r] = None

DimInv == TypeOK /\ HandsOK /\ DimsAreKept

\* The parts of DimsAreKept, by owner.
MemDims   == \A p \in Procs, k \in Keys : mem[p][k] # None => OfDims(k, mem[p][k].val)
TableDims == \A k \in Keys : table[k] # None => OfDims(k, table[k].val)
SnapDims  == \A k \in Keys : snap[k] # None => OfDims(k, snap[k].val)
WriteDims == \A w \in tableWrites \cup snapWrites : OfDims(w.key, w.val)
GotDims   == \A r \in Requests : got[r] \notin {None, Waiting} => OfDims(key[r], got[r].val)
AnsDims   == \A r \in Requests : ans[r] # None /\ ans[r].val # None => OfDims(key[r], ans[r].val)

LEMMA DimParts ==
  DimsAreKept <=> MemDims /\ TableDims /\ SnapDims /\ WriteDims /\ GotDims /\ AnsDims
BY DEF DimsAreKept, MemDims, TableDims, SnapDims, WriteDims, GotDims, AnsDims

LEMMA StoreDims ==
  ASSUME TableDims, SnapDims, UNCHANGED storeVars
  PROVE  TableDims' /\ SnapDims'
BY DEF TableDims, SnapDims, OfDims

LEMMA CacheSetDims ==
  ASSUME TypeOK, MemDims, NEW p \in Procs, NEW k \in Keys, NEW v, NEW ttl,
         OfDims(k, v), cacheSet(p, k, v, ttl)
  PROVE  MemDims'
BY DEF TypeOK, MemDims, OfDims, cacheSet, MemEntry

LEMMA WarmDims ==
  ASSUME NEW k, NEW v, OfDims(k, v), warmDashboardSnapshot(k, v),
         \A w \in snapWrites : OfDims(w.key, w.val)
  PROVE  \A w \in snapWrites' : OfDims(w.key, w.val)
BY DEF warmDashboardSnapshot

LEMMA PersistDims ==
  ASSUME TypeOK, MemDims, WriteDims, NEW p \in Procs, NEW k \in Keys,
         NEW v \in Loaded(k), persistDashboardCaches(p, k, v)
  PROVE  MemDims' /\ WriteDims' /\ OfDims(k, v)
<1>1. OfDims(k, v)
  BY LoadedFields DEF OfDims
<1>2. MemDims'
  BY <1>1, CacheSetDims DEF persistDashboardCaches
<1>3. \A w \in snapWrites' : OfDims(w.key, w.val)
  BY <1>1, WarmDims DEF persistDashboardCaches, WriteDims
<1>4. \A w \in tableWrites' : OfDims(w.key, w.val)
  BY <1>1 DEF persistDashboardCaches, WriteDims
<1>5. WriteDims'
  BY <1>3, <1>4 DEF WriteDims, OfDims
<1>q. QED  BY <1>1, <1>2, <1>5

\* What a layer returns for k was computed for k's dimensions: the exact layers
\* return k's own entry, the borrowed row is one of a sibling.
LEMMA ResultDims ==
  ASSUME TableDims, SnapDims, NEW layer, NEW k \in Keys, NEW g \in Results(layer, k)
  PROVE  OfDims(k, g.val)
<1>1. \A i \in Keys : table[i] # None /\ Dims[i] = Dims[k] => OfDims(k, RowResult(i).val)
  BY DEF TableDims, OfDims, RowResult
<1>2. snap[k] # None => OfDims(k, FileResult(k).val)
  BY DEF SnapDims, OfDims, FileResult
<1>q. QED  BY <1>1, <1>2 DEF Results, Newest, SiblingRows, FreshRow, UsableRow

\* An answer replaces the result in hand of the one request that sends it.
LEMMA AnswerDims ==
  ASSUME TypeOK, HandsOK, GotDims, AnsDims, NEW r \in Requests, NEW k \in Keys,
         key' = [key EXCEPT ![r] = k],
         NEW kind, NEW v, NEW marked, Answer(r, kind, v, marked),
         v # None => OfDims(k, v)
  PROVE  GotDims' /\ AnsDims' /\ HandsOK'
<1>1. \A s \in Requests \ {r} : /\ key'[s] = key[s] /\ pc'[s] = pc[s]
                               /\ got'[s] = got[s] /\ ans'[s] = ans[s]
  BY DEF TypeOK, Answer
<1>2. /\ key'[r] = k /\ pc'[r] = "answered" /\ got'[r] = None
      /\ ans'[r] = [kind |-> kind, val |-> v, marked |-> marked]
  BY DEF TypeOK, Answer
<1>3. GotDims'
  BY <1>1, <1>2 DEF GotDims, OfDims
<1>4. AnsDims'
  BY <1>1, <1>2 DEF AnsDims, OfDims
<1>5. HandsOK'
  BY <1>1, <1>2 DEF HandsOK, Layers, TableLayers
<1>q. QED  BY <1>3, <1>4, <1>5

LEMMA AskDims ==
  ASSUME DimInv, NEW r \in Requests, NEW k \in Keys, Ask(r, k) \/ AskBypass(r, k)
  PROVE  HandsOK' /\ DimsAreKept'
<1>0. MemDims /\ TableDims /\ SnapDims /\ WriteDims /\ GotDims /\ AnsDims
  BY DimParts DEF DimInv
<1>1. pc[r] = "idle" /\ got[r] = None /\ ans[r] = None
  BY DEF DimInv, HandsOK, Ask, AskBypass, Layers, TableLayers
<1>2. CASE Ask(r, k) /\ MemHit(Host[r], k) /\ AnswerFromMemory(r, k)
  <2> DEFINE v == mem[Host[r]][k].val
  <2>1. Host[r] \in Procs /\ OfDims(k, v)
    BY <1>0, <1>2 DEF MemDims, MemHit
  <2>2. GotDims' /\ AnsDims' /\ HandsOK'
    BY <1>0, <1>2, <2>1, AnswerDims DEF DimInv, Ask, AnswerFromMemory
  <2>3. \A w \in snapWrites' : OfDims(w.key, w.val)
    BY <1>0, <1>2, <2>1, WarmDims DEF AnswerFromMemory, WriteDims
  <2>4. WriteDims' /\ MemDims'
    BY <1>0, <1>2, <2>3 DEF AnswerFromMemory, WriteDims, MemDims, OfDims
  <2>5. TableDims' /\ SnapDims'
    BY <1>0, <1>2, StoreDims DEF Ask
  <2>q. QED
    <3>1. MemDims' /\ TableDims' /\ SnapDims' /\ WriteDims' /\ GotDims' /\ AnsDims'
      BY <2>2, <2>4, <2>5
    <3>q. QED  BY <2>2, <3>1
           DEF DimsAreKept, MemDims, TableDims, SnapDims, WriteDims, GotDims, AnsDims
<1>3. CASE Await(r, "table") /\ Ask(r, k) /\ UNCHANGED <<mem, tableWrites, snapWrites>>
  <2>1. \A s \in Requests \ {r} : key'[s] = key[s] /\ pc'[s] = pc[s] /\ got'[s] = got[s]
    BY <1>3 DEF DimInv, TypeOK, Ask, Await
  <2>2. pc'[r] = "table" /\ got'[r] = Waiting /\ UNCHANGED ans
    BY <1>3 DEF DimInv, TypeOK, Await
  <2>3. HandsOK' /\ GotDims' /\ AnsDims'
    BY <1>0, <1>1, <2>1, <2>2
    DEF DimInv, HandsOK, GotDims, AnsDims, OfDims, Layers, TableLayers
  <2>4. MemDims' /\ TableDims' /\ SnapDims' /\ WriteDims'
    BY <1>0, <1>3, StoreDims DEF Ask, MemDims, WriteDims, OfDims
  <2>q. QED  BY <2>3, <2>4
         DEF DimsAreKept, MemDims, TableDims, SnapDims, WriteDims, GotDims, AnsDims
<1>4. CASE AskBypass(r, k)
  <2>1. \A s \in Requests \ {r} : key'[s] = key[s] /\ pc'[s] = pc[s]
    BY <1>4 DEF DimInv, TypeOK, AskBypass
  <2>2. pc'[r] = "loading" /\ UNCHANGED <<got, ans>>
    BY <1>4 DEF DimInv, TypeOK, AskBypass
  <2>3. HandsOK' /\ GotDims' /\ AnsDims'
    BY <1>0, <1>1, <2>1, <2>2
    DEF DimInv, HandsOK, GotDims, AnsDims, OfDims, Layers, TableLayers
  <2>4. MemDims' /\ TableDims' /\ SnapDims' /\ WriteDims'
    BY <1>0, <1>4, StoreDims DEF AskBypass, MemDims, WriteDims, OfDims
  <2>q. QED  BY <2>3, <2>4
         DEF DimsAreKept, MemDims, TableDims, SnapDims, WriteDims, GotDims, AnsDims
<1>q. QED  BY <1>2, <1>3, <1>4 DEF Ask

LEMMA RequestDims ==
  ASSUME DimInv, NEW r \in Requests, RequestStep(r)
  PROVE  HandsOK' /\ DimsAreKept'
<1> DEFINE k == key[r]
           p == Host[r]
           v == got[r].val
<1>0. MemDims /\ TableDims /\ SnapDims /\ WriteDims /\ GotDims /\ AnsDims
  BY DimParts DEF DimInv
<1>a. k \in Keys /\ p \in Procs /\ key = [key EXCEPT ![r] = k]
  BY DEF DimInv, TypeOK
<1>b. TableDims' /\ SnapDims'
  <2>1. UNCHANGED storeVars
    BY DEF RequestStep, Fetch, Serve, GoOn, EmitPending, Load, LoadFails, Done
  <2>q. QED  BY <1>0, <2>1, StoreDims
<1>c. key' = key
  BY DEF RequestStep, Fetch, Serve, GoOn, EmitPending, Load, LoadFails, Done
<1>d. ASSUME UNCHANGED <<mem, tableWrites, snapWrites>> PROVE MemDims' /\ WriteDims'
  BY <1>0, <1>d DEF MemDims, WriteDims, OfDims
<1>e. ASSUME MemDims', WriteDims', GotDims', AnsDims', HandsOK' PROVE HandsOK' /\ DimsAreKept'
  BY <1>b, <1>e DEF DimsAreKept, MemDims, TableDims, SnapDims, WriteDims, GotDims, AnsDims
<1>1. ASSUME Fetch(r) PROVE HandsOK' /\ DimsAreKept'
  <2>1. \A s \in Requests \ {r} : got'[s] = got[s]
    BY <1>1 DEF DimInv, TypeOK, Fetch
  <2>2. got'[r] \notin {None, Waiting} => OfDims(k, got'[r].val)
    <3>1. CASE got' = [got EXCEPT ![r] = None]
      BY <3>1 DEF DimInv, TypeOK
    <3>2. ASSUME NEW g \in Results(pc[r], k), got' = [got EXCEPT ![r] = g]
          PROVE  OfDims(k, got'[r].val)
      <4>1. OfDims(k, g.val)
        BY <1>0, <1>a, ResultDims
      <4>q. QED  BY <3>2, <4>1 DEF DimInv, TypeOK
    <3>q. QED  BY <1>1, <3>1, <3>2 DEF Fetch
  <2>3. pc[r] \in Layers /\ UNCHANGED <<pc, ans>>
    BY <1>1 DEF Fetch
  <2>4. GotDims' /\ AnsDims' /\ HandsOK'
    BY <1>0, <1>c, <2>1, <2>2, <2>3 DEF DimInv, HandsOK, GotDims, AnsDims, OfDims
  <2>q. QED  BY <1>1, <1>d, <1>e, <2>4 DEF Fetch
<1>2. ASSUME Serve(r) PROVE HandsOK' /\ DimsAreKept'
  <2>1. OfDims(k, v)
    BY <1>0, <1>2 DEF Serve, Hit, GotDims
  <2>2. GotDims' /\ AnsDims' /\ HandsOK'
    BY <1>0, <1>2, <1>a, <1>c, <2>1, AnswerDims DEF DimInv, Serve
  <2>3. MemDims'
    BY <1>0, <1>2, <1>a, <2>1, CacheSetDims DEF DimInv, Serve
  <2>4. \A w \in snapWrites' : OfDims(w.key, w.val)
    BY <1>0, <1>2, <2>1, WarmDims DEF Serve, WriteDims
  <2>5. WriteDims'
    BY <1>0, <1>2, <2>4 DEF Serve, WriteDims, OfDims
  <2>q. QED  BY <1>e, <2>2, <2>3, <2>5
<1>3. ASSUME GoOn(r) PROVE HandsOK' /\ DimsAreKept'
  <2>1. \A s \in Requests \ {r} : pc'[s] = pc[s] /\ got'[s] = got[s]
    BY <1>3 DEF DimInv, TypeOK, GoOn, Await
  <2>2. /\ (pc'[r] \in Layers /\ got'[r] = Waiting) \/ got'[r] = None
        /\ pc[r] # "answered" /\ UNCHANGED ans
    BY <1>3 DEF DimInv, TypeOK, GoOn, Await, Missed, Layers, TableLayers
  <2>3. GotDims' /\ AnsDims' /\ HandsOK'
    BY <1>0, <1>c, <2>1, <2>2 DEF DimInv, HandsOK, GotDims, AnsDims, OfDims
  <2>q. QED  BY <1>3, <1>d, <1>e, <2>3 DEF GoOn
<1>4. ASSUME EmitPending(r) PROVE HandsOK' /\ DimsAreKept'
  <2>1. CASE /\ MemHit(p, k)
             /\ warmDashboardSnapshot(k, mem[p][k].val)
             /\ Answer(r, "memory", mem[p][k].val, isNearExpiryRemaining(mem[p][k].ttl))
    <3>1. OfDims(k, mem[p][k].val)
      BY <1>0, <1>a, <2>1 DEF MemDims, MemHit
    <3>2. GotDims' /\ AnsDims' /\ HandsOK'
      BY <1>0, <1>a, <1>c, <2>1, <3>1, AnswerDims DEF DimInv
    <3>3. \A w \in snapWrites' : OfDims(w.key, w.val)
      BY <1>0, <2>1, <3>1, WarmDims DEF WriteDims
    <3>4. MemDims' /\ WriteDims'
      BY <1>0, <1>4, <3>3 DEF EmitPending, MemDims, WriteDims, OfDims
    <3>q. QED  BY <1>e, <3>2, <3>4
  <2>2. CASE Answer(r, "pending", None, TRUE) /\ UNCHANGED snapWrites
    <3>1. GotDims' /\ AnsDims' /\ HandsOK'
      BY <1>0, <1>a, <1>c, <2>2, AnswerDims DEF DimInv
    <3>q. QED  BY <1>4, <1>d, <1>e, <2>2, <3>1 DEF EmitPending
  <2>q. QED  BY <1>4, <2>1, <2>2 DEF EmitPending
<1>5. ASSUME Load(r) PROVE HandsOK' /\ DimsAreKept'
  <2>1. PICK w \in Loaded(k) : persistDashboardCaches(p, k, w) /\ Answer(r, "db", w, FALSE)
    BY <1>5 DEF Load
  <2>2. MemDims' /\ WriteDims' /\ OfDims(k, w)
    BY <1>0, <1>a, <2>1, PersistDims DEF DimInv
  <2>3. GotDims' /\ AnsDims' /\ HandsOK'
    BY <1>0, <1>a, <1>c, <2>1, <2>2, AnswerDims DEF DimInv
  <2>q. QED  BY <1>e, <2>2, <2>3
<1>6. ASSUME LoadFails(r) PROVE HandsOK' /\ DimsAreKept'
  <2>1. pc[r] = "loading" /\ UNCHANGED <<got, ans>>
    BY <1>6 DEF LoadFails
  <2>2. pc' = [pc EXCEPT ![r] = "idle"]
    BY <1>6 DEF LoadFails
  <2>3. GotDims' /\ AnsDims' /\ HandsOK'
    BY <1>0, <1>c, <2>1, <2>2
    DEF DimInv, TypeOK, HandsOK, GotDims, AnsDims, OfDims, Layers, TableLayers
  <2>q. QED  BY <1>6, <1>d, <1>e, <2>3 DEF LoadFails
<1>7. ASSUME Done(r) PROVE HandsOK' /\ DimsAreKept'
  <2>1. \A s \in Requests \ {r} : pc'[s] = pc[s] /\ ans'[s] = ans[s]
    BY <1>7 DEF DimInv, TypeOK, Done
  <2>2. pc[r] = "answered" /\ pc'[r] = "idle" /\ ans'[r] = None /\ UNCHANGED got
    BY <1>7 DEF DimInv, TypeOK, Done
  <2>3. GotDims' /\ AnsDims' /\ HandsOK'
    BY <1>0, <1>c, <2>1, <2>2
    DEF DimInv, HandsOK, GotDims, AnsDims, OfDims, Layers, TableLayers
  <2>q. QED  BY <1>7, <1>d, <1>e, <2>3 DEF Done
<1>q. QED  BY <1>1, <1>2, <1>3, <1>4, <1>5, <1>6, <1>7 DEF RequestStep

LEMMA BackgroundDims ==
  ASSUME DimInv,
         \/ \E p \in Procs, k \in Keys : RefreshStep(p, k)
         \/ WriteStep
         \/ Tick
         \/ \E p \in Procs : Restart(p)
  PROVE  HandsOK' /\ DimsAreKept'
<1>0. MemDims /\ TableDims /\ SnapDims /\ WriteDims /\ GotDims /\ AnsDims
  BY DimParts DEF DimInv
<1>a. ASSUME UNCHANGED requestVars PROVE GotDims' /\ AnsDims' /\ HandsOK'
  BY <1>0, <1>a DEF DimInv, HandsOK, GotDims, AnsDims, OfDims
<1>b. ASSUME MemDims', TableDims', SnapDims', WriteDims', GotDims', AnsDims', HandsOK'
      PROVE  HandsOK' /\ DimsAreKept'
  BY <1>b DEF DimsAreKept, MemDims, TableDims, SnapDims, WriteDims, GotDims, AnsDims
<1>1. ASSUME NEW p \in Procs, NEW k \in Keys, RefreshStep(p, k) PROVE HandsOK' /\ DimsAreKept'
  <2>1. TableDims' /\ SnapDims' /\ GotDims' /\ AnsDims' /\ HandsOK'
    BY <1>0, <1>1, <1>a, StoreDims DEF RefreshStep, RefreshDone, RefreshFails
  <2>2. MemDims' /\ WriteDims'
    <3>1. CASE RefreshDone(p, k)
      BY <1>0, <3>1, PersistDims DEF DimInv, RefreshDone
    <3>2. CASE RefreshFails(p, k)
      BY <1>0, <3>2 DEF RefreshFails, MemDims, WriteDims, OfDims
    <3>q. QED  BY <1>1, <3>1, <3>2 DEF RefreshStep
  <2>q. QED  BY <1>b, <2>1, <2>2
<1>2. ASSUME NEW w \in tableWrites, writeDashboardTableCache(w) PROVE HandsOK' /\ DimsAreKept'
  <2>1. w.key \in Keys /\ OfDims(w.key, w.val)
    BY <1>0 DEF DimInv, TypeOK, WriteDims
  <2>2. TableDims'
    BY <1>0, <1>2, <2>1
    DEF DimInv, TypeOK, TableDims, OfDims, writeDashboardTableCache, Upsert
  <2>3. MemDims' /\ SnapDims' /\ WriteDims' /\ GotDims' /\ AnsDims' /\ HandsOK'
    BY <1>0, <1>2, <1>a DEF writeDashboardTableCache, MemDims, SnapDims, WriteDims, OfDims
  <2>q. QED  BY <1>b, <2>2, <2>3
<1>3. ASSUME NEW w \in snapWrites, writeDashboardSnapshotCache(w) PROVE HandsOK' /\ DimsAreKept'
  <2>1. w.key \in Keys /\ OfDims(w.key, w.val)
    BY <1>0 DEF DimInv, TypeOK, WriteDims
  <2>2. SnapDims'
    BY <1>0, <1>3, <2>1
    DEF DimInv, TypeOK, SnapDims, OfDims, writeDashboardSnapshotCache
  <2>3. MemDims' /\ TableDims' /\ WriteDims' /\ GotDims' /\ AnsDims' /\ HandsOK'
    BY <1>0, <1>3, <1>a DEF writeDashboardSnapshotCache, MemDims, TableDims, WriteDims, OfDims
  <2>q. QED  BY <1>b, <2>2, <2>3
<1>4. ASSUME Tick PROVE HandsOK' /\ DimsAreKept'
  BY <1>0, <1>4, <1>a, <1>b, StoreDims DEF Tick, MemDims, WriteDims, OfDims
<1>5. ASSUME NEW p \in Procs, Restart(p) PROVE HandsOK' /\ DimsAreKept'
  <2>1. TableDims' /\ SnapDims'
    BY <1>0, <1>5, StoreDims DEF Restart
  <2>2. MemDims'
    BY <1>0, <1>5 DEF DimInv, TypeOK, MemDims, OfDims, Restart
  <2>3. WriteDims'
    BY <1>0, <1>5 DEF WriteDims, OfDims, Restart
  <2>4. GotDims' /\ AnsDims' /\ HandsOK'
    BY <1>0, <1>5
    DEF DimInv, TypeOK, HandsOK, GotDims, AnsDims, OfDims, Restart, Layers, TableLayers
  <2>q. QED  BY <1>b, <2>1, <2>2, <2>3, <2>4
<1>q. QED  BY <1>1, <1>2, <1>3, <1>4, <1>5 DEF WriteStep

\* withDashboardCache and its layers: whatever is copied up, warmed or borrowed,
\* no layer holds and no request gets a value computed for another tenant,
\* endpoint, shop, market, filter or named range than that of its key. (A custom
\* range borrows from every other custom range: its dates are no dimension.)
THEOREM DimensionsAreKept == Spec => []DimsAreKept
<1>1. Init => HandsOK /\ DimsAreKept
  BY DEF Init, HandsOK, DimsAreKept
<1>2. DimInv /\ [Next]_vars => HandsOK' /\ DimsAreKept'
  <2> SUFFICES ASSUME DimInv, [Next]_vars PROVE HandsOK' /\ DimsAreKept'
    OBVIOUS
  <2>1. CASE UNCHANGED vars
    BY <2>1 DEF DimInv, HandsOK, DimsAreKept, OfDims, vars
  <2>2. CASE Next
    BY <2>2, AskDims, RequestDims, BackgroundDims DEF Next
  <2>q. QED  BY <2>1, <2>2
<1>q. QED  BY <1>1, <1>2, TypeCorrect, PTL DEF Spec, DimInv

------------------------------------------------------------------------------
(* Borrowed rows                                                            *)

\* Without the snapshot layer there is no file and none under way.
NoFiles == snapWrites = {} /\ \A k \in Keys : snap[k] = None

\* Only a read by dimensions brings a value of another key.
GotOwn ==
  \A r \in Requests :
    got[r] \notin {None, Waiting} /\ pc[r] # "dimStale" => got[r].val.for = key[r]

BorrowInv == /\ TypeOK /\ HandsOK /\ DimsAreKept /\ WritesOK /\ RowsOK
             /\ NoFiles /\ GotOwn /\ BorrowedIsReplaced

BorrowStep == NoFiles' /\ GotOwn' /\ BorrowedIsReplaced'

\* The layers a request can be reading without the snapshot layer, by what a hit
\* in them is: the key's own value, or a stale answer.
LEMMA ServedIsOwnOrStale ==
  ASSUME BorrowInv, NEW r \in Requests, pc[r] \in Layers, Hit(r)
  PROVE  got[r].val.for = key[r] \/ ServedStale(r)
BY DEF BorrowInv, GotOwn, Hit, ServedStale

LEMMA WarmNothing ==
  ASSUME SnapshotOn = FALSE, BorrowInv, NEW k \in Keys, NEW v, UNCHANGED snap,
         warmDashboardSnapshot(k, v) \/ UNCHANGED snapWrites
  PROVE  NoFiles'
BY DEF BorrowInv, NoFiles, warmDashboardSnapshot, shouldPersistSnapshot

\* A schedule never takes a marker away.
LEMMA ScheduleKeeps ==
  ASSUME BorrowInv, NEW p \in Procs, NEW k \in Keys, UNCHANGED mem,
         scheduleDashboardBackgroundRefresh(p, k) \/ UNCHANGED refreshVars
  PROVE  BorrowedIsReplaced'
BY DEF BorrowInv, TypeOK, BorrowedIsReplaced, scheduleDashboardBackgroundRefresh

\* Persisting the key's own aggregation.
LEMMA PersistOwn ==
  ASSUME BorrowInv, NEW p \in Procs, NEW k \in Keys, NEW v \in Loaded(k),
         persistDashboardCaches(p, k, v), UNCHANGED refreshVars \/ ClearInflight(p, k)
  PROVE  BorrowedIsReplaced'
<1>1. v.for = k
  BY LoadedFields
<1>2. mem' = [mem EXCEPT ![p] = [mem[p] EXCEPT ![k] = MemEntry(v, MemTtl)]]
  BY DEF persistDashboardCaches, cacheSet
<1>3. /\ mem'[p][k] = MemEntry(v, MemTtl)
      /\ \A q \in Procs, i \in Keys : q # p \/ i # k => mem'[q][i] = mem[q][i]
  BY <1>2 DEF BorrowInv, TypeOK
<1>4. mem'[p][k].val.for = k
  BY <1>1, <1>3 DEF MemEntry
<1>5. \A q \in Procs, i \in Keys : (q # p \/ i # k) /\ i \in inflight[q] => i \in inflight'[q]
  BY DEF BorrowInv, TypeOK, ClearInflight
<1>q. QED  BY <1>3, <1>4, <1>5 DEF BorrowInv, BorrowedIsReplaced

LEMMA ServeBorrow ==
  ASSUME SnapshotOn = FALSE, BorrowInv, NEW r \in Requests, Serve(r)
  PROVE  BorrowedIsReplaced'
<1> DEFINE p == Host[r]
           k == key[r]
           e == MemEntry(got[r].val, Lease(r))
<1>0. p \in Procs /\ k \in Keys
  BY DEF BorrowInv, TypeOK
<1>1. mem' = [mem EXCEPT ![p] = [mem[p] EXCEPT ![k] = e]]
  BY DEF Serve, cacheSet
<1>2. /\ mem'[p][k] = e
      /\ \A q \in Procs, i \in Keys : q # p \/ i # k => mem'[q][i] = mem[q][i]
  BY <1>0, <1>1 DEF BorrowInv, TypeOK
<1>3. ScheduleIf(ServedStale(r), p, k)
  BY DEF Serve
<1>4. \A q \in Procs : inflight[q] \subseteq inflight'[q]
  <2>1. \/ UNCHANGED inflight
        \/ inflight' = [inflight EXCEPT ![p] = @ \cup {k}]
    BY <1>3 DEF ScheduleIf, scheduleDashboardBackgroundRefresh
  <2>2. inflight \in [Procs -> SUBSET Keys]
    BY DEF BorrowInv, TypeOK
  <2> HIDE DEF p, k
  <2>q. QED  BY <1>0, <2>1, <2>2
<1>5. ServedStale(r) => k \in inflight'[p]
  BY <1>0, <1>3 DEF BorrowInv, TypeOK, ScheduleIf, scheduleDashboardBackgroundRefresh
<1>6. e.val.for = k \/ ServedStale(r)
  BY ServedIsOwnOrStale DEF Serve, MemEntry
<1> HIDE DEF p, k, e
<1>q. QED  BY <1>2, <1>4, <1>5, <1>6 DEF BorrowInv, BorrowedIsReplaced

\* What a read that is not by dimensions returns is the key's own.
LEMMA FetchOwn ==
  ASSUME BorrowInv, NEW r \in Requests, Fetch(r)
  PROVE  GotOwn'
<1>1. pc[r] \in Layers /\ key[r] \in Keys
  BY DEF BorrowInv, TypeOK, Fetch
<1>2. ASSUME NEW g \in Results(pc[r], key[r]), pc[r] # "dimStale"
      PROVE  g.val.for = key[r]
  <2>1. CASE pc[r] \in {"table", "tableStale"}
    <3>1. table[key[r]] # None /\ g = RowResult(key[r])
      BY <2>1, <1>1, <1>2 DEF Results, FreshRow, UsableRow
    <3>q. QED  BY <1>1, <3>1 DEF BorrowInv, RowsOK, RowResult
  <2>2. CASE pc[r] \in {"snapFresh", "snapStale"}
    BY <2>2, <1>1, <1>2 DEF Results, BorrowInv, NoFiles
  <2>q. QED  BY <1>1, <1>2, <2>1, <2>2 DEF Layers, TableLayers
<1>3. /\ \A q \in Requests \ {r} : got'[q] = got[q]
      /\ UNCHANGED <<pc, key>>
      /\ got'[r] = None \/ got'[r] \in Results(pc[r], key[r])
  BY DEF BorrowInv, TypeOK, Fetch
<1>q. QED  BY <1>2, <1>3 DEF BorrowInv, GotOwn

LEMMA AskBorrow ==
  ASSUME SnapshotOn = FALSE, BorrowInv, NEW r \in Requests, NEW k \in Keys,
         Ask(r, k) \/ AskBypass(r, k)
  PROVE  BorrowStep
<1>0. Host[r] \in Procs /\ got[r] = None
  BY DEF BorrowInv, HandsOK, Ask, AskBypass, Layers, TableLayers
<1>1. BorrowedIsReplaced'
  <2>1. scheduleDashboardBackgroundRefresh(Host[r], k) \/ UNCHANGED refreshVars
    BY DEF Ask, AskBypass, AnswerFromMemory, ScheduleIf
  <2>2. UNCHANGED mem
    BY DEF Ask, AskBypass, AnswerFromMemory
  <2>q. QED  BY <1>0, <2>1, <2>2, ScheduleKeeps
<1>2. NoFiles'
  <2>1. UNCHANGED snap
    BY DEF Ask, AskBypass, storeVars
  <2>2. UNCHANGED snapWrites \/ \E v : warmDashboardSnapshot(k, v)
    BY DEF Ask, AskBypass, AnswerFromMemory
  <2>q. QED  BY <2>1, <2>2, WarmNothing
<1>3. GotOwn'
  <2>1. \A q \in Requests \ {r} : got'[q] = got[q] /\ pc'[q] = pc[q] /\ key'[q] = key[q]
    BY DEF BorrowInv, TypeOK, Ask, AskBypass, AnswerFromMemory, Answer, Await
  <2>2. got'[r] \in {None, Waiting}
    BY <1>0 DEF BorrowInv, TypeOK, Ask, AskBypass, AnswerFromMemory, Answer, Await
  <2>q. QED  BY <2>1, <2>2 DEF BorrowInv, GotOwn
<1>q. QED  BY <1>1, <1>2, <1>3 DEF BorrowStep

LEMMA RequestBorrow ==
  ASSUME SnapshotOn = FALSE, MaxFaults = 0, BorrowInv, NEW r \in Requests, RequestStep(r)
  PROVE  BorrowStep
<1>0. Host[r] \in Procs /\ key[r] \in Keys
  BY DEF BorrowInv, TypeOK
<1>1. NoFiles'
  <2>1. UNCHANGED snap
    BY DEF RequestStep, Fetch, Serve, GoOn, EmitPending, Load, LoadFails, Done, storeVars
  <2>2. UNCHANGED snapWrites \/ \E v : warmDashboardSnapshot(key[r], v)
    BY DEF RequestStep, Fetch, Serve, GoOn, EmitPending, Load, LoadFails, Done,
           persistDashboardCaches
  <2>q. QED  BY <1>0, <2>1, <2>2, WarmNothing
<1>2. BorrowedIsReplaced'
  <2>1. CASE Serve(r)
    BY <2>1, ServeBorrow
  <2>2. CASE Load(r)
    <3>1. PICK v \in Loaded(key[r]) : persistDashboardCaches(Host[r], key[r], v)
      BY <2>2 DEF Load
    <3>2. UNCHANGED refreshVars
      BY <2>2 DEF Load
    <3>q. QED  BY <1>0, <3>1, <3>2, PersistOwn
  <2>3. CASE Fetch(r) \/ GoOn(r) \/ EmitPending(r) \/ LoadFails(r) \/ Done(r)
    <3>1. UNCHANGED mem
      BY <2>3 DEF Fetch, GoOn, EmitPending, LoadFails, Done
    <3>2. scheduleDashboardBackgroundRefresh(Host[r], key[r]) \/ UNCHANGED refreshVars
      BY <2>3 DEF Fetch, GoOn, EmitPending, LoadFails, Done
    <3>q. QED  BY <1>0, <3>1, <3>2, ScheduleKeeps
  <2>q. QED  BY <2>1, <2>2, <2>3 DEF RequestStep
<1>3. GotOwn'
  <2>1. CASE Fetch(r)
    BY <2>1, FetchOwn
  <2>2. CASE LoadFails(r)
    BY <2>2 DEF LoadFails, Fault, BorrowInv, TypeOK
  <2>3. CASE Done(r)
    <3>1. got[r] = None
      BY <2>3 DEF BorrowInv, HandsOK, Done, Layers, TableLayers
    <3>2. \A q \in Requests \ {r} : got'[q] = got[q] /\ pc'[q] = pc[q] /\ key'[q] = key[q]
      BY <2>3 DEF BorrowInv, TypeOK, Done
    <3>q. QED  BY <2>3, <3>1, <3>2 DEF BorrowInv, GotOwn, Done
  <2>4. CASE Serve(r) \/ GoOn(r) \/ EmitPending(r) \/ Load(r)
    <3>1. got'[r] \in {None, Waiting}
      BY <2>4 DEF BorrowInv, TypeOK, Serve, GoOn, EmitPending, Load, Answer, Await
    <3>2. \A q \in Requests \ {r} : got'[q] = got[q] /\ pc'[q] = pc[q] /\ key'[q] = key[q]
      BY <2>4 DEF BorrowInv, TypeOK, Serve, GoOn, EmitPending, Load, Answer, Await
    <3>q. QED  BY <3>1, <3>2 DEF BorrowInv, GotOwn
  <2>q. QED  BY <2>1, <2>2, <2>3, <2>4 DEF RequestStep
<1>q. QED  BY <1>1, <1>2, <1>3 DEF BorrowStep

LEMMA BackgroundBorrow ==
  ASSUME SnapshotOn = FALSE, MaxFaults = 0, BorrowInv,
         \/ \E p \in Procs, k \in Keys : RefreshStep(p, k)
         \/ WriteStep \/ Tick
         \/ \E p \in Procs : Restart(p)
  PROVE  BorrowStep
<1>0. ~Fault
  BY DEF BorrowInv, TypeOK, Fault
<1>1. ASSUME NEW p \in Procs, NEW k \in Keys, RefreshStep(p, k) PROVE BorrowStep
  <2>1. RefreshDone(p, k)
    BY <1>0, <1>1 DEF RefreshStep, RefreshFails
  <2>2. PICK v \in Loaded(k) : persistDashboardCaches(p, k, v)
    BY <2>1 DEF RefreshDone
  <2>3. BorrowedIsReplaced'
    BY <2>1, <2>2, PersistOwn DEF RefreshDone
  <2>4. NoFiles'
    BY <2>1, <2>2, WarmNothing DEF RefreshDone, persistDashboardCaches
  <2>5. GotOwn'
    BY <2>1 DEF RefreshDone, BorrowInv, GotOwn
  <2>q. QED  BY <2>3, <2>4, <2>5 DEF BorrowStep
<1>2. ASSUME WriteStep PROVE BorrowStep
  <2>1. UNCHANGED <<mem, refreshVars, requestVars, snapWrites, snap>>
    BY <1>2 DEF WriteStep, writeDashboardTableCache, writeDashboardSnapshotCache,
                BorrowInv, NoFiles
  <2>q. QED  BY <2>1 DEF BorrowStep, BorrowInv, NoFiles, GotOwn, BorrowedIsReplaced
<1>3. ASSUME Tick PROVE BorrowStep
  BY <1>3 DEF Tick, BorrowStep, BorrowInv, NoFiles, GotOwn, BorrowedIsReplaced
<1>4. ASSUME NEW p \in Procs, Restart(p) PROVE BorrowStep
  <2>1. NoFiles'
    BY <1>4 DEF Restart, BorrowInv, NoFiles
  <2>2. GotOwn'
    BY <1>4 DEF Restart, BorrowInv, TypeOK, GotOwn
  <2>3. BorrowedIsReplaced'
    BY <1>4 DEF Restart, BorrowInv, TypeOK, BorrowedIsReplaced
  <2>q. QED  BY <2>1, <2>2, <2>3 DEF BorrowStep
<1>q. QED  BY <1>1, <1>2, <1>3, <1>4

\* readTrendTableStaleByDimensions and scheduleDashboardBackgroundRefresh: where
\* no loader fails and the snapshot layer is off, a row borrowed from another
\* key stays under the borrower's key only while the key's own aggregation is
\* under way, whatever reads, refreshes, bypasses and restarts come between.
THEOREM BorrowedRowsGo ==
  ASSUME SnapshotOn = FALSE, MaxFaults = 0
  PROVE  Spec => []BorrowedIsReplaced
<1>1. Init => HandsOK /\ DimsAreKept /\ WritesOK /\ RowsOK /\ NoFiles /\ GotOwn /\ BorrowedIsReplaced
  BY DEF Init, HandsOK, DimsAreKept, WritesOK, RowsOK, NoFiles, GotOwn, BorrowedIsReplaced
<1>2. BorrowInv /\ TypeOK' /\ [Next]_vars => BorrowInv'
  <2> SUFFICES ASSUME BorrowInv, TypeOK', [Next]_vars PROVE BorrowInv'
    OBVIOUS
  <2>0. WritesOK' /\ RowsOK'
    BY RowStep DEF BorrowInv, RowInv
  <2>1. HandsOK' /\ DimsAreKept'
    <3>1. CASE UNCHANGED vars
      BY <3>1 DEF BorrowInv, HandsOK, DimsAreKept, OfDims, vars
    <3>2. CASE Next
      BY <3>2, AskDims, RequestDims, BackgroundDims DEF Next, BorrowInv, DimInv
    <3>q. QED  BY <3>1, <3>2
  <2>2. BorrowStep
    <3>1. CASE UNCHANGED vars
      BY <3>1 DEF BorrowStep, BorrowInv, NoFiles, GotOwn, BorrowedIsReplaced, vars
    <3>2. CASE Next
      BY <3>2, AskBorrow, RequestBorrow, BackgroundBorrow DEF Next
    <3>q. QED  BY <3>1, <3>2
  <2>q. QED  BY <2>0, <2>1, <2>2 DEF BorrowInv, BorrowStep
<1>3. BorrowInv => BorrowedIsReplaced
  BY DEF BorrowInv
<1>q. QED  BY <1>1, <1>2, <1>3, TypeCorrect, PTL DEF Spec, BorrowInv

==============================================================================
