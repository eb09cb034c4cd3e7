------------------------------ MODULE OrderStore ------------------------------
(***************************************************************************)
(* From the platform's order search to MySQL and the JSON cache:           *)
(*   - a pull pages through the orders created today (tiktok-api/orders.js)*)
(*   - it upserts the order rows one by one, each failure swallowed, then  *)
(*     reads all order ids and upserts the lines, the first failure        *)
(*     ending it (backend/modules/orders/*PersistenceService.js);          *)
(*   - an operator rebuilds orders-cache.json from the rows and reconciles *)
(*     the two (orderCacheRebuildService.js, orderReconcileService.js).    *)
(*                                                                         *)
(* There is one platform shop; Shops are the rows of `shops` that connect  *)
(* it, one per tenant. A version of an order stands for its status, amount *)
(* and lines. A page lists one order. DASHBOARD_MYSQL_ONLY has its default,*)
(* so only a rebuild writes the cache file.                                *)
(***************************************************************************)
EXTENDS Integers, Sequences, FiniteSets, SequencesExt

CONSTANTS
  Orders,
  Shops,      \* shops that connect the platform shop; each its tenant's only one
  Pulls,      \* calls of syncOneShop
  Lines,      \* the lines of each version of an order, in the platform's order
  PaidFrom,   \* the first version that is paid
  Locked,     \* TRUE: pulls of a shop exclude each other (the queue's shop lock)
  None,
  DayLen, Window, \* hours of a day and of the reconcile window
  PageLimit,  \* maxPages
  MaxNow, MaxChanges, MaxFaults \* bounds: hours, platform changes, failures

Versions == DOMAIN Lines
Times    == 0..MaxNow

ASSUME OrderAssumption ==
  /\ Lines \in Seq(Seq(STRING)) /\ Lines # <<>>
  /\ DayLen \in Nat \ {0} /\ Window \in Nat /\ PageLimit \in Nat \ {0}
  /\ {MaxNow, MaxChanges, MaxFaults} \subseteq Nat
  /\ Locked \in BOOLEAN
  /\ None \notin Orders \cup Shops \cup Versions

\* What the platform knows of an order, and what its row says.
Placed == [ver : Versions, born : Times, paid : Times \cup {None}]
Stored == [shop : Shops, ver : Versions, paid : Times \cup {None}, born : Times]

\* What the row of a line says.
Kept == [tenant : Shops, ver : Versions]

ASSUME NoneAssumption == None \notin Placed \cup Stored \cup Kept

VARIABLES
  now, changes, faults,
  sold,    \* the platform: version, creation and payment of each order
  orders,  \* table orders, by platform order id
  items,   \* table order_items, by order and line key
  file,    \* orders-cache.json: the version of each order in it
  pulls,
  ops,     \* an operator's rebuild and reconcile
  torn,    \* orders whose row and lines were not written by one whole pull
  writers  \* the shops whose pulls wrote an order

vars == <<now, changes, faults, sold, orders, items, file, pulls, ops, torn, writers>>

Day(t)  == t \div DayLen
Idle    == [step |-> "idle"]
Over    == [step |-> "over"]
NoOps   == [step |-> "none", quiet |-> FALSE]
Rivals(p) == {q \in Pulls \ {p} : pulls[q] \notin {Idle, Over}}

-----------------------------------------------------------------------------
(* Lines                                                                     *)

\* extractLineItemsForOrder of what normalizeOrder keeps: the lines carry no id
\* of the platform, so a line is known by its position and its SKU; a second
\* line of a SKU is dropped.
extractLineItemsForOrder(v) ==
  LET distinct == FoldLeft(LAMBDA kept, sku : IF Contains(kept, sku) THEN kept ELSE Append(kept, sku),
                           <<>>, Lines[v])
  IN [i \in DOMAIN distinct |-> <<i, distinct[i]>>]

Keys(v)  == ToSet(extractLineItemsForOrder(v))
AllKeys  == UNION {Keys(v) : v \in Versions}

\* The join of productRankingQuery.js and loadMysqlItemsInWindow.
Joined(o) == {k \in AllKeys : /\ orders[o] # None /\ items[o][k] # None
                              /\ items[o][k].tenant = orders[o].shop}

-----------------------------------------------------------------------------
Init ==
  /\ now = 0 /\ changes = 0 /\ faults = 0
  /\ sold = [o \in Orders |-> None]
  /\ orders = [o \in Orders |-> None]
  /\ items = [o \in Orders |-> [k \in AllKeys |-> None]]
  /\ file = [o \in Orders |-> None]
  /\ pulls = [p \in Pulls |-> Idle]
  /\ ops = NoOps
  /\ torn = {}
  /\ writers = [o \in Orders |-> {}]

Noisy == [ops EXCEPT !.quiet = FALSE]

Tick ==
  /\ now < MaxNow
  /\ now' = now + 1
  /\ ops' = Noisy
  /\ UNCHANGED <<changes, faults, sold, orders, items, file, pulls, torn, writers>>

\* The platform: an order is placed, or changes.
Change(o) ==
  /\ changes < MaxChanges
  /\ changes' = changes + 1
  /\ LET v == IF sold[o] = None THEN 1 ELSE sold[o].ver + 1 IN
     /\ v \in Versions
     /\ sold' = [sold EXCEPT ![o] =
          [ver  |-> v, born |-> IF v = 1 THEN now ELSE @.born,
           paid |-> IF v = PaidFrom THEN now ELSE IF v = 1 THEN None ELSE @.paid]]
  /\ UNCHANGED <<now, faults, orders, items, file, pulls, ops, torn, writers>>

-----------------------------------------------------------------------------
(* fetchOrdersInTimeRange                                                    *)

\* getTodayRangeByOffsetHours: created since the market's midnight, before now.
Today == {o \in Orders : sold[o] # None /\ Day(sold[o].born) = Day(now)}

\* since and olds are the versions on the platform when the pull began, and when
\* those began that were under way then.
Started(p, s) ==
  [step |-> "fetch", shop |-> s, range |-> Today, pages |-> 0, batch |-> <<>>,
   failed |-> {}, todo |-> <<>>, known |-> <<>>, alone |-> Rivals(p) = {},
   since |-> [o \in Today |-> sold[o].ver], olds |-> {pulls[q].since : q \in Rivals(p)}]

\* (mutant) the lock is not asked
anyTime(p, s) == TRUE

\* The lock of SyncQueue, where the pull is one of the queue's.
ShopIsFree(p, s) == Locked => \A q \in Rivals(p) : pulls[q].shop # s

FetchStart(p, s) ==
  /\ pulls[p].step = "idle"
  /\ ShopIsFree(p, s)
  /\ pulls' = [q \in Pulls |->
       IF q = p THEN Started(p, s)
       ELSE IF q \in Rivals(p) THEN [pulls[q] EXCEPT !.alone = FALSE] ELSE pulls[q]]
  /\ UNCHANGED <<now, changes, faults, sold, orders, items, file, ops, torn, writers>>

\* (mutant) seenOrderIds is not kept
nothingSeen(f) == {}

Seen(f) == {f.batch[i].order : i \in DOMAIN f.batch}

\* What a page says of an order.
normalizeOrder(o) ==
  [order |-> o, ver |-> sold[o].ver, born |-> sold[o].born, paid |-> sold[o].paid]

\* The loop ends without a next token, on an empty page, at maxPages or at the
\* deadline, which may be over before the first page; whatever was seen counts
\* as the whole: always ok.
Fetched(f, batch) == [f EXCEPT !.step = "orders", !.pages = 0, !.batch = batch, !.todo = batch]

\* A page of the platform's list, which moves while it is read: between two
\* pages an order may slide, to be listed twice or not at all. A page shows one
\* new order or none (orders seen before, an empty page, a refused page size).
FetchPage(p) ==
  LET f == pulls[p] IN
  /\ f.step = "fetch"
  /\ \E new \in {<<>>} \cup {<<normalizeOrder(o)>> : o \in f.range \ Seen(f)} :
       \/ /\ f.pages + 1 < PageLimit
          /\ pulls' = [pulls EXCEPT ![p].pages = @ + 1, ![p].batch = @ \o new]
       \/ pulls' = [pulls EXCEPT ![p] = Fetched(f, f.batch \o new)]
  /\ UNCHANGED <<now, changes, faults, sold, orders, items, file, ops, torn, writers>>

\* A page is refused: nothing was written; or the process dies.
PullStops(p) ==
  /\ pulls[p] \notin {Idle, Over} /\ faults < MaxFaults
  /\ faults' = faults + 1
  /\ pulls' = [pulls EXCEPT ![p] = Over]
  /\ UNCHANGED <<now, changes, sold, orders, items, file, ops, torn, writers>>

-----------------------------------------------------------------------------
(* persistOrdersFromCache                                                    *)

\* (mutant) INSERT IGNORE: a row that is there stays as it is
firstRowStays(row, s, old) ==
  IF old = None THEN [shop |-> s, ver |-> row.ver, paid |-> row.paid, born |-> row.born] ELSE old

\* UPSERT_SQL: the row is taken over, but for what it was created with.
Upserted(row, s, old) ==
  [shop |-> s, ver |-> row.ver, paid |-> row.paid,
   born |-> IF old = None THEN row.born ELSE old.born]

UpsertOrder(p) ==
  LET f == pulls[p]
      row == Head(f.todo)
      old == orders[row.order] IN
  /\ f.step = "orders" /\ f.todo # <<>>
  /\ orders' = [orders EXCEPT ![row.order] = Upserted(row, f.shop, old)]
  /\ pulls' = [pulls EXCEPT ![p].todo = Tail(f.todo)]
  /\ torn' = torn \cup {row.order}
  /\ writers' = [writers EXCEPT ![row.order] = @ \cup {f.shop}]
  /\ ops' = Noisy
  /\ UNCHANGED <<now, changes, faults, sold, items, file>>

\* A row fails; the next one is tried.
UpsertOrderFails(p) ==
  LET f == pulls[p]
      o == Head(f.todo).order IN
  /\ f.step = "orders" /\ f.todo # <<>> /\ faults < MaxFaults
  /\ faults' = faults + 1
  /\ pulls' = [pulls EXCEPT ![p].todo = Tail(f.todo), ![p].failed = @ \cup {o}]
  /\ torn' = torn \cup {o}
  /\ writers' = [writers EXCEPT ![o] = @ \cup {f.shop}]
  /\ UNCHANGED <<now, changes, sold, orders, items, file, ops>>

-----------------------------------------------------------------------------
(* persistOrderItemsFromCache                                                *)

LinesOf(batch) ==
  FlattenSeq([i \in DOMAIN batch |->
    LET ks == extractLineItemsForOrder(batch[i].ver)
    IN [j \in DOMAIN ks |-> [order |-> batch[i].order, ver |-> batch[i].ver, key |-> ks[j],
                             last |-> j = Len(ks)]]])

\* All order rows are read before the first line is written.
ReadOrders(p) ==
  LET f == pulls[p] IN
  /\ f.step = "orders" /\ f.todo = <<>>
  /\ pulls' = [pulls EXCEPT ![p].step = "items", ![p].todo = LinesOf(f.batch),
       ![p].known = [o \in Orders |-> IF orders[o] = None THEN None ELSE orders[o].shop]]
  /\ UNCHANGED <<now, changes, faults, sold, orders, items, file, ops, torn, writers>>

\* (mutant) a line that is there stays as it is
firstLineStays(old, tenant, v) == IF old = None THEN [tenant |-> tenant, ver |-> v] ELSE old

\* UPSERT_SQL of the lines: a line that is there keeps its tenant.
WrittenLine(old, tenant, v) == [tenant |-> IF old = None THEN tenant ELSE old.tenant, ver |-> v]

UpsertLine(p) ==
  LET f == pulls[p]
      line == Head(f.todo)
      o == line.order
      tenant == IF f.known[o] # None THEN f.known[o] ELSE f.shop IN
  /\ f.step = "items" /\ f.todo # <<>>
  /\ items' = [items EXCEPT ![o][line.key] = WrittenLine(@, tenant, line.ver)]
  /\ pulls' = [pulls EXCEPT ![p].todo = Tail(f.todo)]
  /\ torn' = IF line.last /\ f.alone /\ o \notin f.failed THEN torn \ {o} ELSE torn
  /\ ops' = Noisy
  /\ UNCHANGED <<now, changes, faults, sold, orders, file, writers>>

\* syncOneShop returns, also when a line failed: that ended the writing of all.
PullEnds(p) ==
  /\ pulls[p].step = "items"
  /\ \/ pulls[p].todo = <<>> /\ faults' = faults
     \/ pulls[p].todo # <<>> /\ faults < MaxFaults /\ faults' = faults + 1
  /\ pulls' = [pulls EXCEPT ![p] = Over]
  /\ UNCHANGED <<now, changes, sold, orders, items, file, ops, torn, writers>>

-----------------------------------------------------------------------------
(* runOrdersCacheRebuild by the operator of one tenant                       *)

\* orderAnalyticsEventTimeExpr
EventTime(row) == IF row.paid # None THEN row.paid ELSE row.born

\* rebuildOrdersCacheFromMysql reads the rows. Its window is far longer than
\* that of the report.
RebuildRead(s) ==
  /\ ops = NoOps
  /\ ops' = [step |-> "rebuild", tenant |-> s, quiet |-> TRUE,
              got |-> [o \in Orders |-> IF orders[o] = None \/ orders[o].shop # s THEN None
                                        ELSE orders[o]]]
  /\ UNCHANGED <<now, changes, faults, sold, orders, items, file, pulls, torn, writers>>

\* atomicWriteJsonSync of one file for all tenants, which the report then reads.
RebuildWrite ==
  /\ ops.step = "rebuild"
  /\ file' = ops.got
  /\ ops' = [ops EXCEPT !.step = "report"]
  /\ UNCHANGED <<now, changes, faults, sold, orders, items, pulls, torn, writers>>

\* getCreateEpochSec: a cached order counts from when it was created.
CacheWindow == {o \in Orders : file[o] # None /\ file[o].born >= now - Window}

MysqlWindow(s) == {o \in Orders : /\ orders[o] # None /\ orders[o].shop = s
                                  /\ EventTime(orders[o]) >= now - Window}

\* (mutant) the cached order is taken by its payment
reasonByPayment(o) ==
  IF file[o] # None /\ EventTime(file[o]) < now - Window THEN "time_window_mismatch"
  ELSE "cache_not_refreshed"

classifyMysqlOnlyDiff(o) ==
  IF file[o] # None /\ file[o].born < now - Window THEN "time_window_mismatch"
  ELSE "cache_not_refreshed"

\* Lines of cached orders that MySQL does not have.
ItemsMissing(s) ==
  UNION {{<<o, k>> : k \in Keys(file[o].ver) \ (IF o \in MysqlWindow(s) THEN Joined(o) ELSE {})}
         : o \in CacheWindow}

\* buildOrdersReconcileReport
Report(s) ==
  [missingInMysql |-> CacheWindow \ MysqlWindow(s),
   missingInCache |-> {<<o, classifyMysqlOnlyDiff(o)>> : o \in MysqlWindow(s) \ CacheWindow},
   mismatch |-> {o \in CacheWindow \cap MysqlWindow(s) : file[o].ver # orders[o].ver},
   itemMissingInMysql |-> ItemsMissing(s)]

ReportEnds ==
  /\ ops.step = "report"
  /\ ops' = [ops EXCEPT !.step = "done"]
  /\ UNCHANGED <<now, changes, faults, sold, orders, items, file, pulls, torn, writers>>

-----------------------------------------------------------------------------
Next ==
  \/ Tick
  \/ \E o \in Orders : Change(o)
  \/ \E p \in Pulls :
       \/ \E s \in Shops : FetchStart(p, s)
       \/ FetchPage(p) \/ PullStops(p)
       \/ UpsertOrder(p) \/ UpsertOrderFails(p)
       \/ ReadOrders(p) \/ UpsertLine(p) \/ PullEnds(p)
  \/ \E s \in Shops : RebuildRead(s)
  \/ RebuildWrite \/ ReportEnds

Spec == Init /\ [][Next]_vars

-----------------------------------------------------------------------------
(* Properties                                                                *)

Moved == {o \in Orders : Cardinality(writers[o]) > 1}

IsPull(f) ==
  /\ f.step \in {"fetch", "orders", "items"} /\ f.shop \in Shops
  /\ f.range \subseteq Orders /\ f.pages < PageLimit /\ Len(f.batch) <= PageLimit
  /\ \A i, j \in DOMAIN f.batch : f.batch[i].order = f.batch[j].order => i = j

\* Rows and lines are of known shops and versions, and a pull fetches an order
\* at most once, on one of at most PageLimit pages.
TypeOK ==
  /\ now \in Times /\ changes \in 0..MaxChanges /\ faults \in 0..MaxFaults
  /\ sold \in [Orders -> Placed \cup {None}] /\ orders \in [Orders -> Stored \cup {None}]
  /\ items \in [Orders -> [AllKeys -> Kept \cup {None}]]
  /\ \A p \in Pulls : pulls[p] \in {Idle, Over} \/ IsPull(pulls[p])
  /\ torn \subseteq Orders /\ writers \in [Orders -> SUBSET Shops]

\* Once a pull has written an order's row and lines, alone and without a
\* failure, readers who join the two find every line of the stored version, of
\* that version; until the order is taken over by another tenant's shop.
LinesFollowRows ==
  \A o \in Orders \ (torn \cup Moved) :
    orders[o] # None =>
      \A k \in Keys(orders[o].ver) : k \in Joined(o) /\ items[o][k].ver = orders[o].ver

\* Rows carry no version check, so only the shop lock keeps an older page from
\* overwriting a newer row: while one shop pulls an order, it never goes back.
RowsGrow ==
  [][\A o \in Orders :
       orders[o] # None /\ orders'[o].shop = orders[o].shop => orders'[o].ver >= orders[o].ver]_vars

\* Upserts carry no version, pulls of other tenants' shops write the same rows,
\* and of an order listed twice the later sighting is dropped. Still, when a
\* pull comes to the lines, each order its pages listed is in the table, and no
\* older than when the pull, or one under way then, began; unless that row's
\* statement failed. An order its pages missed is not promised.
PullIsStored ==
  \A p \in Pulls : LET f == pulls[p] IN
    f.step = "items" =>
      \A o \in Seen(f) \ f.failed :
        /\ orders[o] # None
        /\ \E old \in {f.since} \cup f.olds : o \in DOMAIN old /\ orders[o].ver >= old[o]

\* A report right after its tenant's rebuild, with nothing written in between,
\* finds no order missing in MySQL and no difference, and an order missing in
\* the cache only for being paid later than created; a line missing in MySQL
\* means an order pulled in part or taken over.
RebuiltAgrees ==
  ops.step = "report" /\ ops.quiet =>
    LET r == Report(ops.tenant) IN
    /\ r.missingInMysql = {} /\ r.mismatch = {}
    /\ \A d \in r.missingInCache : d[2] = "time_window_mismatch"
    /\ \A d \in r.itemMissingInMysql : d[1] \in torn \cup Moved
=============================================================================
