--------------------------- MODULE DashboardQueries ---------------------------
(***************************************************************************)
(* The MySQL aggregations behind the dashboard: the filter contract        *)
(* (backend/modules/dashboard/filterContract.js, backend/lib/orderFilter.js*)
(* and dashboardTimeRange.js) and the loaders that use it for summary,     *)
(* ranking, trend and gmv-compare, on the dashboard and in analytics.      *)
(*                                                                         *)
(*   - a request is parsed into a contract whose window is that of the     *)
(*     moment; the loader builds its WHERE later, at another moment;       *)
(*   - some answers are put together from two statements that run at the   *)
(*     same time, while syncs write the orders table in between.           *)
(*                                                                         *)
(* Time is counted in hours. An order has one currency and whole amounts,  *)
(* so conversion and rounding are left out; so is analytics_status NULL.   *)
(***************************************************************************)
EXTENDS Integers, FiniteSets, FiniteSetsExt

CONSTANTS
  Ids,        \* orders
  Shops,
  Rows,       \* what a sync may write for an order
  Queries,    \* what clients ask: endpoint, range, dates, filter, shop
  Requests,
  None,       \* no time, no row, no result, no request
  DayLen,     \* hours of a day
  WeekDays,   \* days of last7
  MonthDays,  \* days of last30
  Start,      \* the hour the behaviours begin
  MaxNow,     \* bound: the last hour
  MaxWrites   \* bound: orders written

Statuses  == {"valid", "unpaid", "sample", "cancelled", "other"}
Filters   == {"all", "valid", "unpaid", "sample", "cancelled", "paid"}
Ranges    == {"today", "yesterday", "last7", "last30", "custom"}
Dashboard == {"summary", "ranking", "trend", "compareHour", "compareDay"}
Analytics == {"topShops", "shopTrend", "analyticsCompare"}
Endpoints == Dashboard \cup Analytics
AllShops  == "all"
Times     == 0..MaxNow

ASSUME TimeAssumption ==
  /\ {DayLen, WeekDays, MonthDays} \subseteq Nat \ {0}
  /\ {Start, MaxNow, MaxWrites} \subseteq Nat
  /\ Start <= MaxNow

Row   == [shop : Shops, paid : Times \cup {None}, placed : Times \cup {None},
          kept : Times, status : Statuses, amount : Nat]
Query == [endpoint : Endpoints, range : Ranges, from : Nat, to : Nat,
          filter : Filters, shop : Shops \cup {AllShops}]

ASSUME InputAssumption ==
  /\ Rows \subseteq Row
  /\ Queries \subseteq Query
  /\ None \notin Times \cup Row
  /\ IsFiniteSet(Ids) /\ IsFiniteSet(Shops)

VARIABLES
  orders,   \* the orders table, by platform order id
  now,
  writes,   \* how many rows were written
  asks      \* the requests

vars == <<orders, now, writes, asks>>

-----------------------------------------------------------------------------
(* Time windows                                                              *)

Day(t)      == t \div DayLen
DayStart(d) == d * DayLen
DayEnd(d)   == DayStart(d) + DayLen - 1
Least(a, b) == IF a <= b THEN a ELSE b

\* Bounds of a range at hour n; dates are day numbers.
getTimeRangeBounds(range, from, to, n) ==
  LET since(days) == [range |-> range, start |-> DayStart(Day(n) - days), end |-> n]
      today    == [range |-> "today", start |-> DayStart(Day(n)), end |-> n]
      low      == Least(DayStart(from), DayEnd(to))
      high     == DayStart(from) + DayEnd(to) - low
      custom   == [range |-> "custom", start |-> low, end |-> Least(high, n)]
  IN CASE range = "today"     -> today
       [] range = "yesterday" -> [range |-> range, start |-> DayStart(Day(n) - 1),
                                  end |-> DayEnd(Day(n) - 1)]
       [] range = "last7"     -> since(WeekDays - 1)
       [] range = "last30"    -> since(MonthDays - 1)
       [] range = "custom"    -> IF custom.start > custom.end THEN today ELSE custom

\* The contract of a query: its window is that of hour n.
parseDashboardFilterQuery(q, n) ==
  LET w == getTimeRangeBounds(q.range, q.from, q.to, n)
  IN [range |-> w.range, from |-> q.from, to |-> q.to, filter |-> q.filter,
      shop |-> q.shop, start |-> w.start, end |-> w.end]

\* (mutant) a WHERE of today is always that of the moment
rangeOfTheMoment(c, n) ==
  LET w == getTimeRangeBounds(c.range, c.from, c.to, n) IN [start |-> w.start, end |-> w.end]

\* The window of the WHERE built at hour n: only one that lies before today is
\* taken from the contract.
buildDateRangeWhere(c, n) ==
  LET w == getTimeRangeBounds(c.range, c.from, c.to, n) IN
  IF c.range = "today" /\ c.end < w.start
  THEN [start |-> c.start, end |-> c.end]
  ELSE [start |-> w.start, end |-> w.end]

\* (mutant) the half before ends where today starts
closedWindows(c, hourly, n) ==
  LET start == IF hourly THEN DayStart(Day(n)) ELSE c.start
      end   == IF hourly THEN n ELSE c.end
  IN [today  |-> [start |-> start, end |-> end],
      before |-> [start |-> start - DayLen, end |-> start]]

\* The windows of a comparison made at hour n.
computeCompareWindows(c, hourly, n) ==
  LET intraday == hourly /\ c.range = "today"
      start    == IF intraday THEN DayStart(Day(n)) ELSE c.start
      end      == IF intraday THEN n ELSE c.end
      elapsed  == IF end > start \/ intraday THEN end - start ELSE 1
  IN [today  |-> [start |-> start, end |-> end],
      before |-> IF intraday
                 THEN [start |-> start - DayLen, end |-> start - DayLen + elapsed]
                 ELSE [start |-> start - elapsed, end |-> start - 1]]

Slice(c, w) == [c EXCEPT !.start = w.start, !.end = w.end]

-----------------------------------------------------------------------------
(* Which orders count, and for how much                                      *)

\* The time an order belongs to: COALESCE(paid_at, created_at_platform, created_at).
orderAnalyticsEventTime(o) ==
  IF o.paid # None THEN o.paid ELSE IF o.placed # None THEN o.placed ELSE o.kept

\* (mutant) the branch of unpaid orders forgets when they were placed
withoutPlaced(o, w) ==
  \/ o.paid # None /\ o.paid \in w.start..w.end
  \/ o.paid = None /\ o.kept \in w.start..w.end

\* The same as three indexable branches.
buildIndexFriendlyEventTimeWhere(o, w) ==
  \/ o.paid # None /\ o.paid \in w.start..w.end
  \/ o.paid = None /\ o.placed # None /\ o.placed \in w.start..w.end
  \/ o.paid = None /\ o.placed = None /\ o.kept \in w.start..w.end

mysqlDashboardOrdersFilterClause(o, f) ==
  \/ f = "all"
  \/ f = "paid" /\ \/ o.paid # None /\ o.status \notin {"sample", "unpaid"}
                   \/ o.status = "valid"
                   \/ o.status = "cancelled" /\ o.amount > 0
  \/ f = o.status

\* What a statement with window w reads now.
buildDashboardWhere(c, w) ==
  LET hit(i) == /\ orders[i] # None
                /\ buildIndexFriendlyEventTimeWhere(orders[i], w)
                /\ c.shop \in {AllShops, orders[i].shop}
                /\ mysqlDashboardOrdersFilterClause(orders[i], c.filter)
  IN [i \in {j \in Ids : hit(j)} |-> orders[i]]

dashboardGmvNative(o, f) ==
  IF f \in {"sample", "cancelled"} \/ (f = "all" /\ o.status # "valid") THEN 0 ELSE o.amount

dashboardOrderCount(rows) == Cardinality(DOMAIN rows)
dashboardGmvSum(rows, f)  == MapThenSumSet(LAMBDA i : dashboardGmvNative(rows[i], f), DOMAIN rows)
OfShop(rows, s) == [i \in {j \in DOMAIN rows : rows[j].shop = s} |-> rows[i]]

enforceTodayMetricsInvariant(pack) ==
  IF pack.orders = 0 THEN [pack EXCEPT !.gmv = 0] ELSE pack

-----------------------------------------------------------------------------
(* The loaders: which statements they run, and with which windows            *)

\* queryDashboardSummaryAggregates: today's count and money are two statements.
Totals(c, n) ==
  [s \in IF c.range = "today" THEN {"count", "money"} ELSE {"both"} |-> buildDateRangeWhere(c, n)]

queryDashboardRanking(c, n) == [s \in {"count", "money"} |-> buildDateRangeWhere(c, n)]
queryDashboardTrend(c, n)   == [s \in {"both"} |-> buildDateRangeWhere(c, n)]

queryDashboardGmvCompare(c, hourly, n) ==
  LET w == computeCompareWindows(c, hourly, n)
      half(s) == buildDateRangeWhere(Slice(c, IF s = "rows" THEN w.today ELSE w.before), n)
      totals  == Totals(c, n)
  IN IF hourly THEN [s \in {"rows", "before"} |-> half(s)]
     ELSE [s \in DOMAIN totals \cup {"before"} |->
             IF s = "before" THEN half(s) ELSE totals[s]]

\* buildAnalyticsFilter: the query is parsed again, and of its dates only the
\* range and its days are read.
buildAnalyticsFilter(q, n) == buildDateRangeWhere(parseDashboardFilterQuery(q, n), n)

getTopShops(c, n)   == [s \in {"both"} |-> buildAnalyticsFilter(c, n)]
getShopTrend(c)     == [s \in {"both"} |-> [start |-> c.start, end |-> c.end]]

\* getGmvCompareInner passes the bounds of each half, and no range.
getGmvCompare(c, n) ==
  [s \in {"rows", "before"} |-> buildAnalyticsFilter([c EXCEPT !.range = "today"], n)]

Plan(e, c, n) ==
  CASE e = "summary"     -> Totals(c, n)
    [] e = "ranking"     -> queryDashboardRanking(c, n)
    [] e = "trend"       -> queryDashboardTrend(c, n)
    [] e = "compareHour" -> queryDashboardGmvCompare(c, TRUE, n)
    [] e = "compareDay"  -> queryDashboardGmvCompare(c, FALSE, n)
    [] e = "topShops"    -> getTopShops(c, n)
    [] e = "shopTrend"   -> getShopTrend(c)
    [] e = "analyticsCompare" -> getGmvCompare(c, n)

\* sameEpochWindow: the total may be taken from the rows of the curve.
Derived(c, n) ==
  computeCompareWindows(c, TRUE, n).today = [start |-> c.start, end |-> c.end]

-----------------------------------------------------------------------------
(* What the answers say; got holds the rows of each statement                *)

BothOf(rows, f) == [orders |-> dashboardOrderCount(rows), gmv |-> dashboardGmvSum(rows, f)]

TotalsAnswer(a) ==
  IF "both" \in DOMAIN a.got THEN BothOf(a.got["both"], a.c.filter)
  ELSE enforceTodayMetricsInvariant(
         [orders |-> dashboardOrderCount(a.got["count"]),
          gmv    |-> dashboardGmvSum(a.got["money"], a.c.filter)])

\* One line per shop, with or without orders; only today's lines are enforced.
RankingAnswer(a) ==
  [s \in Shops |->
     LET pack == [orders |-> dashboardOrderCount(OfShop(a.got["count"], s)),
                  gmv    |-> dashboardGmvSum(OfShop(a.got["money"], s), a.c.filter)]
     IN IF a.c.range = "today" THEN enforceTodayMetricsInvariant(pack) ELSE pack]

\* aggregateGmvUsdFromOrderRows: the filter is not asked.
aggregateGmvUsdFromOrderRows(rows) ==
  [orders |-> Cardinality(DOMAIN rows),
   gmv    |-> MapThenSumSet(LAMBDA i : rows[i].amount, DOMAIN rows)]

CompareToday(a) ==
  IF a.e = "compareHour" /\ a.derived THEN aggregateGmvUsdFromOrderRows(a.got["rows"])
  ELSE TotalsAnswer(a)

\* The analytics comparison drops the rows outside its own hours.
aggregateMysqlHourWindow(rows, w) ==
  aggregateGmvUsdFromOrderRows(
    [i \in {j \in DOMAIN rows : orderAnalyticsEventTime(rows[j]) \in w.start..w.end} |-> rows[i]])

AnalyticsHalf(a, half) ==
  aggregateMysqlHourWindow(a.got[IF half = "today" THEN "rows" ELSE "before"],
                           computeCompareWindows([a.c EXCEPT !.range = "today"], TRUE, a.at)[half])

-----------------------------------------------------------------------------
Init ==
  /\ orders = [i \in Ids |-> None]
  /\ now = Start
  /\ writes = 0
  /\ asks = [r \in Requests |-> None]

Disturbed(as) == [r \in Requests |-> IF as[r] = None THEN None ELSE [as[r] EXCEPT !.quiet = FALSE]]

\* (mutant) an upsert takes the time of creation as it comes
keptAsSent(old, o) == [o EXCEPT !.kept = None]

\* UPSERT_SQL: what an upsert leaves of a row that is there.
Updated(old, o) == [o EXCEPT !.placed = old.placed, !.kept = old.kept]

\* persistOrdersFromCache
Persist(i) ==
  \E o \in Rows :
    /\ writes < MaxWrites
    /\ {o.paid, o.placed} \subseteq 0..now \cup {None}
    /\ orders' = [orders EXCEPT ![i] =
                    IF @ = None THEN [o EXCEPT !.kept = now] ELSE Updated(@, o)]
    /\ writes' = writes + 1
    /\ asks' = Disturbed(asks)
    /\ UNCHANGED now

Tick ==
  /\ now < MaxNow
  /\ now' = now + 1
  /\ asks' = Disturbed(asks)
  /\ UNCHANGED <<orders, writes>>

\* parseDashboardFilterQuery of a request that the caches do not answer.
Ask(r) ==
  \E q \in Queries :
    /\ asks[r] = None
    /\ LET c == parseDashboardFilterQuery(q, now) IN
       asks' = [asks EXCEPT ![r] =
         [e |-> q.endpoint, c |-> c, at |-> now, step |-> "parsed", plan |-> <<>>, got |-> <<>>,
          derived |-> FALSE, quiet |-> TRUE]]
    /\ UNCHANGED <<orders, now, writes>>

\* The loader builds its WHERE and sends its statements.
Load(r) ==
  LET a == asks[r] IN
  /\ a # None /\ a.step = "parsed"
  /\ LET plan == Plan(a.e, a.c, now) IN
     asks' = [asks EXCEPT ![r].step = "run", ![r].plan = plan,
                          ![r].got = [s \in DOMAIN plan |-> None],
                          ![r].derived = a.e = "compareHour" /\ Derived(a.c, now)]
  /\ UNCHANGED <<orders, now, writes>>

\* MySQL answers one of them.
Run(r, s) ==
  LET a == asks[r] IN
  /\ a # None /\ a.step = "run"
  /\ s \in DOMAIN a.got /\ a.got[s] = None
  /\ LET c == IF s = "before" THEN Slice(a.c, a.plan[s]) ELSE a.c IN
     asks' = [asks EXCEPT ![r].got[s] = buildDashboardWhere(c, a.plan[s])]
  /\ UNCHANGED <<orders, now, writes>>

\* gmv-compare: the window moved since the contract, so the total is asked anew.
NeedsTotals(a) == a.e = "compareHour" /\ ~a.derived /\ {"count", "both"} \cap DOMAIN a.got = {}

AskTotals(r) ==
  LET a == asks[r] IN
  /\ a # None /\ a.step = "run" /\ NeedsTotals(a)
  /\ \A s \in DOMAIN a.got : a.got[s] # None
  /\ LET t == Totals(a.c, now) IN
     asks' = [asks EXCEPT
       ![r].plan = [s \in DOMAIN t \cup DOMAIN @ |-> IF s \in DOMAIN t THEN t[s] ELSE @[s]],
       ![r].got  = [s \in DOMAIN t \cup DOMAIN @ |-> IF s \in DOMAIN t THEN None ELSE @[s]]]
  /\ UNCHANGED <<orders, now, writes>>

Answer(r) ==
  LET a == asks[r] IN
  /\ a # None /\ a.step = "run" /\ ~NeedsTotals(a)
  /\ \A s \in DOMAIN a.got : a.got[s] # None
  /\ asks' = [asks EXCEPT ![r].step = "done"]
  /\ UNCHANGED <<orders, now, writes>>

Statements == {"count", "money", "both", "rows", "before"}

Next ==
  \/ Tick
  \/ \E i \in Ids : Persist(i)
  \/ \E r \in Requests :
       \/ Ask(r) \/ Load(r) \/ AskTotals(r) \/ Answer(r)
       \/ \E s \in Statements : Run(r, s)

Spec == Init /\ [][Next]_vars

-----------------------------------------------------------------------------
(* Properties                                                                *)

IsAsked(a) ==
  /\ DOMAIN a = {"e", "c", "at", "step", "plan", "got", "derived", "quiet"}
  /\ a.e \in Endpoints /\ a.at \in Times /\ a.step \in {"parsed", "run", "done"}
  /\ a.c.range \in Ranges /\ a.c.filter \in Filters /\ {a.c.start, a.c.end} \subseteq Int
  /\ a.derived \in BOOLEAN /\ a.quiet \in BOOLEAN
  /\ DOMAIN a.plan = DOMAIN a.got /\ DOMAIN a.got \subseteq Statements
  /\ \A s \in DOMAIN a.got :
       a.got[s] # None => DOMAIN a.got[s] \subseteq Ids /\ \A i \in DOMAIN a.got[s] : a.got[s][i] \in Row

\* Rows of the table and of the statements are rows, windows are bounds, and a
\* request has a result exactly for the statements it planned.
TypeOK ==
  /\ orders \in [Ids -> Row \cup {None}]
  /\ now \in Times
  /\ writes \in 0..MaxWrites
  /\ DOMAIN asks = Requests
  /\ \A r \in Requests : asks[r] = None \/ IsAsked(asks[r])

Done(r, E) == asks[r] # None /\ asks[r].step = "done" /\ asks[r].e \in E

\* A request for today that is parsed before midnight and loaded after it counts
\* orders of the day it was asked for only, never a mixture of two days
\* (isYesterdayCompareSlice of buildDateRangeWhere).
StaysInItsDay ==
  \A r \in Requests : LET a == asks[r] IN
    Done(r, {"summary", "ranking", "trend", "shopTrend"}) /\ a.c.range = "today" =>
      \A s \in DOMAIN a.got : \A i \in DOMAIN a.got[s] :
        Day(orderAnalyticsEventTime(a.got[s][i])) = Day(a.at)

\* The half before is not before the contract's day: midnight came between the
\* contract and the loader of an hourly comparison, whose windows moved on.
MovedOn(a) == a.plan["before"].start >= a.c.start

\* The halves of a comparison of today are read by concurrent statements. An
\* order found in both was written in between (a payment moves it from
\* yesterday into today): one and the same row is never counted twice. The two
\* curves keep to this also when midnight passes between the contract and the
\* statements, and so do the totals that are asked anew when only hours passed.
\* Not so the totals asked anew after the windows moved on to another day: they
\* count the contract's day, which is then the half before (see the README).
HalvesApart ==
  \A r \in Requests : LET a == asks[r] IN
    Done(r, {"compareHour", "compareDay"}) /\ a.c.range = "today" =>
      \A s \in DOMAIN a.got \ {"before"} :
        (a.e = "compareHour" /\ MovedOn(a) => s = "rows") =>
          \A i \in DOMAIN a.got[s] \cap DOMAIN a.got["before"] :
            a.got[s][i] # a.got["before"][i]

\* Which days a query asked at hour n covers. That an order is of the day it was
\* paid, or else placed, or else stored is the code's contract and that of
\* docs/metric-definition-map.md:42; other documents want created_at_platform
\* alone (see the README).
PromisedDays(q, n) ==
  CASE q.range = "today"     -> {Day(n)}
    [] q.range = "yesterday" -> {Day(n) - 1}
    [] q.range = "last7"     -> (Day(n) - WeekDays + 1)..Day(n)
    [] q.range = "last30"    -> (Day(n) - MonthDays + 1)..Day(n)
    [] q.range = "custom"    -> q.from..q.to

Promised(a) ==
  [i \in {j \in Ids :
      /\ orders[j] # None
      /\ Day(orderAnalyticsEventTime(orders[j])) \in PromisedDays(a.c, a.at)
      /\ a.c.shop \in {AllShops, orders[j].shop}
      /\ mysqlDashboardOrdersFilterClause(orders[j], a.c.filter)} |-> orders[i]]

\* While nothing was written and the hour stood still, every endpoint gives the
\* orders of the promised days, and the same money: one or two statements,
\* per shop or in total, indexed branches or COALESCE. Analytics and the
\* comparisons give the same money only for filters without cancelled orders.
QuietAnswersAgree ==
  \A r \in Requests : LET a == asks[r]
                           want == BothOf(Promised(a), a.c.filter)
                           plain == a.c.filter \in {"valid", "unpaid", "paid"} IN
    Done(r, Endpoints) /\ a.quiet /\ (a.c.range = "custom" => a.c.from <= a.c.to) =>
      /\ a.e \in {"summary", "trend", "compareDay"} => TotalsAnswer(a) = want
      /\ a.e = "ranking" =>
           /\ MapThenSumSet(LAMBDA s : RankingAnswer(a)[s].orders, Shops) = want.orders
           /\ MapThenSumSet(LAMBDA s : RankingAnswer(a)[s].gmv, Shops) = want.gmv
      /\ a.e \in {"topShops", "shopTrend"} =>
           LET sum == aggregateGmvUsdFromOrderRows(a.got["both"])
           IN sum.orders = want.orders /\ (plain => sum.gmv = want.gmv)
      /\ a.e = "compareHour" =>
           CompareToday(a).orders = want.orders /\ (plain => CompareToday(a) = want)
      /\ a.e = "analyticsCompare" /\ a.c.range = "today" =>
           /\ AnalyticsHalf(a, "today").orders = want.orders
           /\ plain => AnalyticsHalf(a, "today").gmv = want.gmv

=============================================================================
