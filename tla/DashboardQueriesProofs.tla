------------------------ MODULE DashboardQueriesProofs ------------------------
(***************************************************************************)
(* Proofs about DashboardQueries, for any orders, queries, lengths of day, *)
(* week and month, and any number of requests.                             *)
(***************************************************************************)
EXTENDS DashboardQueries, FoldLemmas, FiniteSetTheorems, TLAPS

-----------------------------------------------------------------------------
(* The inductive invariant                                                   *)

Fields == {"range", "from", "to", "filter", "shop", "start", "end"}

\* A contract parsed at hour t; one of today ends at that hour.
ContractOK(c, t) ==
  /\ DOMAIN c = Fields /\ c.range \in Ranges /\ c.filter \in Filters
  /\ {c.from, c.to} \subseteq Nat /\ {c.start, c.end} \subseteq Int
  /\ c.range = "today" => c.start = DayStart(Day(t)) /\ c.end = t

InsideDay(w, t) == DayStart(Day(t)) <= w.start /\ w.end < DayStart(Day(t)) + DayLen

\* What the windows of a plan are, for the endpoints of which something is said.
PlanOK(e, c, t, plan) ==
  /\ DOMAIN plan \subseteq Statements
  /\ \A s \in DOMAIN plan : {plan[s].start, plan[s].end} \subseteq Int
  /\ c.range = "today" =>
       /\ e \in {"summary", "ranking", "trend", "shopTrend"} =>
            \A s \in DOMAIN plan : InsideDay(plan[s], t)
       /\ e \in {"compareHour", "compareDay"} =>
            /\ "before" \in DOMAIN plan
            /\ \A s \in DOMAIN plan \ {"before"} :
                 (e = "compareHour" => s = "rows") => plan["before"].end < plan[s].start
       /\ e = "compareHour" =>
            /\ plan["before"].start >= c.start \/ plan["before"].end < c.start
            /\ \A s \in DOMAIN plan \ {"before", "rows"} : c.start <= plan[s].start
       /\ e \in {"summary", "ranking"} => DOMAIN plan = {"count", "money"}

\* An answer holds rows of its window.
GotOK(rows, w) ==
  /\ DOMAIN rows \subseteq Ids
  /\ \A i \in DOMAIN rows :
       rows[i] \in Row /\ orderAnalyticsEventTime(rows[i]) \in w.start..w.end

AskOK(a, n) ==
  /\ ContractOK(a.c, a.at) /\ a.at <= n
  /\ a.step # "parsed" => PlanOK(a.e, a.c, a.at, a.plan)
  /\ a.step = "parsed" => DOMAIN a.plan = {}
  /\ \A s \in DOMAIN a.got : a.got[s] # None => GotOK(a.got[s], a.plan[s])
  /\ a.step = "done" => \A s \in DOMAIN a.got : a.got[s] # None

IInv == TypeOK /\ \A r \in Requests : asks[r] # None => AskOK(asks[r], now)

-----------------------------------------------------------------------------
(* Days                                                                      *)

\* Division of hours by the length of a day, for the few facts that need it.
LEMMA Division ==
  ASSUME NEW t \in Int
  PROVE  /\ Day(t) \in Int /\ DayStart(Day(t)) \in Int
         /\ DayStart(Day(t)) <= t /\ t < DayStart(Day(t)) + DayLen
<1>1. DayLen \in Nat \ {0}
  BY TimeAssumption
<1> QED
  BY <1>1 DEF Day, DayStart

LEMMA SameDay ==
  ASSUME NEW t \in Int, NEW d \in Int, DayStart(d) <= t, t < DayStart(d) + DayLen
  PROVE  Day(t) = d
<1>1. DayLen \in Nat \ {0}
  BY TimeAssumption
<1>2. /\ Day(t) \in Int /\ Day(t) * DayLen <= t /\ t < Day(t) * DayLen + DayLen
  BY Division DEF DayStart
<1>3. ~(Day(t) < d)
  BY <1>1, <1>2 DEF DayStart
<1>4. ~(d < Day(t))
  BY <1>1, <1>2 DEF DayStart
<1> QED
  BY <1>2, <1>3, <1>4

LEMMA LaterDay ==
  ASSUME NEW t \in Int, NEW n \in Int, t <= n
  PROVE  /\ DayStart(Day(t)) <= DayStart(Day(n))
         /\ DayStart(Day(n)) <= t => Day(n) = Day(t)
<1>1. /\ Day(t) \in Int /\ DayStart(Day(t)) \in Int /\ DayStart(Day(t)) <= t /\ t < DayStart(Day(t)) + DayLen
      /\ Day(n) \in Int /\ DayStart(Day(n)) \in Int /\ DayStart(Day(n)) <= n /\ n < DayStart(Day(n)) + DayLen
  BY Division
<1>2. DayLen \in Nat \ {0}
  BY TimeAssumption
<1>3. DayStart(Day(n)) <= t => Day(n) = Day(t)
  BY <1>1, <1>2, SameDay
<1> QED
  BY <1>1, <1>2, <1>3

\* The starts of two days are the same or a day apart.
LEMMA DaysApart ==
  ASSUME NEW t \in Int, NEW n \in Int, t <= n
  PROVE  \/ DayStart(Day(n)) = DayStart(Day(t))
         \/ DayStart(Day(n)) - DayLen >= DayStart(Day(t))
<1>1. DayLen \in Nat \ {0} /\ Day(t) \in Int /\ Day(n) \in Int
  BY TimeAssumption, Division
<1>2. DayStart(Day(t)) <= DayStart(Day(n))
  BY LaterDay
<1>3. Day(t) <= Day(n)
  BY <1>1, <1>2 DEF DayStart
<1>4. CASE Day(t) = Day(n)
  BY <1>4
<1>5. CASE Day(t) + 1 <= Day(n)
  <2>1. (Day(t) + 1) * DayLen <= Day(n) * DayLen
    BY <1>1, <1>5
  <2> QED
    BY <1>1, <2>1 DEF DayStart
<1> QED
  BY <1>1, <1>3, <1>4, <1>5

-----------------------------------------------------------------------------
(* Windows                                                                   *)

LEMMA BoundsOK ==
  ASSUME NEW range \in Ranges, NEW from \in Nat, NEW to \in Nat, NEW n \in Int
  PROVE  LET w == getTimeRangeBounds(range, from, to, n) IN
         /\ w.range \in Ranges /\ {w.start, w.end} \subseteq Int
         /\ range = "today" => w.range = "today"
         /\ w.range = "today" => w.start = DayStart(Day(n)) /\ w.end = n
<1>1. /\ DayLen \in Nat \ {0} /\ WeekDays \in Nat /\ MonthDays \in Nat
      /\ Day(n) \in Int
  BY TimeAssumption, Division
<1>2. \A d \in Int : DayStart(d) \in Int /\ DayEnd(d) \in Int
  BY <1>1 DEF DayStart, DayEnd
<1>3. \A a, b \in Int : Least(a, b) \in Int
  BY DEF Least
<1>4. CASE range \in {"today", "yesterday", "last7", "last30"}
  BY <1>1, <1>2, <1>4 DEF getTimeRangeBounds, Ranges
<1>5. CASE range = "custom"
  <2> DEFINE low  == Least(DayStart(from), DayEnd(to))
             high == DayStart(from) + DayEnd(to) - low
  <2>1. low \in Int /\ high \in Int /\ Least(high, n) \in Int
    <3>1. DayStart(from) \in Int /\ DayEnd(to) \in Int
      BY <1>2
    <3>2. low \in Int
      BY <1>3, <3>1
    <3>3. high \in Int
      BY <3>1, <3>2
    <3> QED
      BY <1>3, <3>2, <3>3
  <2>2. getTimeRangeBounds(range, from, to, n) \in
          {[range |-> "today", start |-> DayStart(Day(n)), end |-> n],
           [range |-> "custom", start |-> low, end |-> Least(high, n)]}
    BY <1>5 DEF getTimeRangeBounds
  <2> QED
    BY <1>1, <1>2, <1>5, <2>1, <2>2 DEF Ranges
<1> QED
  BY <1>4, <1>5 DEF Ranges

LEMMA ParseOK ==
  ASSUME NEW q, q.range \in Ranges, q.from \in Nat, q.to \in Nat, q.filter \in Filters, NEW n \in Int
  PROVE  ContractOK(parseDashboardFilterQuery(q, n), n)
<1> DEFINE w == getTimeRangeBounds(q.range, q.from, q.to, n)
<1>1. /\ w.range \in Ranges /\ {w.start, w.end} \subseteq Int
      /\ w.range = "today" => w.start = DayStart(Day(n)) /\ w.end = n
  BY BoundsOK, SMTT(30)
<1> HIDE DEF w
<1>2. parseDashboardFilterQuery(q, n) =
        [range |-> w.range, from |-> q.from, to |-> q.to, filter |-> q.filter,
         shop |-> q.shop, start |-> w.start, end |-> w.end]
  BY DEF parseDashboardFilterQuery, w
<1> QED
  BY <1>1, <1>2 DEF ContractOK, Fields

\* The window of a WHERE; of today either the contract's, if that ended before
\* today, or that of the moment.
LEMMA WhereOK ==
  ASSUME NEW c, c.range \in Ranges, c.from \in Nat, c.to \in Nat,
         c.start \in Int, c.end \in Int, NEW n \in Int
  PROVE  LET v == buildDateRangeWhere(c, n) IN
         /\ {v.start, v.end} \subseteq Int
         /\ c.range = "today" =>
              IF c.end < DayStart(Day(n)) THEN v.start = c.start /\ v.end = c.end
                                          ELSE v.start = DayStart(Day(n)) /\ v.end = n
<1> DEFINE w == getTimeRangeBounds(c.range, c.from, c.to, n)
<1>1. /\ {w.start, w.end} \subseteq Int
      /\ c.range = "today" => w.start = DayStart(Day(n)) /\ w.end = n
  BY BoundsOK
<1> HIDE DEF w
<1>2. buildDateRangeWhere(c, n) = IF c.range = "today" /\ c.end < w.start
                                  THEN [start |-> c.start, end |-> c.end]
                                  ELSE [start |-> w.start, end |-> w.end]
  BY DEF buildDateRangeWhere, w
<1> QED
  BY <1>1, <1>2

\* A contract of today, loaded at whatever later hour, keeps to its day.
LEMMA WhereStaysInDay ==
  ASSUME NEW c, NEW t \in Int, ContractOK(c, t), c.range = "today", NEW n \in Int, t <= n
  PROVE  InsideDay(buildDateRangeWhere(c, n), t)
<1>1. /\ DayStart(Day(t)) \in Int /\ DayStart(Day(t)) <= t /\ t < DayStart(Day(t)) + DayLen
      /\ DayStart(Day(n)) \in Int /\ DayStart(Day(n)) <= n /\ n < DayStart(Day(n)) + DayLen
      /\ DayLen \in Int
  BY Division, TimeAssumption
<1>2. DayStart(Day(n)) <= t => DayStart(Day(n)) = DayStart(Day(t))
  BY LaterDay
<1>3. c.start = DayStart(Day(t)) /\ c.end = t
  BY DEF ContractOK
<1>4. LET v == buildDateRangeWhere(c, n) IN
      IF t < DayStart(Day(n)) THEN v.start = DayStart(Day(t)) /\ v.end = t
                              ELSE v.start = DayStart(Day(n)) /\ v.end = n
  BY <1>3, WhereOK DEF ContractOK
<1> QED
  BY <1>1, <1>2, <1>4 DEF InsideDay
LEMMA CompareWindowsOK ==
  ASSUME NEW c, NEW t \in Int, ContractOK(c, t), NEW n \in Int, t <= n, NEW hourly \in BOOLEAN
  PROVE  LET w == computeCompareWindows(c, hourly, n) IN
         /\ {w.today.start, w.today.end, w.before.start, w.before.end} \subseteq Int
         /\ c.range = "today" =>
              /\ w.before.end < DayStart(Day(n))
              /\ hourly => w.today.start = DayStart(Day(n)) /\ w.today.end = n
              /\ ~hourly => w.before.end < DayStart(Day(t))
              /\ hourly => \/ w.before.start >= DayStart(Day(t))
                           \/ w.before.end < DayStart(Day(t))
<1> DEFINE intraday == hourly /\ c.range = "today"
           start    == IF intraday THEN DayStart(Day(n)) ELSE c.start
           end      == IF intraday THEN n ELSE c.end
           elapsed  == IF end > start \/ intraday THEN end - start ELSE 1
           w        == computeCompareWindows(c, hourly, n)
<1>1. /\ DayStart(Day(n)) \in Int /\ DayStart(Day(n)) <= n /\ n < DayStart(Day(n)) + DayLen
      /\ DayStart(Day(t)) \in Int /\ DayStart(Day(t)) <= DayStart(Day(n)) /\ DayLen \in Int
      /\ c.start \in Int /\ c.end \in Int
      /\ c.range = "today" => c.start = DayStart(Day(t))
  <2>1. DayStart(Day(n)) \in Int /\ DayStart(Day(n)) <= n /\ n < DayStart(Day(n)) + DayLen
    BY Division
  <2>2. DayStart(Day(t)) \in Int
    BY Division
  <2>3. DayStart(Day(t)) <= DayStart(Day(n)) /\ DayLen \in Int
    BY LaterDay, TimeAssumption
  <2>4. c.start \in Int /\ c.end \in Int /\ (c.range = "today" => c.start = DayStart(Day(t)))
    BY DEF ContractOK
  <2> QED
    BY <2>1, <2>2, <2>3, <2>4
<1>2. start \in Int /\ end \in Int /\ elapsed \in Int
  BY <1>1
<1>3. /\ w.today.start = start /\ w.today.end = end
      /\ w.before.start = IF intraday THEN start - DayLen ELSE start - elapsed
      /\ w.before.end = IF intraday THEN start - DayLen + elapsed ELSE start - 1
  BY DEF computeCompareWindows
<1>4. \/ DayStart(Day(n)) = DayStart(Day(t))
      \/ DayStart(Day(n)) - DayLen >= DayStart(Day(t))
  BY DaysApart
<1>5. CASE intraday
  <2>1. c.range = "today" /\ hourly
    BY <1>5
  <2>2. /\ w.today.start = DayStart(Day(n)) /\ w.today.end = n
        /\ w.before.start = DayStart(Day(n)) - DayLen
        /\ w.before.end = DayStart(Day(n)) - DayLen + (n - DayStart(Day(n)))
    BY <1>3, <1>5
  <2>3. /\ w.before.start \in Int /\ w.before.end \in Int
        /\ w.before.end < DayStart(Day(n))
        /\ w.before.start >= DayStart(Day(t)) \/ w.before.end < DayStart(Day(t))
    BY <1>1, <1>4, <2>2
  <2> QED
    BY <1>1, <2>1, <2>2, <2>3
<1>6. CASE ~intraday
  BY <1>1, <1>2, <1>3, <1>6
<1> QED
  BY <1>5, <1>6

LEMMA SliceOK ==
  ASSUME NEW c, NEW t, ContractOK(c, t), NEW w
  PROVE  /\ Slice(c, w).range = c.range /\ Slice(c, w).from = c.from /\ Slice(c, w).to = c.to
         /\ Slice(c, w).start = w.start /\ Slice(c, w).end = w.end
  BY DEF Slice, ContractOK, Fields

-----------------------------------------------------------------------------
(* Plans                                                                     *)

LEMMA ComparePlanOK ==
  ASSUME NEW c, NEW t \in Int, ContractOK(c, t), NEW n \in Int, t <= n, NEW hourly \in BOOLEAN
  PROVE  LET plan == queryDashboardGmvCompare(c, hourly, n) IN
         /\ DOMAIN plan \subseteq Statements /\ "before" \in DOMAIN plan
         /\ \A s \in DOMAIN plan : {plan[s].start, plan[s].end} \subseteq Int
         /\ c.range = "today" =>
              /\ \A s \in DOMAIN plan \ {"before"} :
                   (hourly => s = "rows") => plan["before"].end < plan[s].start
              /\ hourly =>
                   /\ DOMAIN plan = {"rows", "before"}
                   /\ plan["before"].start >= c.start \/ plan["before"].end < c.start
<1> DEFINE w       == computeCompareWindows(c, hourly, n)
           plan    == queryDashboardGmvCompare(c, hourly, n)
           first   == buildDateRangeWhere(Slice(c, w.today), n)
           second  == buildDateRangeWhere(Slice(c, w.before), n)
           whole   == buildDateRangeWhere(c, n)
<1>1. /\ {w.today.start, w.today.end, w.before.start, w.before.end} \subseteq Int
      /\ c.range = "today" =>
           /\ w.before.end < DayStart(Day(n))
           /\ hourly => w.today.start = DayStart(Day(n)) /\ w.today.end = n
           /\ ~hourly => w.before.end < DayStart(Day(t))
           /\ hourly => \/ w.before.start >= DayStart(Day(t))
                        \/ w.before.end < DayStart(Day(t))
  BY CompareWindowsOK
<1>2. /\ c.range \in Ranges /\ c.from \in Nat /\ c.to \in Nat /\ c.start \in Int /\ c.end \in Int
      /\ c.range = "today" => c.start = DayStart(Day(t)) /\ c.end = t
      /\ DayStart(Day(n)) \in Int /\ DayStart(Day(n)) <= n /\ DayStart(Day(t)) \in Int
      /\ DayStart(Day(t)) <= DayStart(Day(n))
  BY Division, LaterDay DEF ContractOK
<1>3. /\ {first.start, first.end, second.start, second.end, whole.start, whole.end} \subseteq Int
      /\ c.range = "today" =>
           /\ second.end = w.before.end
           /\ w.before.end < DayStart(Day(n)) => second.start = w.before.start
           /\ hourly => first.start = DayStart(Day(n))
           /\ whole.start >= DayStart(Day(t))
  <2>1. /\ {first.start, first.end} \subseteq Int
        /\ c.range = "today" /\ hourly => first.start = DayStart(Day(n))
    BY <1>1, <1>2, SliceOK, WhereOK
  <2>2. /\ {second.start, second.end} \subseteq Int
        /\ c.range = "today" =>
             /\ second.end = w.before.end
             /\ w.before.end < DayStart(Day(n)) => second.start = w.before.start
    BY <1>1, <1>2, SliceOK, WhereOK
  <2>3. /\ {whole.start, whole.end} \subseteq Int
        /\ c.range = "today" => whole.start >= DayStart(Day(t))
    BY <1>2, WhereOK
  <2> QED
    BY <2>1, <2>2, <2>3
<1>4. CASE hourly
  <2>1. DOMAIN plan = {"rows", "before"} /\ plan["rows"] = first /\ plan["before"] = second
    BY <1>4 DEF queryDashboardGmvCompare
  <2> HIDE DEF plan, first, second, whole, w
  <2>2. c.range = "today" =>
          /\ second.end < first.start
          /\ second.start >= c.start \/ second.end < c.start
    BY <1>1, <1>2, <1>3, <1>4
  <2> QED
    BY <1>3, <1>4, <2>1, <2>2, ZenonT(40) DEF Statements, plan
<1>5. CASE ~hourly
  <2>1. /\ DOMAIN plan \subseteq {"count", "money", "both", "before"} /\ "before" \in DOMAIN plan
        /\ plan["before"] = second
        /\ \A s \in DOMAIN plan \ {"before"} : plan[s] = whole
    BY <1>5 DEF queryDashboardGmvCompare, Totals
  <2> HIDE DEF plan, first, second, whole, w
  <2>2. c.range = "today" => second.end < whole.start
    BY <1>1, <1>2, <1>3, <1>5
  <2> QED
    BY <1>3, <1>5, <2>1, <2>2 DEF Statements, plan
<1> QED
  BY <1>4, <1>5

LEMMA PlanIsOK ==
  ASSUME NEW e \in Endpoints, NEW c, NEW t \in Int, ContractOK(c, t), NEW n \in Int, t <= n
  PROVE  PlanOK(e, c, t, Plan(e, c, n))
<1> DEFINE whole == buildDateRangeWhere(c, n)
<1>1. /\ c.range \in Ranges /\ c.from \in Nat /\ c.to \in Nat /\ c.filter \in Filters
      /\ c.start \in Int /\ c.end \in Int
  BY DEF ContractOK
<1>2. {whole.start, whole.end} \subseteq Int
  BY <1>1, WhereOK
<1>3. c.range = "today" => InsideDay(whole, t)
  BY WhereStaysInDay
<1>4. CASE e \in {"summary", "ranking", "trend"}
  <2>1. /\ DOMAIN Plan(e, c, n) \subseteq {"count", "money", "both"}
        /\ c.range = "today" /\ e \in {"summary", "ranking"} => DOMAIN Plan(e, c, n) = {"count", "money"}
        /\ \A s \in DOMAIN Plan(e, c, n) : Plan(e, c, n)[s] = whole
    BY <1>4 DEF Plan, Totals, queryDashboardRanking, queryDashboardTrend
  <2> QED
    BY <1>2, <1>3, <1>4, <2>1 DEF PlanOK, Statements
<1>5. CASE e = "shopTrend"
  <2>1. Plan(e, c, n) = [s \in {"both"} |-> [start |-> c.start, end |-> c.end]]
    BY <1>5 DEF Plan, getShopTrend
  <2>2. c.range = "today" => InsideDay([start |-> c.start, end |-> c.end], t)
    BY Division DEF ContractOK, InsideDay
  <2> QED
    BY <1>1, <1>5, <2>1, <2>2 DEF PlanOK, Statements
<1>6. CASE e = "compareHour"
  <2> DEFINE plan == queryDashboardGmvCompare(c, TRUE, n)
  <2>1. Plan(e, c, n) = plan
    BY <1>6 DEF Plan
  <2>2. /\ DOMAIN plan \subseteq Statements /\ "before" \in DOMAIN plan
        /\ \A s \in DOMAIN plan : {plan[s].start, plan[s].end} \subseteq Int
        /\ c.range = "today" =>
             /\ \A s \in DOMAIN plan \ {"before"} : (s = "rows" => plan["before"].end < plan[s].start)
             /\ DOMAIN plan = {"rows", "before"}
             /\ plan["before"].start >= c.start \/ plan["before"].end < c.start
    BY ComparePlanOK
  <2> HIDE DEF plan
  <2>3. \A s \in DOMAIN Plan(e, c, n) : {Plan(e, c, n)[s].start, Plan(e, c, n)[s].end} \subseteq Int
    BY <2>1, <2>2
  <2>4. c.range = "today" => \A s \in DOMAIN Plan(e, c, n) \ {"before", "rows"} :
                               c.start <= Plan(e, c, n)[s].start
    BY <2>1, <2>2
  <2> QED
    BY <1>6, <2>1, <2>2, <2>3, <2>4 DEF PlanOK
<1>7. CASE e = "compareDay"
  <2> DEFINE plan == queryDashboardGmvCompare(c, FALSE, n)
  <2>1. Plan(e, c, n) = plan
    BY <1>7 DEF Plan
  <2>2. /\ DOMAIN plan \subseteq Statements /\ "before" \in DOMAIN plan
        /\ \A s \in DOMAIN plan : {plan[s].start, plan[s].end} \subseteq Int
        /\ c.range = "today" =>
             \A s \in DOMAIN plan \ {"before"} : plan["before"].end < plan[s].start
    <3>1. ASSUME NEW hourly \in BOOLEAN, ~hourly
          PROVE  LET p == queryDashboardGmvCompare(c, hourly, n) IN
                 /\ DOMAIN p \subseteq Statements /\ "before" \in DOMAIN p
                 /\ \A s \in DOMAIN p : {p[s].start, p[s].end} \subseteq Int
                 /\ c.range = "today" =>
                      \A s \in DOMAIN p \ {"before"} : p["before"].end < p[s].start
      BY <3>1, ComparePlanOK
    <3> QED
      BY <3>1
  <2> HIDE DEF plan
  <2> QED
    BY <1>7, <2>1, <2>2 DEF PlanOK
<1>8. ASSUME NEW q, q.range \in Ranges, q.from \in Nat, q.to \in Nat, q.filter \in Filters
      PROVE  {buildAnalyticsFilter(q, n).start, buildAnalyticsFilter(q, n).end} \subseteq Int
  <2>1. ContractOK(parseDashboardFilterQuery(q, n), n)
    BY <1>8, ParseOK
  <2> QED
    BY <2>1, WhereOK DEF buildAnalyticsFilter, ContractOK
<1>9. CASE e = "topShops"
  <2>1. Plan(e, c, n) = [s \in {"both"} |-> buildAnalyticsFilter(c, n)]
    BY <1>9 DEF Plan, getTopShops
  <2> QED
    BY <1>1, <1>8, <1>9, <2>1 DEF PlanOK, Statements
<1>10. CASE e = "analyticsCompare"
  <2> DEFINE q == [c EXCEPT !.range = "today"]
  <2>1. Plan(e, c, n) = [s \in {"rows", "before"} |-> buildAnalyticsFilter(q, n)]
    BY <1>10 DEF Plan, getGmvCompare
  <2>2. q.range \in Ranges /\ q.from = c.from /\ q.to = c.to /\ q.filter = c.filter
    BY DEF ContractOK, Fields, Ranges
  <2> HIDE DEF q
  <2>3. {buildAnalyticsFilter(q, n).start, buildAnalyticsFilter(q, n).end} \subseteq Int
    BY <1>1, <1>8, <2>2
  <2> QED
    BY <1>10, <2>1, <2>3 DEF PlanOK, Statements
<1> QED
  BY <1>4, <1>5, <1>6, <1>7, <1>9, <1>10 DEF Endpoints, Dashboard, Analytics
-----------------------------------------------------------------------------
(* Steps                                                                     *)

\* The invariant when one request moves on and nothing else changes.
LEMMA AskMovesOn ==
  ASSUME IInv, NEW r \in Requests, NEW a, asks' = [asks EXCEPT ![r] = a],
         UNCHANGED <<orders, now, writes>>, IsAsked(a), AskOK(a, now)
  PROVE  IInv'
<1>1. /\ DOMAIN asks' = Requests
      /\ \A q \in Requests : asks'[q] = IF q = r THEN a ELSE asks[q]
  BY DEF IInv, TypeOK
<1>2. TypeOK'
  BY <1>1 DEF IInv, TypeOK, IsAsked
<1>3. ASSUME NEW q \in Requests, asks'[q] # None PROVE AskOK(asks'[q], now')
  <2>1. AskOK(asks'[q], now)
    BY <1>1, <1>3 DEF IInv
  <2> QED
    BY <2>1
<1> QED
  BY <1>2, <1>3 DEF IInv

\* A disturbed request is what it was.
LEMMA DisturbedOK ==
  ASSUME IInv, asks' = Disturbed(asks), now' \in Times, now <= now',
         writes' \in 0..MaxWrites, orders' \in [Ids -> Row \cup {None}]
  PROVE  IInv'
<1>1. /\ DOMAIN asks' = Requests
      /\ \A q \in Requests : asks[q] = None => asks'[q] = None
      /\ \A q \in Requests : asks[q] # None => asks'[q] = [asks[q] EXCEPT !.quiet = FALSE]
  BY DEF IInv, TypeOK, Disturbed
<1>2. ASSUME NEW q \in Requests, asks[q] # None
      PROVE  IsAsked(asks'[q]) /\ AskOK(asks'[q], now')
  <2> DEFINE a == asks[q]
             b == asks'[q]
  <2>1. IsAsked(a) /\ AskOK(a, now)
    BY <1>2 DEF IInv, TypeOK
  <2>2. /\ DOMAIN b = DOMAIN a /\ b.quiet = FALSE
        /\ b.e = a.e /\ b.c = a.c /\ b.at = a.at /\ b.step = a.step
        /\ b.plan = a.plan /\ b.got = a.got /\ b.derived = a.derived
    BY <1>1, <1>2, <2>1 DEF IsAsked
  <2>3. b.at <= now'
    <3>1. a.at \in Int /\ now \in Int /\ now' \in Int /\ a.at <= now
      BY <2>1, TimeAssumption DEF IsAsked, AskOK, IInv, TypeOK, Times
    <3> QED
      BY <2>2, <3>1
  <2>4. IsAsked(b)
    BY <2>1, <2>2 DEF IsAsked
  <2> HIDE DEF a, b
  <2>5. AskOK(b, now')
    BY <2>1, <2>2, <2>3 DEF AskOK
  <2> QED
    BY <2>4, <2>5 DEF b, a
<1>3. TypeOK'
  BY <1>1, <1>2 DEF TypeOK
<1> QED
  BY <1>1, <1>2, <1>3 DEF IInv

LEMMA PersistOK ==
  ASSUME IInv, NEW i \in Ids, Persist(i)
  PROVE  IInv'
<1>1. PICK o \in Rows :
        /\ writes < MaxWrites /\ writes' = writes + 1 /\ now' = now /\ asks' = Disturbed(asks)
        /\ orders' = [orders EXCEPT ![i] =
                        IF @ = None THEN [o EXCEPT !.kept = now] ELSE Updated(@, o)]
  BY DEF Persist
<1>2. o \in Row /\ now \in Times
  BY InputAssumption DEF IInv, TypeOK
<1>3. /\ [o EXCEPT !.kept = now] \in Row
      /\ \A old \in Row : Updated(old, o) \in Row
  BY <1>2 DEF Row, Updated
<1>4. orders' \in [Ids -> Row \cup {None}]
  BY <1>1, <1>3 DEF IInv, TypeOK
<1>5. writes' \in 0..MaxWrites /\ now <= now' /\ now' \in Times
  BY <1>1, <1>2, TimeAssumption DEF IInv, TypeOK, Times
<1> QED
  BY <1>1, <1>4, <1>5, DisturbedOK

LEMMA TickOK ==
  ASSUME IInv, Tick
  PROVE  IInv'
<1>1. now' \in Times /\ now <= now'
  BY TimeAssumption DEF Tick, IInv, TypeOK, Times
<1>2. writes' \in 0..MaxWrites /\ orders' \in [Ids -> Row \cup {None}]
  BY DEF Tick, IInv, TypeOK
<1> QED
  BY <1>1, <1>2, DisturbedOK DEF Tick

LEMMA AskIsOK ==
  ASSUME IInv, NEW r \in Requests, Ask(r)
  PROVE  IInv'
<1>1. PICK q \in Queries : asks' = [asks EXCEPT ![r] =
         [e |-> q.endpoint, c |-> parseDashboardFilterQuery(q, now), at |-> now, step |-> "parsed",
          plan |-> <<>>, got |-> <<>>, derived |-> FALSE, quiet |-> TRUE]]
  BY DEF Ask
<1> DEFINE c == parseDashboardFilterQuery(q, now)
           a == [e |-> q.endpoint, c |-> c, at |-> now, step |-> "parsed",
                 plan |-> <<>>, got |-> <<>>, derived |-> FALSE, quiet |-> TRUE]
<1>2. q \in Query /\ now \in Times /\ now \in Int
  BY InputAssumption, TimeAssumption DEF IInv, TypeOK, Times
<1>3. ContractOK(c, now)
  BY <1>2, ParseOK DEF Query
<1> HIDE DEF c
<1>4. IsAsked(a)
  BY <1>2, <1>3 DEF IsAsked, ContractOK, Query
<1>5. AskOK(a, now)
  BY <1>2, <1>3 DEF AskOK
<1>6. UNCHANGED <<orders, now, writes>>
  BY DEF Ask
<1> QED
  BY <1>1, <1>4, <1>5, <1>6, AskMovesOn DEF c

LEMMA LoadOK ==
  ASSUME IInv, NEW r \in Requests, Load(r)
  PROVE  IInv'
<1> DEFINE a    == asks[r]
           plan == Plan(a.e, a.c, now)
           d    == a.e = "compareHour" /\ Derived(a.c, now)
           b    == [a EXCEPT !.step = "run", !.plan = plan,
                             !.got = [s \in DOMAIN plan |-> None], !.derived = d]
<1>1. IsAsked(a) /\ AskOK(a, now) /\ a.step = "parsed" /\ now \in Int /\ a.at \in Int
  BY TimeAssumption DEF Load, IInv, TypeOK, IsAsked, Times
<1>2. PlanOK(a.e, a.c, a.at, plan)
  BY <1>1, PlanIsOK DEF AskOK, IsAsked
<1>3. d \in BOOLEAN
  BY DEF Derived
<1>4. asks' = [asks EXCEPT ![r] = b] /\ UNCHANGED <<orders, now, writes>>
  BY DEF Load
<1> HIDE DEF plan, d
<1>5. /\ DOMAIN b = DOMAIN a /\ b.e = a.e /\ b.c = a.c /\ b.at = a.at /\ b.step = "run"
      /\ b.plan = plan /\ b.got = [s \in DOMAIN plan |-> None] /\ b.derived = d /\ b.quiet = a.quiet
  BY <1>1 DEF IsAsked
<1> HIDE DEF b
<1>6. IsAsked(b)
  BY <1>1, <1>2, <1>3, <1>5 DEF IsAsked, PlanOK
<1>7. AskOK(b, now)
  BY <1>1, <1>2, <1>5 DEF AskOK
<1> QED
  BY <1>4, <1>6, <1>7, AskMovesOn

\* Whatever is read lies in the window it was asked with.
LEMMA ReadOK ==
  ASSUME IInv, NEW c, NEW w, w.start \in Int, w.end \in Int
  PROVE  GotOK(buildDashboardWhere(c, w), w)
<1> DEFINE rows == buildDashboardWhere(c, w)
<1>1. /\ DOMAIN rows \subseteq Ids
      /\ \A i \in DOMAIN rows : rows[i] = orders[i] /\ orders[i] # None
                                /\ buildIndexFriendlyEventTimeWhere(orders[i], w)
  BY DEF buildDashboardWhere
<1>2. \A i \in DOMAIN rows : rows[i] \in Row
  BY <1>1 DEF IInv, TypeOK
<1>3. \A i \in DOMAIN rows : orderAnalyticsEventTime(rows[i]) \in w.start..w.end
  BY <1>1 DEF buildIndexFriendlyEventTimeWhere, orderAnalyticsEventTime
<1> QED
  BY <1>1, <1>2, <1>3 DEF GotOK

LEMMA RunOK ==
  ASSUME IInv, NEW r \in Requests, NEW s \in Statements, Run(r, s)
  PROVE  IInv'
<1> DEFINE a    == asks[r]
           c    == IF s = "before" THEN Slice(a.c, a.plan[s]) ELSE a.c
           rows == buildDashboardWhere(c, a.plan[s])
           b    == [a EXCEPT !.got[s] = rows]
<1>1. IsAsked(a) /\ AskOK(a, now) /\ a.step = "run" /\ s \in DOMAIN a.got
  BY DEF Run, IInv, TypeOK
<1>2. GotOK(rows, a.plan[s])
  <2>1. a.plan[s].start \in Int /\ a.plan[s].end \in Int
    BY <1>1 DEF AskOK, PlanOK, IsAsked
  <2> QED
    BY <2>1, ReadOK
<1>3. asks' = [asks EXCEPT ![r] = b] /\ UNCHANGED <<orders, now, writes>>
  BY DEF Run
<1> HIDE DEF c, rows
<1>4. /\ DOMAIN b = DOMAIN a /\ b.e = a.e /\ b.c = a.c /\ b.at = a.at /\ b.step = a.step
      /\ b.plan = a.plan /\ b.derived = a.derived /\ b.quiet = a.quiet
      /\ b.got = [a.got EXCEPT ![s] = rows]
  BY <1>1 DEF IsAsked
<1>5. DOMAIN b.got = DOMAIN a.got /\ \A x \in DOMAIN a.got : b.got[x] = IF x = s THEN rows ELSE a.got[x]
  BY <1>1, <1>4
<1> HIDE DEF b
<1>6. \A x \in DOMAIN b.got : b.got[x] # None => GotOK(b.got[x], b.plan[x])
  BY <1>1, <1>2, <1>4, <1>5 DEF AskOK
<1>7. IsAsked(b)
  BY <1>1, <1>4, <1>5, <1>6 DEF IsAsked, GotOK
<1>8. AskOK(b, now)
  BY <1>1, <1>4, <1>6 DEF AskOK
<1> QED
  BY <1>3, <1>7, <1>8, AskMovesOn

LEMMA AskTotalsOK ==
  ASSUME IInv, NEW r \in Requests, AskTotals(r)
  PROVE  IInv'
<1> DEFINE a    == asks[r]
           t    == Totals(a.c, now)
           plan == [s \in DOMAIN t \cup DOMAIN a.plan |-> IF s \in DOMAIN t THEN t[s] ELSE a.plan[s]]
           got  == [s \in DOMAIN t \cup DOMAIN a.got |-> IF s \in DOMAIN t THEN None ELSE a.got[s]]
           b    == [a EXCEPT !.plan = plan, !.got = got]
<1>1. /\ IsAsked(a) /\ AskOK(a, now) /\ a.step = "run" /\ a.e = "compareHour"
      /\ now \in Int /\ a.at \in Int
  BY TimeAssumption DEF AskTotals, NeedsTotals, IInv, TypeOK, IsAsked, Times
<1>2. /\ DOMAIN t \subseteq {"count", "money", "both"}
      /\ \A s \in DOMAIN t : {t[s].start, t[s].end} \subseteq Int
      /\ a.c.range = "today" => \A s \in DOMAIN t : a.c.start <= t[s].start
  <2>1. /\ {buildDateRangeWhere(a.c, now).start, buildDateRangeWhere(a.c, now).end} \subseteq Int
        /\ a.c.range = "today" => a.c.start <= buildDateRangeWhere(a.c, now).start
    BY <1>1, WhereOK, LaterDay, Division DEF AskOK, ContractOK
  <2> QED
    BY <2>1 DEF Totals
<1>3. asks' = [asks EXCEPT ![r] = b] /\ UNCHANGED <<orders, now, writes>>
  BY DEF AskTotals
<1> HIDE DEF t
<1>4. /\ DOMAIN b = DOMAIN a /\ b.e = a.e /\ b.c = a.c /\ b.at = a.at /\ b.step = a.step
      /\ b.plan = plan /\ b.derived = a.derived /\ b.quiet = a.quiet /\ b.got = got
  BY <1>1 DEF IsAsked
<1>5. DOMAIN a.plan = DOMAIN a.got /\ DOMAIN plan = DOMAIN got /\ DOMAIN got \subseteq Statements
  BY <1>1, <1>2 DEF IsAsked, Statements
<1>6. PlanOK("compareHour", a.c, a.at, plan)
  <2>1. PlanOK("compareHour", a.c, a.at, a.plan)
    BY <1>1 DEF AskOK
  <2>2. "before" \in DOMAIN a.plan => plan["before"] = a.plan["before"]
    BY <1>2
  <2>3. "rows" \in DOMAIN plan => "rows" \in DOMAIN a.plan /\ plan["rows"] = a.plan["rows"]
    BY <1>2
  <2>4. \A s \in DOMAIN plan : {plan[s].start, plan[s].end} \subseteq Int
    BY <1>2, <2>1 DEF PlanOK
  <2>5. "before" \in DOMAIN a.plan => "before" \in DOMAIN plan
    OBVIOUS
  <2>6. a.c.range = "today" => \A s \in DOMAIN plan \ {"before", "rows"} : a.c.start <= plan[s].start
    BY <1>2, <2>1 DEF PlanOK
  <2> HIDE DEF plan, got
  <2> QED
    BY <1>5, <2>1, <2>2, <2>3, <2>4, <2>5, <2>6 DEF PlanOK
<1>7. \A s \in DOMAIN got : got[s] # None => s \in DOMAIN a.got /\ got[s] = a.got[s] /\ plan[s] = a.plan[s]
  BY <1>5
<1> HIDE DEF plan, got, b
<1>8. \A s \in DOMAIN got : got[s] # None => GotOK(got[s], plan[s])
  BY <1>1, <1>7 DEF AskOK
<1>9. IsAsked(b)
  BY <1>1, <1>4, <1>5, <1>8 DEF IsAsked, GotOK
<1>10. AskOK(b, now)
  BY <1>1, <1>4, <1>6, <1>8 DEF AskOK
<1> QED
  BY <1>3, <1>9, <1>10, AskMovesOn

LEMMA AnswerOK ==
  ASSUME IInv, NEW r \in Requests, Answer(r)
  PROVE  IInv'
<1> DEFINE a == asks[r]
           b == [a EXCEPT !.step = "done"]
<1>1. IsAsked(a) /\ AskOK(a, now) /\ a.step = "run" /\ \A s \in DOMAIN a.got : a.got[s] # None
  BY DEF Answer, IInv, TypeOK
<1>2. asks' = [asks EXCEPT ![r] = b] /\ UNCHANGED <<orders, now, writes>>
  BY DEF Answer
<1>3. /\ DOMAIN b = DOMAIN a /\ b.e = a.e /\ b.c = a.c /\ b.at = a.at /\ b.step = "done"
      /\ b.plan = a.plan /\ b.got = a.got /\ b.derived = a.derived /\ b.quiet = a.quiet
  BY <1>1 DEF IsAsked
<1> HIDE DEF b
<1>4. IsAsked(b)
  BY <1>1, <1>3 DEF IsAsked
<1>5. AskOK(b, now)
  BY <1>1, <1>3 DEF AskOK
<1> QED
  BY <1>2, <1>4, <1>5, AskMovesOn
LEMMA InitOK == Init => IInv
<1> SUFFICES ASSUME Init PROVE IInv
  OBVIOUS
<1>1. TypeOK
  BY TimeAssumption DEF Init, TypeOK, Times
<1> QED
  BY <1>1 DEF Init, IInv

LEMMA NextOK == IInv /\ [Next]_vars => IInv'
<1> SUFFICES ASSUME IInv, [Next]_vars PROVE IInv'
  OBVIOUS
<1>1. CASE UNCHANGED vars
  BY <1>1 DEF vars, IInv, TypeOK
<1>2. CASE Tick
  BY <1>2, TickOK
<1>3. ASSUME NEW i \in Ids, Persist(i) PROVE IInv'
  BY <1>3, PersistOK
<1>4. ASSUME NEW r \in Requests, Ask(r) \/ Load(r) \/ AskTotals(r) \/ Answer(r) PROVE IInv'
  BY <1>4, AskIsOK, LoadOK, AskTotalsOK, AnswerOK
<1>5. ASSUME NEW r \in Requests, NEW s \in Statements, Run(r, s) PROVE IInv'
  BY <1>5, RunOK
<1> QED
  BY <1>1, <1>2, <1>3, <1>4, <1>5 DEF Next

\* The inductive invariant holds.
THEOREM Invariant == Spec => []IInv
  BY InitOK, NextOK, PTL DEF Spec

\* TypeOK for any orders, queries and requests: whatever the range and however
\* the dates lie, windows are bounds and plans have known statements.
THEOREM TypeCorrect == Spec => []TypeOK
<1>1. IInv => TypeOK
  BY DEF IInv
<1> QED
  BY <1>1, Invariant, PTL

-----------------------------------------------------------------------------
(* What follows                                                              *)

\* An answered request of one of E has read everything that it planned.
LEMMA DoneOK ==
  ASSUME IInv, NEW r \in Requests, NEW E, Done(r, E)
  PROVE  LET a == asks[r] IN
         /\ a.e \in E /\ PlanOK(a.e, a.c, a.at, a.plan) /\ a.at \in Int
         /\ DOMAIN a.got = DOMAIN a.plan
         /\ \A s \in DOMAIN a.got : GotOK(a.got[s], a.plan[s])
  BY TimeAssumption DEF Done, IInv, TypeOK, IsAsked, AskOK, Times

\* StaysInItsDay for days of any length and loads at any later hour: a request
\* for today counts no order of another day than the one it was parsed in.
THEOREM TodayStaysToday == Spec => []StaysInItsDay
<1>1. ASSUME IInv PROVE StaysInItsDay
  <2> SUFFICES ASSUME NEW r \in Requests, Done(r, {"summary", "ranking", "trend", "shopTrend"}),
                      asks[r].c.range = "today",
                      NEW s \in DOMAIN asks[r].got, NEW i \in DOMAIN asks[r].got[s]
               PROVE  Day(orderAnalyticsEventTime(asks[r].got[s][i])) = Day(asks[r].at)
    BY DEF StaysInItsDay
  <2> DEFINE a == asks[r]
             w == a.plan[s]
             t == orderAnalyticsEventTime(a.got[s][i])
             d == Day(a.at)
  <2>1. /\ a.at \in Int /\ PlanOK(a.e, a.c, a.at, a.plan) /\ s \in DOMAIN a.plan
        /\ a.e \in {"summary", "ranking", "trend", "shopTrend"} /\ GotOK(a.got[s], w)
    BY <1>1, DoneOK
  <2>2. w.start \in Int /\ w.end \in Int /\ InsideDay(w, a.at) /\ t \in w.start..w.end
    BY <2>1 DEF PlanOK, GotOK
  <2>3. d \in Int /\ DayStart(d) \in Int /\ DayLen \in Int
    BY <2>1, Division, TimeAssumption
  <2> HIDE DEF t, w, d
  <2>4. t \in Int /\ DayStart(d) <= t /\ t < DayStart(d) + DayLen
    BY <2>2, <2>3 DEF InsideDay, d
  <2>5. Day(t) = d
    BY <2>3, <2>4, SameDay
  <2> QED
    BY <2>5 DEF t, d
<1> QED
  BY <1>1, Invariant, PTL

\* HalvesApart for days of any length: the windows of the curves, and of the
\* totals unless the halves moved on to another day, have no hour in common,
\* whenever they were computed, so one and the same row is in one.
THEOREM HalvesStayApart == Spec => []HalvesApart
<1>1. ASSUME IInv PROVE HalvesApart
  <2> SUFFICES ASSUME NEW r \in Requests, Done(r, {"compareHour", "compareDay"}),
                      asks[r].c.range = "today",
                      NEW s \in DOMAIN asks[r].got \ {"before"},
                      asks[r].e = "compareHour" /\ MovedOn(asks[r]) => s = "rows",
                      NEW i \in DOMAIN asks[r].got[s] \cap DOMAIN asks[r].got["before"]
               PROVE  asks[r].got[s][i] # asks[r].got["before"][i]
    BY DEF HalvesApart
  <2> DEFINE a == asks[r]
  <2>1. /\ PlanOK(a.e, a.c, a.at, a.plan) /\ a.e \in {"compareHour", "compareDay"}
        /\ DOMAIN a.got = DOMAIN a.plan
        /\ \A x \in DOMAIN a.got : GotOK(a.got[x], a.plan[x])
    BY <1>1, DoneOK
  <2>2. /\ "before" \in DOMAIN a.plan /\ a.plan["before"].end < a.plan[s].start
        /\ \A x \in DOMAIN a.plan : {a.plan[x].start, a.plan[x].end} \subseteq Int
    <3>1. /\ "before" \in DOMAIN a.plan /\ s \in DOMAIN a.plan \ {"before"}
          /\ \A x \in DOMAIN a.plan : {a.plan[x].start, a.plan[x].end} \subseteq Int
      BY <2>1 DEF PlanOK
    <3>2. CASE a.e = "compareHour" => s = "rows"
      BY <2>1, <3>1, <3>2 DEF PlanOK
    <3>3. CASE a.e = "compareHour" /\ s # "rows" /\ ~MovedOn(a)
      <4>1. ~(a.plan["before"].start >= a.c.start)
        BY <3>3 DEF MovedOn
      <4>2. a.plan["before"].end < a.c.start /\ a.c.start <= a.plan[s].start
        BY <2>1, <3>1, <3>3, <4>1 DEF PlanOK
      <4>3. a.c.start \in Int
        BY <1>1 DEF Done, IInv, AskOK, ContractOK
      <4> QED
        BY <3>1, <4>2, <4>3
    <3> QED
      BY <3>1, <3>2, <3>3
  <2>3. /\ orderAnalyticsEventTime(a.got[s][i]) \in a.plan[s].start..a.plan[s].end
        /\ orderAnalyticsEventTime(a.got["before"][i]) \in a.plan["before"].start..a.plan["before"].end
    BY <2>1, <2>2 DEF GotOK
  <2>4. /\ {a.plan[s].start, a.plan[s].end, a.plan["before"].start, a.plan["before"].end} \subseteq Int
    BY <2>1, <2>2
  <2>5. orderAnalyticsEventTime(a.got[s][i]) # orderAnalyticsEventTime(a.got["before"][i])
    BY <2>2, <2>3, <2>4
  <2> QED
    BY <2>5
<1> QED
  BY <1>1, Invariant, PTL

-----------------------------------------------------------------------------
(* The invariant of requests that nothing has disturbed                      *)

Bounds(c, n) == getTimeRangeBounds(c.range, c.from, c.to, n)

\* The window of a contract is that of its range at the hour it was parsed.
Settled(c, t) == LET w == Bounds(c, t) IN
  w.range = c.range /\ w.start = c.start /\ w.end = c.end

\* The statements of an answer that are not of the half before.
Asked(e, c, s) == s # "before" /\ (e = "analyticsCompare" => c.range = "today")

\* What is planned in the hour of the contract: which statements, and that
\* their window is the contract's.
PlannedAtOnce(e, c, plan) ==
  /\ \A s \in DOMAIN plan : Asked(e, c, s) => plan[s].start = c.start /\ plan[s].end = c.end
  /\ e \in {"summary", "compareDay"} => {"count", "money"} \subseteq DOMAIN plan \/ "both" \in DOMAIN plan
  /\ e = "ranking" => {"count", "money"} \subseteq DOMAIN plan
  /\ e \in {"trend", "topShops", "shopTrend"} => "both" \in DOMAIN plan
  /\ e \in {"compareHour", "analyticsCompare"} => "rows" \in DOMAIN plan

QuietOK(a, n) ==
  /\ n = a.at
  /\ a.step # "parsed" => PlannedAtOnce(a.e, a.c, a.plan)
  /\ a.step # "parsed" /\ a.e = "compareHour" => a.derived
  /\ \A s \in DOMAIN a.got : s # "before" /\ a.got[s] # None =>
       a.got[s] = buildDashboardWhere(a.c, a.plan[s])

\* A stored order was placed and paid before now.
Past(o, n) == {o.paid, o.placed} \subseteq 0..n \cup {None} /\ o.kept \in 0..n

QInv ==
  /\ \A i \in Ids : orders[i] # None => Past(orders[i], now)
  /\ \A r \in Requests : asks[r] # None =>
       /\ Settled(asks[r].c, asks[r].at)
       /\ asks[r].quiet => QuietOK(asks[r], now)

-----------------------------------------------------------------------------
(* Windows of the hour of the contract                                       *)

LEMMA BoundsSettle ==
  ASSUME NEW range \in Ranges, NEW from, NEW to, NEW n
  PROVE  LET w == getTimeRangeBounds(range, from, to, n) IN
         getTimeRangeBounds(w.range, from, to, n) = w
<1> DEFINE w == getTimeRangeBounds(range, from, to, n)
           today == [range |-> "today", start |-> DayStart(Day(n)), end |-> n]
<1>1. w.range = range \/ w = today
  <2>1. CASE range \in {"today", "yesterday", "last7", "last30"}
    BY <2>1 DEF getTimeRangeBounds, Ranges
  <2>2. CASE range = "custom"
    BY <2>2 DEF getTimeRangeBounds
  <2> QED
    BY <2>1, <2>2 DEF Ranges
<1>2. getTimeRangeBounds("today", from, to, n) = today
  BY DEF getTimeRangeBounds
<1>3. today.range = "today"
  OBVIOUS
<1> HIDE DEF today
<1> QED
  BY <1>1, <1>2, <1>3

LEMMA ParseSettles ==
  ASSUME NEW q, q.range \in Ranges, NEW n
  PROVE  Settled(parseDashboardFilterQuery(q, n), n)
<1> DEFINE w == getTimeRangeBounds(q.range, q.from, q.to, n)
           c == parseDashboardFilterQuery(q, n)
<1>1. getTimeRangeBounds(w.range, q.from, q.to, n) = w
  BY BoundsSettle
<1>2. c.range = w.range /\ c.from = q.from /\ c.to = q.to /\ c.start = w.start /\ c.end = w.end
  BY DEF parseDashboardFilterQuery
<1> HIDE DEF w, c
<1> QED
  BY <1>1, <1>2 DEF Settled, Bounds, c

\* Only range, dates and bounds of a contract matter to a WHERE.
LEMMA SameWhere ==
  ASSUME NEW c, NEW d, NEW n, d.range = c.range, d.from = c.from, d.to = c.to,
         d.start = c.start, d.end = c.end
  PROVE  buildDateRangeWhere(d, n) = buildDateRangeWhere(c, n)
  BY DEF buildDateRangeWhere

LEMMA WhereAtOnce ==
  ASSUME NEW c, NEW n \in Int, ContractOK(c, n), Settled(c, n)
  PROVE  /\ buildDateRangeWhere(c, n).start = c.start /\ buildDateRangeWhere(c, n).end = c.end
<1> DEFINE w == Bounds(c, n)
<1>1. w.start = c.start /\ w.end = c.end
  BY DEF Settled
<1>2. c.range = "today" => ~(c.end < c.start)
  BY Division DEF ContractOK
<1>3. buildDateRangeWhere(c, n) = IF c.range = "today" /\ c.end < w.start
                                  THEN [start |-> c.start, end |-> c.end]
                                  ELSE [start |-> w.start, end |-> w.end]
  BY DEF buildDateRangeWhere, Bounds
<1> HIDE DEF w
<1> QED
  BY <1>1, <1>2, <1>3

LEMMA CompareAtOnce ==
  ASSUME NEW c, NEW n \in Int, ContractOK(c, n)
  PROVE  /\ computeCompareWindows(c, TRUE, n).today = [start |-> c.start, end |-> c.end]
         /\ Derived(c, n)
<1>1. computeCompareWindows(c, TRUE, n).today = [start |-> c.start, end |-> c.end]
  BY DEF computeCompareWindows, ContractOK
<1> QED
  BY <1>1 DEF Derived

LEMMA AnalyticsAtOnce ==
  ASSUME NEW c, NEW n \in Int, ContractOK(c, n), Settled(c, n)
  PROVE  /\ buildAnalyticsFilter(c, n).start = c.start /\ buildAnalyticsFilter(c, n).end = c.end
<1> DEFINE d == parseDashboardFilterQuery(c, n)
<1>1. /\ d.range = c.range /\ d.from = c.from /\ d.to = c.to /\ d.start = c.start /\ d.end = c.end
  BY DEF parseDashboardFilterQuery, Settled, Bounds
<1>2. buildAnalyticsFilter(c, n) = buildDateRangeWhere(d, n)
  BY DEF buildAnalyticsFilter
<1> HIDE DEF d
<1>3. buildDateRangeWhere(d, n) = buildDateRangeWhere(c, n)
  BY <1>1, SameWhere
<1> QED
  BY <1>2, <1>3, WhereAtOnce

LEMMA PlanAtOnce ==
  ASSUME NEW e \in Endpoints, NEW c, NEW n \in Int, ContractOK(c, n), Settled(c, n)
  PROVE  PlannedAtOnce(e, c, Plan(e, c, n))
<1> DEFINE whole == buildDateRangeWhere(c, n)
           plan == Plan(e, c, n)
<1>1. whole.start = c.start /\ whole.end = c.end
  BY WhereAtOnce
<1>2. CASE e \in {"summary", "ranking", "trend"}
  <2>1. \A s \in DOMAIN plan : plan[s] = whole
    BY <1>2 DEF Plan, Totals, queryDashboardRanking, queryDashboardTrend
  <2>2. /\ e = "summary" => DOMAIN plan = {"count", "money"} \/ DOMAIN plan = {"both"}
        /\ e = "ranking" => DOMAIN plan = {"count", "money"}
        /\ e = "trend" => DOMAIN plan = {"both"}
    BY <1>2 DEF Plan, Totals, queryDashboardRanking, queryDashboardTrend
  <2> HIDE DEF plan, whole
  <2> QED
    BY <1>1, <1>2, <2>1, <2>2 DEF PlannedAtOnce, plan
<1>3. CASE e \in {"compareHour", "compareDay"}
  <2> DEFINE w    == computeCompareWindows(c, TRUE, n)
             half == buildDateRangeWhere(Slice(c, w.today), n)
  <2>2. CASE e = "compareHour"
    <3>1. DOMAIN plan = {"rows", "before"} /\ plan["rows"] = half
      BY <2>2 DEF Plan, queryDashboardGmvCompare
    <3> DEFINE v == w.today
               d == Slice(c, v)
    <3>2. v.start = c.start /\ v.end = c.end
      <4>1. v = [start |-> c.start, end |-> c.end]
        BY CompareAtOnce
      <4> HIDE DEF v
      <4> QED
        BY <4>1
    <3>3. d.range = c.range /\ d.from = c.from /\ d.to = c.to /\ d.start = c.start /\ d.end = c.end
      <4> HIDE DEF v
      <4> QED
        BY <3>2, SliceOK
    <3>4. half = whole
      <4> HIDE DEF d
      <4>1. buildDateRangeWhere(d, n) = buildDateRangeWhere(c, n)
        BY <3>3, SameWhere
      <4> QED
        BY <4>1 DEF d
    <3> HIDE DEF plan, whole, half
    <3> QED
      BY <1>1, <2>2, <3>1, <3>4 DEF PlannedAtOnce, Asked, plan
  <2>3. CASE e = "compareDay"
    <3>1. \A s \in DOMAIN plan \ {"before"} : plan[s] = whole
      BY <2>3 DEF Plan, queryDashboardGmvCompare, Totals
    <3>2. {"count", "money"} \subseteq DOMAIN plan \/ "both" \in DOMAIN plan
      BY <2>3 DEF Plan, queryDashboardGmvCompare, Totals
    <3> HIDE DEF plan, whole
    <3> QED
      BY <1>1, <2>3, <3>1, <3>2 DEF PlannedAtOnce, Asked, plan
  <2> QED
    BY <1>3, <2>2, <2>3
<1>4. CASE e \in {"topShops", "shopTrend"}
  <2>1. /\ DOMAIN plan = {"both"} /\ plan["both"].start = c.start /\ plan["both"].end = c.end
    BY <1>4, AnalyticsAtOnce DEF Plan, getTopShops, getShopTrend
  <2> HIDE DEF plan
  <2> QED
    BY <1>4, <2>1 DEF PlannedAtOnce, plan
<1>5. CASE e = "analyticsCompare"
  <2>1. plan = [s \in {"rows", "before"} |-> buildAnalyticsFilter([c EXCEPT !.range = "today"], n)]
    BY <1>5 DEF Plan, getGmvCompare
  <2>2. "rows" \in DOMAIN plan /\ \A s \in DOMAIN plan : s = "rows" \/ s = "before"
    BY <2>1
  <2>3. ASSUME c.range = "today" PROVE plan["rows"].start = c.start /\ plan["rows"].end = c.end
    <3> DEFINE d == [c EXCEPT !.range = "today"]
    <3>1. /\ DOMAIN d = Fields /\ d.range = c.range /\ d.from = c.from /\ d.to = c.to
          /\ d.filter = c.filter /\ d.start = c.start /\ d.end = c.end
      BY <2>3 DEF ContractOK, Fields
    <3>2. plan["rows"] = buildAnalyticsFilter(d, n)
      BY <2>1
    <3> HIDE DEF d, plan
    <3>3. ContractOK(d, n) /\ Settled(d, n)
      BY <3>1 DEF ContractOK, Settled, Bounds
    <3> QED
      BY <3>1, <3>2, <3>3, AnalyticsAtOnce
  <2> HIDE DEF plan
  <2> QED
    BY <1>5, <2>2, <2>3 DEF PlannedAtOnce, Asked, plan
<1> QED
  BY <1>2, <1>3, <1>4, <1>5 DEF Endpoints, Dashboard, Analytics

-----------------------------------------------------------------------------
(* Steps                                                                     *)

\* One request moves on while the table and the hour stay.
LEMMA QuietMovesOn ==
  ASSUME IInv, QInv, NEW r \in Requests, NEW a, asks' = [asks EXCEPT ![r] = a],
         UNCHANGED <<orders, now>>, Settled(a.c, a.at), a.quiet => QuietOK(a, now)
  PROVE  QInv'
<1>1. \A q \in Requests : asks'[q] = IF q = r THEN a ELSE asks[q]
  BY DEF IInv, TypeOK
<1>2. \A i \in Ids : orders'[i] # None => Past(orders'[i], now')
  BY DEF QInv
<1>3. ASSUME NEW q \in Requests, asks'[q] # None
      PROVE  /\ Settled(asks'[q].c, asks'[q].at)
             /\ asks'[q].quiet => QuietOK(asks'[q], now)
  BY <1>1, <1>3 DEF QInv
<1>4. now' = now /\ orders' = orders
  OBVIOUS
<1> QED
  BY <1>2, <1>3, <1>4, SMTT(40) DEF QInv, QuietOK, buildDashboardWhere

\* After a disturbance no request is quiet.
LEMMA NoneIsQuiet ==
  ASSUME IInv, QInv, asks' = Disturbed(asks),
         \A i \in Ids : orders'[i] # None => Past(orders'[i], now')
  PROVE  QInv'
<1>1. ASSUME NEW r \in Requests, asks'[r] # None
      PROVE  Settled(asks'[r].c, asks'[r].at) /\ ~asks'[r].quiet
  <2>1. asks[r] # None /\ asks'[r] = [asks[r] EXCEPT !.quiet = FALSE]
    BY <1>1 DEF Disturbed
  <2>2. IsAsked(asks[r])
    BY <2>1 DEF IInv, TypeOK
  <2>3. asks'[r].c = asks[r].c /\ asks'[r].at = asks[r].at /\ asks'[r].quiet = FALSE
    BY <2>1, <2>2 DEF IsAsked
  <2> QED
    BY <2>1, <2>3 DEF QInv
<1> QED
  BY <1>1 DEF QInv

LEMMA PersistQuiet ==
  ASSUME IInv, QInv, NEW i \in Ids, Persist(i)
  PROVE  QInv'
<1>1. PICK o \in Rows :
        /\ {o.paid, o.placed} \subseteq 0..now \cup {None} /\ now' = now /\ asks' = Disturbed(asks)
        /\ orders' = [orders EXCEPT ![i] =
                        IF @ = None THEN [o EXCEPT !.kept = now] ELSE Updated(@, o)]
  BY DEF Persist
<1> DEFINE new == IF orders[i] = None THEN [o EXCEPT !.kept = now] ELSE Updated(orders[i], o)
<1>2. \A j \in Ids : orders'[j] = IF j = i THEN new ELSE orders[j]
  BY <1>1 DEF IInv, TypeOK
<1>3. Past(new, now)
  <2>1. o \in Row /\ now \in 0..now
    BY InputAssumption DEF IInv, TypeOK, Times
  <2>2. CASE orders[i] = None
    <3>1. new.paid = o.paid /\ new.placed = o.placed /\ new.kept = now
      BY <2>1, <2>2 DEF Row
    <3> HIDE DEF new
    <3> QED
      BY <1>1, <2>1, <3>1 DEF Past
  <2>3. CASE orders[i] # None
    <3>1. new.paid = o.paid /\ new.placed = orders[i].placed /\ new.kept = orders[i].kept
      BY <2>1, <2>3 DEF Row, Updated
    <3>2. Past(orders[i], now)
      BY <2>3 DEF QInv
    <3> HIDE DEF new
    <3> QED
      BY <1>1, <3>1, <3>2 DEF Past
  <2> QED
    BY <2>2, <2>3
<1> HIDE DEF new
<1>4. \A j \in Ids : orders'[j] # None => Past(orders'[j], now')
  BY <1>1, <1>2, <1>3 DEF QInv
<1> QED
  BY <1>1, <1>4, NoneIsQuiet

LEMMA TickQuiet ==
  ASSUME IInv, QInv, Tick
  PROVE  QInv'
<1>1. now \in Int /\ now' = now + 1 /\ asks' = Disturbed(asks) /\ orders' = orders
  BY TimeAssumption DEF Tick, IInv, TypeOK, Times
<1>2. 0..now \subseteq 0..now'
  BY <1>1
<1>3. \A i \in Ids : orders'[i] # None => Past(orders'[i], now')
  BY <1>1, <1>2 DEF QInv, Past
<1> QED
  BY <1>1, <1>3, NoneIsQuiet

LEMMA AskQuiet ==
  ASSUME IInv, QInv, NEW r \in Requests, Ask(r)
  PROVE  QInv'
<1>1. PICK q \in Queries : asks' = [asks EXCEPT ![r] =
         [e |-> q.endpoint, c |-> parseDashboardFilterQuery(q, now), at |-> now, step |-> "parsed",
          plan |-> <<>>, got |-> <<>>, derived |-> FALSE, quiet |-> TRUE]]
  BY DEF Ask
<1> DEFINE c == parseDashboardFilterQuery(q, now)
           a == [e |-> q.endpoint, c |-> c, at |-> now, step |-> "parsed",
                 plan |-> <<>>, got |-> <<>>, derived |-> FALSE, quiet |-> TRUE]
<1>2. q.range \in Ranges
  BY InputAssumption DEF Query
<1>3. Settled(c, now)
  BY <1>2, ParseSettles
<1> HIDE DEF c
<1>4. a.c = c /\ a.at = now /\ QuietOK(a, now)
  BY DEF QuietOK
<1>5. asks' = [asks EXCEPT ![r] = a] /\ UNCHANGED <<orders, now>>
  BY <1>1 DEF Ask, c
<1> HIDE DEF a
<1> QED
  BY <1>3, <1>4, <1>5, QuietMovesOn

LEMMA LoadQuiet ==
  ASSUME IInv, QInv, NEW r \in Requests, Load(r)
  PROVE  QInv'
<1> DEFINE a    == asks[r]
           plan == Plan(a.e, a.c, now)
           d    == a.e = "compareHour" /\ Derived(a.c, now)
           b    == [a EXCEPT !.step = "run", !.plan = plan,
                             !.got = [s \in DOMAIN plan |-> None], !.derived = d]
<1>1. /\ IsAsked(a) /\ AskOK(a, now) /\ a # None /\ now \in Int
      /\ Settled(a.c, a.at) /\ (a.quiet => now = a.at)
  BY TimeAssumption DEF Load, IInv, TypeOK, Times, QInv, QuietOK
<1>2. asks' = [asks EXCEPT ![r] = b] /\ UNCHANGED <<orders, now>>
  BY DEF Load
<1> HIDE DEF plan, d
<1>3. /\ b.e = a.e /\ b.c = a.c /\ b.at = a.at /\ b.step = "run" /\ b.plan = plan
      /\ b.got = [s \in DOMAIN plan |-> None] /\ b.derived = d /\ b.quiet = a.quiet
  BY <1>1 DEF IsAsked
<1> HIDE DEF b
<1>4. ASSUME a.quiet PROVE PlannedAtOnce(a.e, a.c, plan) /\ (a.e = "compareHour" => d)
  <2>1. ContractOK(a.c, now) /\ Settled(a.c, now) /\ a.e \in Endpoints
    BY <1>1, <1>4 DEF AskOK, IsAsked
  <2> QED
    BY <1>1, <2>1, PlanAtOnce, CompareAtOnce DEF plan, d
<1>5. b.quiet => QuietOK(b, now)
  BY <1>1, <1>3, <1>4 DEF QuietOK
<1> QED
  BY <1>1, <1>2, <1>3, <1>5, QuietMovesOn

LEMMA RunQuiet ==
  ASSUME IInv, QInv, NEW r \in Requests, NEW s \in Statements, Run(r, s)
  PROVE  QInv'
<1> DEFINE a    == asks[r]
           c    == IF s = "before" THEN Slice(a.c, a.plan[s]) ELSE a.c
           rows == buildDashboardWhere(c, a.plan[s])
           b    == [a EXCEPT !.got[s] = rows]
<1>1. IsAsked(a) /\ a # None /\ s \in DOMAIN a.got /\ Settled(a.c, a.at) /\ (a.quiet => QuietOK(a, now))
  BY DEF Run, IInv, TypeOK, QInv
<1>2. asks' = [asks EXCEPT ![r] = b] /\ UNCHANGED <<orders, now>>
  BY DEF Run
<1>3. s # "before" => rows = buildDashboardWhere(a.c, a.plan[s])
  OBVIOUS
<1> HIDE DEF c, rows
<1>4. /\ b.e = a.e /\ b.c = a.c /\ b.at = a.at /\ b.step = a.step
      /\ b.plan = a.plan /\ b.derived = a.derived /\ b.quiet = a.quiet
      /\ b.got = [a.got EXCEPT ![s] = rows]
  BY <1>1 DEF IsAsked
<1>5. DOMAIN b.got = DOMAIN a.got /\ \A x \in DOMAIN a.got : b.got[x] = IF x = s THEN rows ELSE a.got[x]
  BY <1>1, <1>4
<1> HIDE DEF b
<1>6. b.quiet => QuietOK(b, now)
  BY <1>1, <1>3, <1>4, <1>5 DEF QuietOK
<1> QED
  BY <1>1, <1>2, <1>4, <1>6, QuietMovesOn

\* A request that nothing disturbed never needs its totals anew.
LEMMA TotalsAreNotQuiet ==
  ASSUME QInv, NEW r \in Requests, AskTotals(r)
  PROVE  ~asks[r].quiet
  BY DEF AskTotals, NeedsTotals, QInv, QuietOK

LEMMA TotalsQuiet ==
  ASSUME IInv, QInv, NEW r \in Requests, AskTotals(r) \/ Answer(r)
  PROVE  QInv'
<1> DEFINE a == asks[r]
<1>1. IsAsked(a) /\ a # None /\ a.step = "run" /\ Settled(a.c, a.at) /\ (a.quiet => QuietOK(a, now))
  BY DEF AskTotals, Answer, IInv, TypeOK, QInv
<1>2. CASE AskTotals(r)
  <2> DEFINE t    == Totals(a.c, now)
             plan == [s \in DOMAIN t \cup DOMAIN a.plan |-> IF s \in DOMAIN t THEN t[s] ELSE a.plan[s]]
             got  == [s \in DOMAIN t \cup DOMAIN a.got |-> IF s \in DOMAIN t THEN None ELSE a.got[s]]
             b    == [a EXCEPT !.plan = plan, !.got = got]
  <2>1. asks' = [asks EXCEPT ![r] = b] /\ UNCHANGED <<orders, now>>
    BY <1>2 DEF AskTotals
  <2> HIDE DEF plan, got
  <2>2. b.c = a.c /\ b.at = a.at /\ b.quiet = a.quiet
    BY <1>1 DEF IsAsked
  <2> HIDE DEF b
  <2> QED
    BY <1>1, <1>2, <2>1, <2>2, TotalsAreNotQuiet, QuietMovesOn
<1>3. CASE Answer(r)
  <2> DEFINE b == [a EXCEPT !.step = "done"]
  <2>1. asks' = [asks EXCEPT ![r] = b] /\ UNCHANGED <<orders, now>>
    BY <1>3 DEF Answer
  <2>2. /\ b.e = a.e /\ b.c = a.c /\ b.at = a.at /\ b.step = "done"
        /\ b.plan = a.plan /\ b.got = a.got /\ b.derived = a.derived /\ b.quiet = a.quiet
    BY <1>1 DEF IsAsked
  <2> HIDE DEF b
  <2>3. b.quiet => QuietOK(b, now)
    BY <1>1, <2>2 DEF QuietOK
  <2> QED
    BY <1>1, <2>1, <2>2, <2>3, QuietMovesOn
<1> QED
  BY <1>2, <1>3

LEMMA StutterQuiet ==
  ASSUME QInv, UNCHANGED vars
  PROVE  QInv'
  BY DEF QInv, vars, QuietOK, buildDashboardWhere

LEMMA QuietNext == IInv /\ QInv /\ [Next]_vars => QInv'
<1> SUFFICES ASSUME IInv, QInv, [Next]_vars PROVE QInv'
  OBVIOUS
<1>1. ASSUME NEW i \in Ids, Persist(i) PROVE QInv'
  BY <1>1, PersistQuiet
<1>2. ASSUME NEW r \in Requests, Ask(r) \/ Load(r) \/ AskTotals(r) \/ Answer(r) PROVE QInv'
  BY <1>2, AskQuiet, LoadQuiet, TotalsQuiet
<1>3. ASSUME NEW r \in Requests, NEW s \in Statements, Run(r, s) PROVE QInv'
  BY <1>3, RunQuiet
<1> QED
  BY <1>1, <1>2, <1>3, TickQuiet, StutterQuiet DEF Next

\* What is said of quiet requests holds, too.
THEOREM QuietInvariant == Spec => [](IInv /\ QInv)
<1>1. Init => IInv /\ QInv
  <2>1. Init => QInv
    BY DEF Init, QInv
  <2> QED
    BY <2>1, InitOK
<1>2. IInv /\ QInv /\ [Next]_vars => IInv' /\ QInv'
  BY NextOK, QuietNext
<1> QED
  BY <1>1, <1>2, PTL DEF Spec

-----------------------------------------------------------------------------
(* Days that are promised, and windows that are read                         *)

LEMMA HoursOfDay ==
  ASSUME NEW x \in Int, NEW d \in Int
  PROVE  /\ DayStart(d) \in Int /\ DayEnd(d) \in Int
         /\ DayStart(d) <= x <=> d <= Day(x)
         /\ x <= DayEnd(d) <=> Day(x) <= d
<1>1. DayLen \in Nat \ {0}
  BY TimeAssumption
<1>2. /\ Day(x) \in Int /\ Day(x) * DayLen <= x /\ x < Day(x) * DayLen + DayLen
  BY Division DEF DayStart
<1>3. \A e, f \in Int : e <= f => e * DayLen <= f * DayLen
  BY <1>1
<1>4. d * DayLen \in Int /\ Day(x) * DayLen \in Int
  BY <1>1, <1>2
<1>5. d <= Day(x) => d * DayLen <= x
  <2>1. d <= Day(x) => d * DayLen <= Day(x) * DayLen
    BY <1>2, <1>3
  <2> QED
    BY <1>2, <1>4, <2>1
<1>6. ~(d <= Day(x)) => x < d * DayLen
  <2>1. ~(d <= Day(x)) => Day(x) + 1 <= d
    BY <1>2
  <2>2. ~(d <= Day(x)) => (Day(x) + 1) * DayLen <= d * DayLen
    BY <1>2, <1>3, <2>1
  <2>3. (Day(x) + 1) * DayLen = Day(x) * DayLen + DayLen
    BY <1>1, <1>2
  <2> QED
    BY <1>1, <1>2, <1>4, <2>2, <2>3
<1>7. Day(x) <= d => x <= d * DayLen + DayLen - 1
  <2>1. Day(x) <= d => Day(x) * DayLen <= d * DayLen
    BY <1>2, <1>3
  <2> QED
    BY <1>1, <1>2, <1>4, <2>1
<1>8. ~(Day(x) <= d) => d * DayLen + DayLen <= x
  <2>1. ~(Day(x) <= d) => d + 1 <= Day(x)
    BY <1>2
  <2>2. ~(Day(x) <= d) => (d + 1) * DayLen <= Day(x) * DayLen
    BY <1>2, <1>3, <2>1
  <2>3. (d + 1) * DayLen = d * DayLen + DayLen
    BY <1>1
  <2> QED
    BY <1>1, <1>2, <1>4, <2>2, <2>3
<1> QED
  BY <1>1, <1>2, <1>4, <1>5, <1>6, <1>7, <1>8 DEF DayStart, DayEnd

LEMMA StartBeforeEnd ==
  ASSUME NEW d \in Int, NEW e \in Int, d <= e
  PROVE  DayStart(d) <= DayEnd(e)
<1>1. DayLen \in Nat \ {0}
  BY TimeAssumption
<1>2. d * DayLen \in Int /\ e * DayLen \in Int /\ d * DayLen <= e * DayLen
  BY <1>1
<1> QED
  BY <1>1, <1>2 DEF DayStart, DayEnd

\* getTimeRangeBounds against the days a range stands for: an hour until now lies
\* in the contract's window exactly when its day is one of them, for any length
\* of day, week and month and any dates in order.
THEOREM PromisedWindow ==
  ASSUME NEW c, NEW n \in Int, ContractOK(c, n), Settled(c, n), c.range = "custom" => c.from <= c.to,
         NEW x \in Int, x <= n
  PROVE  x \in c.start..c.end <=> Day(x) \in PromisedDays(c, n)
<1>1. /\ Day(n) \in Int /\ Day(x) \in Int /\ DayLen \in Nat \ {0}
      /\ WeekDays \in Nat \ {0} /\ MonthDays \in Nat \ {0}
      /\ c.start \in Int /\ c.end \in Int /\ c.from \in Nat /\ c.to \in Nat
  BY TimeAssumption, Division DEF ContractOK
<1>0. \A y, d \in Int : /\ DayStart(d) \in Int
                        /\ DayEnd(d) \in Int
                        /\ (DayStart(d) <= y) = (d <= Day(y))
                        /\ (y <= DayEnd(d)) = (Day(y) <= d)
  <2> TAKE y, d \in Int
  <2> QED
    BY HoursOfDay
<1>2. Day(x) <= Day(n)
  <2>1. n <= DayEnd(Day(n)) <=> Day(n) <= Day(n)
    BY <1>1, HoursOfDay
  <2>2. x <= DayEnd(Day(n)) /\ (x <= DayEnd(Day(n)) <=> Day(x) <= Day(n))
    BY <1>1, <2>1, HoursOfDay, SMTT(30)
  <2> QED
    BY <2>2
<1>3. CASE c.range = "today"
  <2>1. c.start = DayStart(Day(n)) /\ c.end = n
    BY <1>3 DEF ContractOK
  <2>2. DayStart(Day(n)) <= x <=> Day(n) <= Day(x)
    BY <1>1, HoursOfDay
  <2>3. PromisedDays(c, n) = {Day(n)}
    BY <1>3 DEF PromisedDays
  <2> QED
    BY <1>1, <1>2, <2>1, <2>2, <2>3
<1>4. CASE c.range = "yesterday"
  <2>1. c.start = DayStart(Day(n) - 1) /\ c.end = DayEnd(Day(n) - 1)
    BY <1>4 DEF Settled, Bounds, getTimeRangeBounds
  <2>2. /\ DayStart(Day(n) - 1) <= x <=> Day(n) - 1 <= Day(x)
        /\ x <= DayEnd(Day(n) - 1) <=> Day(x) <= Day(n) - 1
    <3>1. Day(n) - 1 \in Int
      BY <1>1
    <3> QED
      BY <1>0, <3>1
  <2>3. PromisedDays(c, n) = {Day(n) - 1}
    BY <1>4 DEF PromisedDays
  <2> QED
    BY <1>1, <2>1, <2>2, <2>3
<1>5. ASSUME NEW days \in Nat \ {0}, c.start = DayStart(Day(n) - (days - 1)), c.end = n,
             PromisedDays(c, n) = (Day(n) - days + 1)..Day(n)
      PROVE  x \in c.start..c.end <=> Day(x) \in PromisedDays(c, n)
  <2>1. DayStart(Day(n) - (days - 1)) <= x <=> Day(n) - (days - 1) <= Day(x)
    <3>1. Day(n) - (days - 1) \in Int
      BY <1>1
    <3> QED
      BY <1>0, <3>1
  <2> QED
    BY <1>1, <1>2, <1>5, <2>1
<1>6. CASE c.range = "last7"
  <2>1. c.start = DayStart(Day(n) - (WeekDays - 1)) /\ c.end = n
    BY <1>6 DEF Settled, Bounds, getTimeRangeBounds
  <2>2. PromisedDays(c, n) = (Day(n) - WeekDays + 1)..Day(n)
    BY <1>6 DEF PromisedDays
  <2> QED
    BY <1>1, <1>5, <2>1, <2>2
<1>7. CASE c.range = "last30"
  <2>1. c.start = DayStart(Day(n) - (MonthDays - 1)) /\ c.end = n
    BY <1>7 DEF Settled, Bounds, getTimeRangeBounds
  <2>2. PromisedDays(c, n) = (Day(n) - MonthDays + 1)..Day(n)
    BY <1>7 DEF PromisedDays
  <2> QED
    BY <1>1, <1>5, <2>1, <2>2
<1>8. CASE c.range = "custom"
  <2> DEFINE first == DayStart(c.from)
             last  == DayEnd(c.to)
             low   == Least(first, last)
             high  == first + last - low
  <2>1. /\ first \in Int /\ last \in Int
        /\ first <= x <=> c.from <= Day(x)
        /\ x <= last <=> Day(x) <= c.to
    <3>1. c.from \in Int /\ c.to \in Int
      BY <1>1
    <3> QED
      BY <1>0, <3>1
  <2>2. first <= last
    BY <1>1, <1>8, StartBeforeEnd
  <2> HIDE DEF first, last
  <2>3. low = first /\ high = last
    BY <2>1, <2>2 DEF Least
  <2>4. c.start = low /\ c.end = Least(high, n)
    <3>1. Bounds(c, n) \in {[range |-> "today", start |-> DayStart(Day(n)), end |-> n],
                            [range |-> "custom", start |-> low, end |-> Least(high, n)]}
      BY <1>8 DEF Bounds, getTimeRangeBounds, first, last
    <3>2. Bounds(c, n).range = "custom" /\ c.start = Bounds(c, n).start /\ c.end = Bounds(c, n).end
      BY <1>8 DEF Settled
    <3> HIDE DEF low, high
    <3> QED
      BY <3>1, <3>2
  <2>5. PromisedDays(c, n) = c.from..c.to
    BY <1>8 DEF PromisedDays
  <2> HIDE DEF low, high
  <2> QED
    BY <1>1, <2>1, <2>3, <2>4, <2>5 DEF Least
<1> QED
  BY <1>3, <1>4, <1>6, <1>7, <1>8 DEF ContractOK, Ranges

\* The three branches of the WHERE ask for the event time.
LEMMA BranchesAreEventTime ==
  ASSUME NEW o \in Row, NEW w
  PROVE  buildIndexFriendlyEventTimeWhere(o, w) <=> orderAnalyticsEventTime(o) \in w.start..w.end
  BY DEF buildIndexFriendlyEventTimeWhere, orderAnalyticsEventTime

LEMMA EventTimeIsPast ==
  ASSUME NEW o \in Row, NEW n \in Int, Past(o, n)
  PROVE  orderAnalyticsEventTime(o) \in Int /\ orderAnalyticsEventTime(o) <= n
  BY DEF Past, orderAnalyticsEventTime

\* What a statement of an undisturbed request has read is what is promised.
LEMMA ReadsPromised ==
  ASSUME IInv, QInv, NEW r \in Requests, Done(r, Endpoints), asks[r].quiet,
         asks[r].c.range = "custom" => asks[r].c.from <= asks[r].c.to,
         NEW s \in DOMAIN asks[r].got, Asked(asks[r].e, asks[r].c, s)
  PROVE  asks[r].got[s] = Promised(asks[r])
<1> DEFINE a == asks[r]
           w == a.plan[s]
           c == a.c
<1>1. /\ a # None /\ a.step = "done" /\ IsAsked(a) /\ AskOK(a, now) /\ QuietOK(a, now) /\ Settled(c, a.at)
      /\ now = a.at /\ now \in Int
  BY TimeAssumption DEF Done, IInv, TypeOK, Times, QInv, QuietOK
<1>2. ContractOK(c, now) /\ Settled(c, now) /\ a.got[s] # None /\ s # "before"
  BY <1>1 DEF AskOK, Asked
<1>3. w.start = c.start /\ w.end = c.end /\ a.got[s] = buildDashboardWhere(c, w)
  BY <1>1, <1>2 DEF QuietOK, PlannedAtOnce, IsAsked
<1> HIDE DEF w
<1>4. ASSUME NEW j \in Ids, orders[j] # None
      PROVE  buildIndexFriendlyEventTimeWhere(orders[j], w)
               <=> Day(orderAnalyticsEventTime(orders[j])) \in PromisedDays(c, now)
  <2> DEFINE x == orderAnalyticsEventTime(orders[j])
  <2>1. orders[j] \in Row /\ Past(orders[j], now)
    BY <1>4 DEF IInv, TypeOK, QInv
  <2>2. x \in Int /\ x <= now
    BY <1>1, <2>1, EventTimeIsPast
  <2>3. buildIndexFriendlyEventTimeWhere(orders[j], w) <=> x \in c.start..c.end
    BY <1>3, <2>1, BranchesAreEventTime
  <2> HIDE DEF x
  <2>4. x \in c.start..c.end <=> Day(x) \in PromisedDays(c, now)
    BY <1>1, <1>2, <2>2, PromisedWindow
  <2> QED
    BY <2>3, <2>4 DEF x
<1> DEFINE A == {j \in Ids : /\ orders[j] # None
                             /\ buildIndexFriendlyEventTimeWhere(orders[j], w)
                             /\ c.shop \in {AllShops, orders[j].shop}
                             /\ mysqlDashboardOrdersFilterClause(orders[j], c.filter)}
           B == {j \in Ids : /\ orders[j] # None
                             /\ Day(orderAnalyticsEventTime(orders[j])) \in PromisedDays(c, now)
                             /\ c.shop \in {AllShops, orders[j].shop}
                             /\ mysqlDashboardOrdersFilterClause(orders[j], c.filter)}
<1>5. A = B
  BY <1>4
<1>6. buildDashboardWhere(c, w) = [i \in A |-> orders[i]]
  BY DEF buildDashboardWhere
<1>7. Promised(a) = [i \in B |-> orders[i]]
  BY <1>1 DEF Promised
<1> HIDE DEF A, B
<1> QED
  BY <1>3, <1>5, <1>6, <1>7

-----------------------------------------------------------------------------
(* Counts and sums                                                           *)

RowsAre(rows) == DOMAIN rows \subseteq Ids /\ \A i \in DOMAIN rows : rows[i] \in Row

LEMMA PromisedRows ==
  ASSUME IInv, NEW a
  PROVE  RowsAre(Promised(a))
  BY DEF RowsAre, Promised, IInv, TypeOK

LEMMA FiniteRows ==
  ASSUME NEW rows, RowsAre(rows)
  PROVE  IsFiniteSet(DOMAIN rows) /\ dashboardOrderCount(rows) \in Nat
  BY InputAssumption, FS_Subset, FS_CardinalityType DEF RowsAre, dashboardOrderCount

\* What each row counts for.
Money(rows, f) == [i \in DOMAIN rows |-> dashboardGmvNative(rows[i], f)]

LEMMA GmvIsSum ==
  ASSUME NEW rows, NEW f
  PROVE  dashboardGmvSum(rows, f) = SumFunctionOnSet(Money(rows, f), DOMAIN rows)
  BY DEF dashboardGmvSum, Money, SumFunctionOnSet, FoldFunctionOnSet, MapThenFoldSet, MapThenSumSet

LEMMA MoneyIsNat ==
  ASSUME NEW rows, RowsAre(rows), NEW f
  PROVE  \A i \in DOMAIN rows : Money(rows, f)[i] \in Nat
  BY DEF Money, dashboardGmvNative, RowsAre, Row

\* The repair finds nothing to do when both statements read the same.
LEMMA NothingToRepair ==
  ASSUME NEW rows, RowsAre(rows), NEW f
  PROVE  LET pack == [orders |-> dashboardOrderCount(rows), gmv |-> dashboardGmvSum(rows, f)]
         IN enforceTodayMetricsInvariant(pack) = pack
<1>1. CASE dashboardOrderCount(rows) = 0
  <2>1. DOMAIN rows = {}
    BY <1>1, FiniteRows, FS_EmptySet DEF dashboardOrderCount
  <2>2. dashboardGmvSum(rows, f) = 0
    BY <2>1, GmvIsSum, SumOfNone
  <2> QED
    BY <1>1, <2>2 DEF enforceTodayMetricsInvariant
<1>2. CASE dashboardOrderCount(rows) # 0
  BY <1>2 DEF enforceTodayMetricsInvariant
<1> QED
  BY <1>1, <1>2

Plain == {"valid", "unpaid", "paid"}

\* Where no order counts for nothing, analytics adds up the same amounts.
LEMMA PlainMoney ==
  ASSUME NEW rows, NEW f \in Plain
  PROVE  /\ aggregateGmvUsdFromOrderRows(rows).orders = dashboardOrderCount(rows)
         /\ aggregateGmvUsdFromOrderRows(rows).gmv = dashboardGmvSum(rows, f)
<1> DEFINE amounts == [i \in DOMAIN rows |-> rows[i].amount]
<1>1. aggregateGmvUsdFromOrderRows(rows).gmv = SumFunctionOnSet(amounts, DOMAIN rows)
  <2>1. aggregateGmvUsdFromOrderRows(rows).gmv = MapThenSumSet(LAMBDA i : rows[i].amount, DOMAIN rows)
    BY DEF aggregateGmvUsdFromOrderRows
  <2>2. MapThenSumSet(LAMBDA i : rows[i].amount, DOMAIN rows) = SumFunctionOnSet(amounts, DOMAIN rows)
    BY DEF SumFunctionOnSet, FoldFunctionOnSet, MapThenFoldSet, MapThenSumSet
  <2> QED
    BY <2>1, <2>2
<1>2. \A i \in DOMAIN rows : amounts[i] = Money(rows, f)[i]
  BY DEF Money, dashboardGmvNative, Plain
<1> HIDE DEF amounts
<1>3. SumFunctionOnSet(amounts, DOMAIN rows) = SumFunctionOnSet(Money(rows, f), DOMAIN rows)
  BY <1>2, SameSum
<1>4. aggregateGmvUsdFromOrderRows(rows).orders = dashboardOrderCount(rows)
  BY DEF aggregateGmvUsdFromOrderRows, dashboardOrderCount
<1> QED
  BY <1>1, <1>3, <1>4, GmvIsSum

\* Every order is of one shop: the lines of the ranking add up to the totals.
LEMMA ShopsAddUp ==
  ASSUME NEW rows, RowsAre(rows), NEW f
  PROVE  /\ SumFunctionOnSet([s \in Shops |-> dashboardOrderCount(OfShop(rows, s))], Shops)
              = dashboardOrderCount(rows)
         /\ SumFunctionOnSet([s \in Shops |-> dashboardGmvSum(OfShop(rows, s), f)], Shops)
              = dashboardGmvSum(rows, f)
         /\ \A s \in Shops : RowsAre(OfShop(rows, s))
<1> DEFINE D    == DOMAIN rows
           shop == [i \in D |-> rows[i].shop]
           ones == [i \in D |-> 1]
           In(s) == {i \in D : shop[i] = s}
<1>1. IsFiniteSet(D) /\ IsFiniteSet(Shops)
  BY FiniteRows, InputAssumption
<1>2. \A i \in D : shop[i] \in Shops /\ ones[i] \in Nat /\ Money(rows, f)[i] \in Nat
  BY MoneyIsNat DEF RowsAre, Row
<1>3. ASSUME NEW s \in Shops
      PROVE  /\ DOMAIN OfShop(rows, s) = In(s)
             /\ \A i \in In(s) : OfShop(rows, s)[i] = rows[i]
  BY DEF OfShop
<1>4. \A s \in Shops : RowsAre(OfShop(rows, s))
  BY <1>3 DEF RowsAre
<1>5. \A s \in Shops : dashboardOrderCount(OfShop(rows, s)) = SumFunctionOnSet(ones, In(s))
  <2> SUFFICES ASSUME NEW s \in Shops PROVE Cardinality(In(s)) = SumFunctionOnSet(ones, In(s))
    BY <1>3 DEF dashboardOrderCount
  <2>1. IsFiniteSet(In(s)) /\ \A i \in In(s) : ones[i] = 1
    BY <1>1, FS_Subset
  <2> HIDE DEF ones, In
  <2> QED
    BY <2>1, SumOfOnes
<1>6. \A s \in Shops : dashboardGmvSum(OfShop(rows, s), f) = SumFunctionOnSet(Money(rows, f), In(s))
  <2> SUFFICES ASSUME NEW s \in Shops
               PROVE  dashboardGmvSum(OfShop(rows, s), f) = SumFunctionOnSet(Money(rows, f), In(s))
    OBVIOUS
  <2>1. \A i \in In(s) : Money(OfShop(rows, s), f)[i] = Money(rows, f)[i]
    BY <1>3 DEF Money
  <2>2. dashboardGmvSum(OfShop(rows, s), f) = SumFunctionOnSet(Money(OfShop(rows, s), f), In(s))
    BY <1>3, GmvIsSum
  <2> HIDE DEF In
  <2>3. SumFunctionOnSet(Money(OfShop(rows, s), f), In(s)) = SumFunctionOnSet(Money(rows, f), In(s))
    BY <2>1, SameSum
  <2> QED
    BY <2>2, <2>3
<1>7. SumFunctionOnSet([s \in Shops |-> SumFunctionOnSet(ones, In(s))], Shops) = SumFunctionOnSet(ones, D)
  <2> HIDE DEF shop, ones, D
  <2> QED
    BY <1>1, <1>2, SumByParts
<1>8. SumFunctionOnSet([s \in Shops |-> SumFunctionOnSet(Money(rows, f), In(s))], Shops)
        = SumFunctionOnSet(Money(rows, f), D)
  <2> HIDE DEF shop, ones, D
  <2> QED
    BY <1>1, <1>2, SumByParts
<1>9. SumFunctionOnSet(ones, D) = dashboardOrderCount(rows)
  <2>1. \A i \in D : ones[i] = 1
    OBVIOUS
  <2> HIDE DEF ones
  <2> QED
    BY <1>1, <2>1, SumOfOnes DEF dashboardOrderCount
<1> HIDE DEF In, ones
<1>10. /\ [s \in Shops |-> dashboardOrderCount(OfShop(rows, s))] = [s \in Shops |-> SumFunctionOnSet(ones, In(s))]
       /\ [s \in Shops |-> dashboardGmvSum(OfShop(rows, s), f)] = [s \in Shops |-> SumFunctionOnSet(Money(rows, f), In(s))]
  BY <1>5, <1>6
<1> QED
  BY <1>4, <1>7, <1>8, <1>9, <1>10, GmvIsSum

-----------------------------------------------------------------------------
(* The answers of undisturbed requests                                       *)

\* A request of which QuietAnswersAgree says something.
InQuiet(r) ==
  /\ Done(r, Endpoints) /\ asks[r].quiet
  /\ asks[r].c.range = "custom" => asks[r].c.from <= asks[r].c.to

LEMMA QuietRead ==
  ASSUME IInv, QInv, NEW r \in Requests, InQuiet(r)
  PROVE  LET a == asks[r] IN
         /\ IsAsked(a) /\ AskOK(a, now) /\ a.at = now
         /\ a.e = "compareHour" => a.derived
         /\ a.e \in {"summary", "compareDay"} =>
              {"count", "money"} \subseteq DOMAIN a.got \/ "both" \in DOMAIN a.got
         /\ a.e = "ranking" => {"count", "money"} \subseteq DOMAIN a.got
         /\ a.e \in {"trend", "topShops", "shopTrend"} => "both" \in DOMAIN a.got
         /\ a.e \in {"compareHour", "analyticsCompare"} => "rows" \in DOMAIN a.got
         /\ \A s \in DOMAIN a.got : Asked(a.e, a.c, s) => a.got[s] = Promised(a)
         /\ RowsAre(Promised(a))
<1> DEFINE a == asks[r]
<1>1. /\ a # None /\ a.step = "done" /\ IsAsked(a) /\ AskOK(a, now) /\ QuietOK(a, now)
  BY DEF InQuiet, Done, IInv, TypeOK, QInv
<1>2. PlannedAtOnce(a.e, a.c, a.plan) /\ a.at = now /\ (a.e = "compareHour" => a.derived)
  BY <1>1 DEF QuietOK
<1>3. DOMAIN a.plan = DOMAIN a.got
  BY <1>1 DEF IsAsked
<1>4. \A s \in DOMAIN a.got : Asked(a.e, a.c, s) => a.got[s] = Promised(a)
  BY ReadsPromised DEF InQuiet
<1> QED
  BY <1>1, <1>2, <1>3, <1>4, PromisedRows DEF PlannedAtOnce

\* One statement or two: the totals are those of the promised rows.
LEMMA QuietTotals ==
  ASSUME IInv, QInv, NEW r \in Requests, InQuiet(r), asks[r].e \in {"summary", "trend", "compareDay"}
  PROVE  TotalsAnswer(asks[r]) = BothOf(Promised(asks[r]), asks[r].c.filter)
<1> DEFINE a == asks[r]
           P == Promised(a)
<1>1. RowsAre(P) /\ \A s \in DOMAIN a.got : s # "before" => a.got[s] = P
  BY QuietRead DEF Asked
<1>2. {"count", "money"} \subseteq DOMAIN a.got \/ "both" \in DOMAIN a.got
  BY QuietRead
<1> HIDE DEF P
<1>3. "both" \in DOMAIN a.got => TotalsAnswer(a) = BothOf(P, a.c.filter)
  BY <1>1 DEF TotalsAnswer
<1>4. ASSUME "both" \notin DOMAIN a.got PROVE TotalsAnswer(a) = BothOf(P, a.c.filter)
  <2>1. a.got["count"] = P /\ a.got["money"] = P
    BY <1>1, <1>2, <1>4
  <2>2. TotalsAnswer(a) = enforceTodayMetricsInvariant(
          [orders |-> dashboardOrderCount(P), gmv |-> dashboardGmvSum(P, a.c.filter)])
    BY <1>4, <2>1 DEF TotalsAnswer
  <2> QED
    BY <1>1, <2>2, NothingToRepair DEF BothOf
<1> QED
  BY <1>3, <1>4 DEF P

LEMMA LinesAreSums ==
  ASSUME NEW lines, NEW D
  PROVE  /\ MapThenSumSet(LAMBDA s : lines[s].orders, D) = SumFunctionOnSet([s \in D |-> lines[s].orders], D)
         /\ MapThenSumSet(LAMBDA s : lines[s].gmv, D) = SumFunctionOnSet([s \in D |-> lines[s].gmv], D)
<1>1. MapThenSumSet(LAMBDA s : lines[s].orders, D) = SumFunctionOnSet([s \in D |-> lines[s].orders], D)
  BY DEF SumFunctionOnSet, FoldFunctionOnSet, MapThenFoldSet, MapThenSumSet
<1>2. MapThenSumSet(LAMBDA s : lines[s].gmv, D) = SumFunctionOnSet([s \in D |-> lines[s].gmv], D)
  BY DEF SumFunctionOnSet, FoldFunctionOnSet, MapThenFoldSet, MapThenSumSet
<1> QED
  BY <1>1, <1>2

\* The lines of the ranking add up to the same totals.
LEMMA QuietRanking ==
  ASSUME IInv, QInv, NEW r \in Requests, InQuiet(r), asks[r].e = "ranking"
  PROVE  LET a == asks[r]
             want == BothOf(Promised(a), a.c.filter)
         IN /\ MapThenSumSet(LAMBDA s : RankingAnswer(a)[s].orders, Shops) = want.orders
            /\ MapThenSumSet(LAMBDA s : RankingAnswer(a)[s].gmv, Shops) = want.gmv
<1> DEFINE a == asks[r]
           f == a.c.filter
           P == Promised(a)
           count == [s \in Shops |-> dashboardOrderCount(OfShop(P, s))]
           money == [s \in Shops |-> dashboardGmvSum(OfShop(P, s), f)]
<1>1. RowsAre(P) /\ a.got["count"] = P /\ a.got["money"] = P
  BY QuietRead DEF Asked
<1> HIDE DEF P
<1>2. ASSUME NEW s \in Shops
      PROVE  RankingAnswer(a)[s].orders = count[s] /\ RankingAnswer(a)[s].gmv = money[s]
  <2> DEFINE Q    == OfShop(P, s)
             pack == [orders |-> dashboardOrderCount(Q), gmv |-> dashboardGmvSum(Q, f)]
  <2>1. RankingAnswer(a)[s] = IF a.c.range = "today" THEN enforceTodayMetricsInvariant(pack) ELSE pack
    BY <1>1 DEF RankingAnswer
  <2>2. enforceTodayMetricsInvariant(pack) = pack
    BY <1>1, ShopsAddUp, NothingToRepair
  <2>3. RankingAnswer(a)[s] = pack
    BY <2>1, <2>2
  <2> QED
    BY <2>3
<1>3. /\ MapThenSumSet(LAMBDA s : RankingAnswer(a)[s].orders, Shops)
           = SumFunctionOnSet([s \in Shops |-> RankingAnswer(a)[s].orders], Shops)
      /\ MapThenSumSet(LAMBDA s : RankingAnswer(a)[s].gmv, Shops)
           = SumFunctionOnSet([s \in Shops |-> RankingAnswer(a)[s].gmv], Shops)
  BY LinesAreSums
<1>5. /\ [s \in Shops |-> RankingAnswer(a)[s].orders] = count
      /\ [s \in Shops |-> RankingAnswer(a)[s].gmv] = money
  BY <1>2
<1>6. /\ SumFunctionOnSet(count, Shops) = dashboardOrderCount(P)
      /\ SumFunctionOnSet(money, Shops) = dashboardGmvSum(P, f)
  BY <1>1, ShopsAddUp
<1> HIDE DEF count, money
<1> QED
  BY <1>3, <1>5, <1>6 DEF BothOf, P

\* Analytics and the hourly comparison count the same, and add up the same
\* where no order counts for nothing.
LEMMA QuietRows ==
  ASSUME IInv, QInv, NEW r \in Requests, InQuiet(r),
         NEW s, s = IF asks[r].e = "compareHour" THEN "rows" ELSE "both",
         asks[r].e \in {"topShops", "shopTrend", "compareHour"}
  PROVE  LET a    == asks[r]
             want == BothOf(Promised(a), a.c.filter)
             sum  == aggregateGmvUsdFromOrderRows(a.got[s])
         IN sum.orders = want.orders /\ (a.c.filter \in Plain => sum.gmv = want.gmv /\ sum = want)
<1> DEFINE a == asks[r]
           P == Promised(a)
           f == a.c.filter
<1>1. a.got[s] = P
  BY QuietRead DEF Asked
<1> HIDE DEF P
<1>2. aggregateGmvUsdFromOrderRows(P).orders = dashboardOrderCount(P)
  BY DEF aggregateGmvUsdFromOrderRows, dashboardOrderCount
<1>3. f \in Plain => aggregateGmvUsdFromOrderRows(P).gmv = dashboardGmvSum(P, f)
  BY PlainMoney
<1>4. aggregateGmvUsdFromOrderRows(P) =
        [orders |-> aggregateGmvUsdFromOrderRows(P).orders, gmv |-> aggregateGmvUsdFromOrderRows(P).gmv]
  BY DEF aggregateGmvUsdFromOrderRows
<1> QED
  BY <1>1, <1>2, <1>3, <1>4 DEF BothOf, P

\* The comparison of analytics drops none of the rows it has read.
LEMMA QuietHalf ==
  ASSUME IInv, QInv, NEW r \in Requests, InQuiet(r),
         asks[r].e = "analyticsCompare", asks[r].c.range = "today"
  PROVE  LET a    == asks[r]
             want == BothOf(Promised(a), a.c.filter)
         IN /\ AnalyticsHalf(a, "today").orders = want.orders
            /\ a.c.filter \in Plain => AnalyticsHalf(a, "today").gmv = want.gmv
<1> DEFINE a == asks[r]
           c == a.c
           P == Promised(a)
           d == [c EXCEPT !.range = "today"]
           w == computeCompareWindows(d, TRUE, a.at)["today"]
           K == {j \in DOMAIN P : orderAnalyticsEventTime(P[j]) \in w.start..w.end}
<1>1. a.got["rows"] = P /\ RowsAre(P) /\ "rows" \in DOMAIN a.got /\ IsAsked(a) /\ AskOK(a, now)
  BY QuietRead DEF Asked
<1>2. d.range = "today"
  BY <1>1 DEF AskOK, ContractOK, Fields
<1>3. w.start = DayStart(Day(a.at)) /\ w.end = a.at
  BY <1>2 DEF computeCompareWindows
<1>4. /\ QInv /\ a # None /\ a.quiet /\ a.step = "done" /\ a.got["rows"] # None
  BY <1>1 DEF InQuiet, Done, AskOK
<1>5. PlannedAtOnce(a.e, c, a.plan) /\ "rows" \in DOMAIN a.plan
  BY <1>1, <1>4 DEF QInv, QuietOK, IsAsked
<1>6. a.plan["rows"].start = c.start /\ a.plan["rows"].end = c.end
  BY <1>5 DEF PlannedAtOnce, Asked
<1>7. c.start = DayStart(Day(a.at)) /\ c.end = a.at
  BY <1>1 DEF AskOK, ContractOK
<1>8. GotOK(P, a.plan["rows"])
  BY <1>1, <1>4 DEF AskOK
<1>9. AnalyticsHalf(a, "today") = aggregateGmvUsdFromOrderRows([i \in K |-> P[i]])
  BY <1>1 DEF AnalyticsHalf, aggregateMysqlHourWindow
<1>10. K = DOMAIN P
  <2> HIDE DEF P, w
  <2> QED
    BY <1>3, <1>6, <1>7, <1>8 DEF GotOK
<1>11. [i \in DOMAIN P |-> P[i]] = P
  BY DEF Promised
<1>12. AnalyticsHalf(a, "today") = aggregateGmvUsdFromOrderRows(P)
  <2> HIDE DEF P, K
  <2> QED
    BY <1>9, <1>10, <1>11
<1> HIDE DEF P
<1>13. aggregateGmvUsdFromOrderRows(P).orders = dashboardOrderCount(P)
  BY DEF aggregateGmvUsdFromOrderRows, dashboardOrderCount
<1>14. c.filter \in Plain => aggregateGmvUsdFromOrderRows(P).gmv = dashboardGmvSum(P, c.filter)
  BY PlainMoney
<1> QED
  BY <1>12, <1>13, <1>14 DEF BothOf, P

\* QuietAnswersAgree for any orders and any windows: summary, trend, ranking,
\* comparison and analytics, each with its own statements and additions, tell
\* the same of the days that the documents promise.
THEOREM EndpointsTellTheSame == Spec => []QuietAnswersAgree
<1>1. ASSUME IInv, QInv PROVE QuietAnswersAgree
  <2> SUFFICES ASSUME NEW r \in Requests, InQuiet(r)
               PROVE  LET a == asks[r]
                          want == BothOf(Promised(a), a.c.filter)
                          plain == a.c.filter \in {"valid", "unpaid", "paid"} IN
      /\ a.e \in {"summary", "trend", "compareDay"} => TotalsAnswer(a) = want
      /\ a.e = "ranking" =>
           /\ MapThenSumSet(LAMBDA s : RankingAnswer(a)[s].orders, Shops) = want.orders
           /\ MapThenSumSet(LAMBDA s : RankingAnswer(a)[s].gmv, Shops) = want.gmv
      /\ a.e \in {"topShops", "shopTrend"} =>
           LET sum == aggregateGmvUsdFromOrderRows(a.got["both"])
           IN sum.orders = want.orders /\ (plain => sum.gmv = want.gmv)
      /\ a.e = "compareHour" =>
           CompareToday(a).orders = want.orders /\ (plain => CompareToday(a) = want)
      /\ a.e = "analyticsCompare" /\ a.c.range = "today" =>
           /\ AnalyticsHalf(a, "today").orders = want.orders
           /\ plain => AnalyticsHalf(a, "today").gmv = want.gmv
    BY DEF QuietAnswersAgree, InQuiet
  <2> DEFINE a     == asks[r]
             want  == BothOf(Promised(a), a.c.filter)
             plain == a.c.filter \in Plain
  <2>1. a.e \in {"summary", "trend", "compareDay"} => TotalsAnswer(a) = want
    BY <1>1, QuietTotals
  <2>2. a.e = "ranking" =>
          /\ MapThenSumSet(LAMBDA s : RankingAnswer(a)[s].orders, Shops) = want.orders
          /\ MapThenSumSet(LAMBDA s : RankingAnswer(a)[s].gmv, Shops) = want.gmv
    BY <1>1, QuietRanking
  <2>3. a.e \in {"topShops", "shopTrend"} =>
          LET sum == aggregateGmvUsdFromOrderRows(a.got["both"])
          IN sum.orders = want.orders /\ (plain => sum.gmv = want.gmv)
    BY <1>1, QuietRows
  <2>4. a.e = "compareHour" =>
          CompareToday(a).orders = want.orders /\ (plain => CompareToday(a) = want)
    <3> SUFFICES ASSUME a.e = "compareHour"
                 PROVE  CompareToday(a).orders = want.orders /\ (plain => CompareToday(a) = want)
      OBVIOUS
    <3>1. CompareToday(a) = aggregateGmvUsdFromOrderRows(a.got["rows"])
      BY <1>1, QuietRead DEF CompareToday
    <3> QED
      BY <1>1, <3>1, QuietRows
  <2>5. a.e = "analyticsCompare" /\ a.c.range = "today" =>
          /\ AnalyticsHalf(a, "today").orders = want.orders
          /\ plain => AnalyticsHalf(a, "today").gmv = want.gmv
    BY <1>1, QuietHalf
  <2> QED
    BY <2>1, <2>2, <2>3, <2>4, <2>5 DEF Plain
<1> QED
  BY <1>1, QuietInvariant, PTL
===============================================================================
