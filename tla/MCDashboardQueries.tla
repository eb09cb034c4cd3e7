-------------------------- MODULE MCDashboardQueries --------------------------
(* Small instances of DashboardQueries: days of two hours, a week of two and   *)
(* a month of three days.                                                      *)
EXTENDS DashboardQueries

CONSTANTS o1, o2, s1, s2, r1

Order(shop, paid, placed, status, amount) ==
  [shop |-> shop, paid |-> paid, placed |-> placed, kept |-> 0, status |-> status, amount |-> amount]

\* Paid and unpaid, of yesterday, of today and of the next day, with and
\* without times, cancelled before and after it was paid.
FewRows == {
  Order(s1, 5, 5, "valid", 3), Order(s1, None, 3, "unpaid", 3), Order(s1, 4, 3, "valid", 3),
  Order(s2, 3, 2, "valid", 5), Order(s2, 5, 5, "cancelled", 2), Order(s2, None, 4, "cancelled", 0),
  Order(s1, None, None, "sample", 1), Order(s2, 6, None, "valid", 4), Order(s1, None, 1, "other", 2)}

Q(e, range, from, to, filter, shop) ==
  [endpoint |-> e, range |-> range, from |-> from, to |-> to, filter |-> filter, shop |-> shop]

FewQueries ==
       {Q(e, range, 0, 0, f, AllShops) : e \in Endpoints, range \in {"today", "yesterday"},
                                          f \in {"all", "valid", "paid"}}
  \cup {Q(e, "today", 0, 0, f, s1) : e \in Dashboard, f \in {"sample", "unpaid"}}
  \cup {Q(e, range, 0, 0, "all", AllShops) : e \in {"summary", "ranking", "topShops"},
                                             range \in {"last7", "last30"}}
  \cup {Q("summary", "custom", d, 2, "cancelled", AllShops) : d \in {0, 1, 9}}
=============================================================================
