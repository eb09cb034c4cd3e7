--------------------------- MODULE OrderStoreProofs ---------------------------
(***************************************************************************)
(* Proofs about OrderStore, for any orders, shops, pulls, versions, page   *)
(* limit and number of failures.                                           *)
(***************************************************************************)
EXTENDS OrderStore, FoldLemmas, SequenceTheorems, TLAPS

-----------------------------------------------------------------------------
(* The inductive invariant                                                   *)

\* An order as a page of the platform shows it.
Entries == [order : Orders, ver : Versions, born : Times, paid : Times \cup {None}]

Distinct(es) == \A i, j \in DOMAIN es : es[i].order = es[j].order => i = j

\* The entries es of a pull show each order once, no older than when the pull
\* began and no newer than it is now.
Fresh(f, es, sd) ==
  /\ es \in Seq(Entries) /\ Distinct(es)
  /\ \A i \in DOMAIN es : /\ es[i].order \in f.range
                          /\ f.since[es[i].order] <= es[i].ver
                          /\ es[i].ver <= sd[es[i].order].ver

\* No row of the pull's shop is ahead of what the pull still has to write.
Ahead(f, es, rows) ==
  \A i \in DOMAIN es : LET o == es[i].order IN
    rows[o] # None /\ rows[o].shop = f.shop => rows[o].ver <= es[i].ver

\* Version v of order o is no older than when pull f, or one under way then, began.
NotBefore(f, o, v) == \E old \in {f.since} \cup f.olds : o \in DOMAIN old /\ v >= old[o]

Written(f, o, rows) == rows[o] # None /\ NotBefore(f, o, rows[o].ver)
Waits(f, o) == f.step = "orders" /\ \E j \in DOMAIN f.todo : f.todo[j].order = o

\* What a pull has fetched is written, failed, or waits.
Accounted(f, rows) ==
  \A i \in DOMAIN f.batch : LET o == f.batch[i].order IN
    o \in f.failed \/ Written(f, o, rows) \/ Waits(f, o)

Fields == {"step", "shop", "range", "pages", "batch", "alone", "failed", "todo", "known",
           "since", "olds"}

Shape(f, sd) ==
  /\ DOMAIN f = Fields /\ f.step \in {"fetch", "orders", "items"}
  /\ f.shop \in Shops /\ f.range \subseteq Orders /\ f.failed \subseteq Orders
  /\ f.alone \in BOOLEAN /\ DOMAIN f.since = f.range
  /\ \A old \in f.olds : \A o \in DOMAIN old : old[o] \in Nat
  /\ \A o \in f.range : sd[o] # None /\ f.since[o] \in Versions /\ f.since[o] <= sd[o].ver

PullOK(f, sd, rows) ==
  /\ Shape(f, sd)
  /\ Fresh(f, f.batch, sd)
  /\ f.step = "fetch" /\ Locked => Ahead(f, f.batch, rows)
  /\ f.step = "orders" => Fresh(f, f.todo, sd)
  /\ f.step = "orders" /\ Locked => Ahead(f, f.todo, rows)
  /\ f.step # "fetch" => Accounted(f, rows)

Active(f) == f \notin {Idle, Over}

PullsOK ==
  /\ DOMAIN pulls = Pulls
  /\ \A p \in Pulls : Active(pulls[p]) => PullOK(pulls[p], sold, orders)

\* Two pulls at work are both not alone, and under the lock of different shops;
\* and what either fetches is no older than what the other may store.
Apart ==
  \A p, q \in Pulls : p # q /\ Active(pulls[p]) /\ Active(pulls[q]) =>
    /\ ~pulls[p].alone
    /\ Locked => pulls[p].shop # pulls[q].shop
    /\ \A o \in pulls[p].range \cap pulls[q].range : NotBefore(pulls[p], o, pulls[q].since[o])

SoldOK == now \in Times /\ sold \in [Orders -> Placed \cup {None}]

\* Rows show what the platform had at some time.
RowOK(row, sd) == row # None => row \in Stored /\ sd # None /\ row.ver <= sd.ver

RowsOK == DOMAIN orders = Orders /\ \A o \in Orders : RowOK(orders[o], sold[o])

IInv == SoldOK /\ RowsOK /\ PullsOK /\ Apart

-----------------------------------------------------------------------------
(* Steps of the platform and of other pulls                                  *)

LEMMA VersionsAreNats == Versions \subseteq Nat /\ Times \subseteq Nat
  BY OrderAssumption DEF Versions, Times

LEMMA EntryTypes ==
  ASSUME NEW es \in Seq(Entries), NEW i \in DOMAIN es
  PROVE  /\ es[i] \in Entries
         /\ es[i].order \in Orders /\ es[i].ver \in Versions /\ es[i].ver \in Nat
<1>1. es[i] \in Entries
  OBVIOUS
<1> QED
  BY <1>1, VersionsAreNats DEF Entries

LEMMA PlacedTypes ==
  ASSUME SoldOK, NEW o \in Orders, sold[o] # None
  PROVE  /\ sold[o] \in Placed /\ sold[o].ver \in Versions
         /\ sold[o].ver \in Nat /\ sold[o].ver <= sold[o].ver
<1>1. sold[o] \in Placed /\ sold[o].ver \in Versions
  BY DEF SoldOK, Placed
<1>2. sold[o].ver \in Nat
  BY <1>1, VersionsAreNats
<1> QED
  BY <1>1, <1>2

\* Everything said of a pull still holds when the platform moves on.
LEMMA PlatformMovesOn ==
  ASSUME NEW f, NEW sd, NEW rows, PullOK(f, sold, rows), SoldOK,
         \A o \in Orders : sold[o] # None =>
           sd[o] # None /\ sd[o].ver \in Versions /\ sold[o].ver <= sd[o].ver
  PROVE  PullOK(f, sd, rows)
<1>1. ASSUME NEW o \in f.range
      PROVE  /\ o \in Orders /\ f.since[o] \in Nat /\ f.since[o] <= sold[o].ver /\ sold[o].ver \in Nat
             /\ sd[o] # None /\ sd[o].ver \in Nat /\ sold[o].ver <= sd[o].ver
  <2>1. o \in Orders /\ sold[o] # None /\ f.since[o] \in Versions /\ f.since[o] <= sold[o].ver
    BY DEF PullOK, Shape
  <2>2. sold[o].ver \in Versions
    BY <2>1 DEF SoldOK, Placed
  <2> QED
    BY <2>1, <2>2, VersionsAreNats
<1>2. Shape(f, sd)
  <2>1. ASSUME NEW o \in f.range PROVE f.since[o] <= sd[o].ver
    BY <1>1
  <2> QED
    BY <1>1, <2>1 DEF PullOK, Shape
<1>3. ASSUME NEW es, Fresh(f, es, sold) PROVE Fresh(f, es, sd)
  <2>1. ASSUME NEW i \in DOMAIN es PROVE es[i].ver <= sd[es[i].order].ver
    <3>1. es[i].ver \in Nat /\ es[i].order \in f.range /\ es[i].ver <= sold[es[i].order].ver
      BY <1>3, EntryTypes DEF Fresh
    <3> QED
      BY <1>1, <3>1
  <2> QED
    BY <1>3, <2>1 DEF Fresh
<1> QED
  BY <1>2, <1>3 DEF PullOK

\* A pull is not hurt by a row of another shop that is no older than its own.
LEMMA OthersMayWrite ==
  ASSUME NEW f, NEW rows, NEW o \in Orders, NEW row,
         PullOK(f, sold, orders), RowsOK, row # None,
         rows = [orders EXCEPT ![o] = row], Locked => row.shop # f.shop,
         o \in f.range => NotBefore(f, o, row.ver)
  PROVE  PullOK(f, sold, rows)
<1>1. \A i \in Orders : rows[i] = IF i = o THEN row ELSE orders[i]
  BY DEF RowsOK
<1>2. ASSUME Locked, NEW es, Fresh(f, es, sold), Ahead(f, es, orders) PROVE Ahead(f, es, rows)
  <2>1. \A i \in DOMAIN es : es[i].order \in Orders
    BY <1>2, EntryTypes DEF Fresh
  <2> QED
    BY <1>1, <1>2, <2>1 DEF Ahead
<1>3. ASSUME Accounted(f, orders) PROVE Accounted(f, rows)
  <2>1. \A i \in DOMAIN f.batch : f.batch[i].order \in Orders /\ f.batch[i].order \in f.range
    BY EntryTypes DEF PullOK, Fresh
  <2>2. \A i \in Orders : i \in f.range /\ Written(f, i, orders) => Written(f, i, rows)
    BY <1>1 DEF Written
  <2> QED
    BY <1>3, <2>1, <2>2 DEF Accounted
<1> QED
  BY <1>2, <1>3 DEF PullOK

-----------------------------------------------------------------------------
(* Steps that leave orders, the platform and the pulls alone                 *)

LEMMA StillOK ==
  ASSUME IInv, UNCHANGED <<sold, orders, pulls>>, now' \in Times
  PROVE  IInv'
  BY DEF IInv, SoldOK, RowsOK, PullsOK, Apart

LEMMA ChangeOK ==
  ASSUME IInv, NEW o \in Orders, Change(o)
  PROVE  IInv'
<1> DEFINE v == IF sold[o] = None THEN 1 ELSE sold[o].ver + 1
           new == [ver  |-> v, born |-> IF v = 1 THEN now ELSE sold[o].born,
                   paid |-> IF v = PaidFrom THEN now ELSE IF v = 1 THEN None ELSE sold[o].paid]
<1>1. v \in Versions /\ sold' = [sold EXCEPT ![o] = new]
  BY DEF Change
<1>2. sold[o] = None \/ (sold[o] \in Placed /\ v # 1)
  BY VersionsAreNats, OrderAssumption DEF IInv, SoldOK, Placed, Versions
<1>3. new \in Placed
  BY <1>1, <1>2 DEF IInv, SoldOK, Placed
<1>4. SoldOK'
  BY <1>1, <1>3 DEF IInv, SoldOK, Change
<1>5. \A i \in Orders : sold[i] # None =>
        sold'[i] # None /\ sold'[i].ver \in Versions /\ sold[i].ver <= sold'[i].ver
  <2>1. ASSUME sold[o] # None PROVE sold[o].ver <= v
    <3>1. sold[o].ver \in Nat
      BY <1>2, <2>1, VersionsAreNats DEF Placed
    <3> QED
      BY <2>1, <3>1
  <2>2. new # None /\ new.ver = v
    BY <1>3, NoneAssumption
  <2>3. \A i \in Orders : sold[i] # None => sold[i].ver \in Nat /\ sold[i].ver \in Versions
    BY VersionsAreNats DEF IInv, SoldOK, Placed
  <2> QED
    BY <1>1, <2>1, <2>2, <2>3 DEF IInv, SoldOK
<1>6. UNCHANGED <<orders, pulls>>
  BY DEF Change
<1>7. RowsOK'
  <2>1. ASSUME NEW i \in Orders, orders[i] # None PROVE RowOK(orders[i], sold'[i])
    <3>1. orders[i].ver \in Nat /\ sold[i].ver \in Nat /\ sold'[i].ver \in Nat
      BY <1>4, <1>5, <2>1, VersionsAreNats DEF IInv, RowsOK, RowOK, SoldOK, Placed, Stored
    <3> QED
      BY <1>5, <2>1, <3>1 DEF IInv, RowsOK, RowOK
  <2> QED
    BY <1>6, <2>1 DEF IInv, RowsOK, RowOK
<1>8. PullsOK'
  <2>1. ASSUME NEW p \in Pulls, Active(pulls[p]) PROVE PullOK(pulls[p], sold', orders)
    BY <1>5, <2>1, PlatformMovesOn DEF IInv, PullsOK
  <2> QED
    BY <1>6, <2>1 DEF IInv, PullsOK
<1> QED
  BY <1>4, <1>6, <1>7, <1>8 DEF IInv, Apart
-----------------------------------------------------------------------------
(* Steps of a pull                                                           *)

\* A pull that moves on by itself, or ends, and writes no order.
LEMMA PullMovesOn ==
  ASSUME IInv, NEW p \in Pulls, NEW f, Active(pulls[p]),
         pulls' = [pulls EXCEPT ![p] = f], UNCHANGED <<now, sold, orders>>,
         Active(f) => /\ PullOK(f, sold, orders)
                      /\ f.alone = pulls[p].alone /\ f.shop = pulls[p].shop
                      /\ f.range = pulls[p].range /\ f.since = pulls[p].since
                      /\ f.olds = pulls[p].olds
  PROVE  IInv'
<1>1. \A q \in Pulls : pulls'[q] = IF q = p THEN f ELSE pulls[q]
  BY DEF IInv, PullsOK
<1>2. PullsOK'
  BY <1>1 DEF IInv, PullsOK
<1>3. Apart'
  BY <1>1 DEF IInv, Apart, NotBefore
<1> QED
  BY <1>2, <1>3 DEF IInv, SoldOK, RowsOK

LEMMA FetchStartOK ==
  ASSUME IInv, NEW p \in Pulls, NEW s \in Shops, FetchStart(p, s)
  PROVE  IInv'
<1> DEFINE new == Started(p, s)
           told(q) == [pulls[q] EXCEPT !.alone = FALSE]
<1>1. \A q \in Pulls : pulls'[q] = IF q = p THEN new ELSE IF q \in Rivals(p) THEN told(q) ELSE pulls[q]
  BY DEF FetchStart
<1>2. UNCHANGED <<now, sold, orders>>
  BY DEF FetchStart
<1>a. \A q \in Rivals(p) : q \in Pulls /\ q # p /\ Active(pulls[q]) /\ PullOK(pulls[q], sold, orders)
  BY DEF Rivals, Active, IInv, PullsOK
<1>b. /\ new.step = "fetch" /\ new.shop = s /\ new.range = Today /\ new.batch = <<>>
      /\ new.failed = {} /\ new.alone \in BOOLEAN /\ (new.alone <=> Rivals(p) = {})
      /\ new.since = [o \in Today |-> sold[o].ver]
      /\ new.olds = {pulls[q].since : q \in Rivals(p)} /\ new.pages = 0
      /\ DOMAIN new = Fields
  BY ZenonT(40) DEF Started, Fields
<1>c. \A o \in Today : o \in Orders /\ sold[o] # None /\ sold[o].ver \in Versions
                       /\ sold[o].ver \in Nat /\ sold[o].ver <= sold[o].ver
  BY PlacedTypes DEF Today, IInv
<1> HIDE DEF new
<1>3. PullOK(new, sold, orders)
  <2>1. \A old \in new.olds : \A o \in DOMAIN old : old[o] \in Nat
    <3>1. ASSUME NEW q \in Rivals(p), NEW o \in DOMAIN pulls[q].since PROVE pulls[q].since[o] \in Nat
      BY <1>a, VersionsAreNats DEF PullOK, Shape
    <3> QED
      BY <1>b, <3>1
  <2>2. Shape(new, sold)
    BY <1>b, <1>c, <2>1 DEF Shape, Today
  <2>3. Fresh(new, <<>>, sold) /\ Ahead(new, <<>>, orders)
    BY DEF Fresh, Distinct, Ahead
  <2> QED
    BY <1>b, <2>2, <2>3 DEF PullOK
<1>4. ASSUME NEW q \in Pulls, q # p, Active(pulls'[q])
      PROVE  /\ Active(pulls[q]) /\ PullOK(pulls'[q], sold, orders) /\ ~pulls'[q].alone
             /\ pulls'[q].shop = pulls[q].shop /\ q \in Rivals(p)
             /\ pulls'[q].range = pulls[q].range /\ pulls'[q].since = pulls[q].since
             /\ pulls'[q].olds = pulls[q].olds
             /\ Locked => pulls[q].shop # s
  <2>1. Active(pulls[q]) /\ q \in Rivals(p)
    BY <1>1, <1>4 DEF Active, Rivals
  <2>2. PullOK(pulls[q], sold, orders)
    BY <1>a, <2>1
  <2>3. pulls'[q] = told(q) /\ DOMAIN pulls[q] = Fields
    BY <1>1, <1>4, <2>1, <2>2 DEF PullOK, Shape
  <2>4. /\ DOMAIN told(q) = Fields /\ told(q).alone = FALSE
        /\ told(q).step = pulls[q].step /\ told(q).shop = pulls[q].shop /\ told(q).range = pulls[q].range
        /\ told(q).batch = pulls[q].batch /\ told(q).failed = pulls[q].failed
        /\ told(q).todo = pulls[q].todo /\ told(q).since = pulls[q].since
        /\ told(q).olds = pulls[q].olds
    BY <2>3 DEF Fields
  <2>5. PullOK(told(q), sold, orders)
    <3> HIDE DEF told
    <3>1. Shape(told(q), sold)
      BY <2>2, <2>4 DEF PullOK, Shape
    <3>2. ASSUME NEW es, NEW rows
          PROVE  /\ Fresh(pulls[q], es, sold) => Fresh(told(q), es, sold)
                 /\ Ahead(pulls[q], es, rows) => Ahead(told(q), es, rows)
      BY <2>4 DEF Fresh, Ahead
    <3>3. Accounted(pulls[q], orders) => Accounted(told(q), orders)
      BY <2>4 DEF Accounted, Written, NotBefore, Waits
    <3> QED
      BY <2>2, <2>4, <3>1, <3>2, <3>3 DEF PullOK
  <2>6. Locked => pulls[q].shop # s
    BY <2>1 DEF FetchStart, ShopIsFree
  <2> QED
    BY <2>1, <2>3, <2>4, <2>5, <2>6
<1>5. PullsOK'
  <2>1. DOMAIN pulls' = Pulls
    BY DEF FetchStart
  <2> QED
    BY <1>1, <1>2, <1>3, <1>4, <2>1 DEF PullsOK
<1>6. Apart'
  <2> SUFFICES ASSUME NEW q \in Pulls, NEW r \in Pulls, q # r, Active(pulls'[q]), Active(pulls'[r])
               PROVE  /\ ~pulls'[q].alone /\ (Locked => pulls'[q].shop # pulls'[r].shop)
                      /\ \A o \in pulls'[q].range \cap pulls'[r].range :
                           NotBefore(pulls'[q], o, pulls'[r].since[o])
    BY DEF Apart
  <2>1. CASE q = p
    <3>1. pulls'[q] = new /\ r \in Rivals(p)
      BY <1>1, <1>4, <2>1
    <3>2. ~new.alone
      BY <1>b, <3>1
    <3>3. Locked => new.shop # pulls'[r].shop
      BY <1>4, <1>b, <2>1
    <3>4. pulls'[r].since \in new.olds
      BY <1>4, <1>b, <2>1, <3>1
    <3>5. \A o \in pulls'[r].range : /\ o \in DOMAIN pulls'[r].since
                                     /\ pulls'[r].since[o] >= pulls'[r].since[o]
      <4>1. \A o \in pulls'[r].range : /\ o \in DOMAIN pulls'[r].since
                                       /\ pulls'[r].since[o] \in Versions
        BY <1>4, <2>1 DEF PullOK, Shape
      <4>2. \A v \in Versions : v >= v
        BY VersionsAreNats
      <4> QED
        BY <4>1, <4>2
    <3> QED
      BY <3>1, <3>2, <3>3, <3>4, <3>5 DEF NotBefore
  <2>2. CASE r = p
    <3>1. pulls'[r] = new /\ q # p
      BY <1>1, <2>2
    <3>2. \A o \in pulls'[q].range \cap Today :
            o \in DOMAIN pulls'[q].since /\ new.since[o] >= pulls'[q].since[o]
      BY <1>4, <1>b, <3>1 DEF PullOK, Shape
    <3> QED
      BY <1>4, <1>b, <3>1, <3>2 DEF NotBefore
  <2>3. CASE q # p /\ r # p
    BY <1>4, <2>3 DEF IInv, Apart, NotBefore
  <2> QED
    BY <2>1, <2>2, <2>3
<1> QED
  BY <1>2, <1>5, <1>6 DEF IInv, SoldOK, RowsOK

\* The batch with what one more page shows.
Grown(f, es) == es = f.batch \/ \E o \in f.range \ Seen(f) : es = Append(f.batch, normalizeOrder(o))

LEMMA PageShows ==
  ASSUME IInv, NEW p \in Pulls, FetchPage(p)
  PROVE  \E es : /\ Grown(pulls[p], es)
                 /\ \/ /\ pulls[p].pages + 1 < PageLimit
                       /\ pulls' = [pulls EXCEPT ![p].pages = @ + 1, ![p].batch = es]
                    \/ pulls' = [pulls EXCEPT ![p] = Fetched(pulls[p], es)]
<1> DEFINE f == pulls[p]
<1>1. PICK new \in {<<>>} \cup {<<normalizeOrder(o)>> : o \in f.range \ Seen(f)} :
        \/ /\ f.pages + 1 < PageLimit
           /\ pulls' = [pulls EXCEPT ![p].pages = @ + 1, ![p].batch = @ \o new]
        \/ pulls' = [pulls EXCEPT ![p] = Fetched(f, f.batch \o new)]
  BY DEF FetchPage
<1>2. f.batch \in Seq(Entries) /\ DOMAIN f = Fields
  BY DEF FetchPage, IInv, PullsOK, PullOK, Shape, Fresh, Active, Idle, Over
<1>3. Grown(f, f.batch \o new)
  <2>1. f.batch \o <<>> = f.batch
    BY <1>2, ConcatEmptySeq
  <2>2. ASSUME NEW o \in f.range \ Seen(f), new = <<normalizeOrder(o)>>
        PROVE  f.batch \o new = Append(f.batch, normalizeOrder(o))
    BY <1>2, <2>2, AppendIsConcat
  <2> QED
    BY <2>1, <2>2 DEF Grown
<1>4. [pulls EXCEPT ![p].pages = @ + 1, ![p].batch = @ \o new]
        = [pulls EXCEPT ![p].pages = @ + 1, ![p].batch = f.batch \o new]
  BY <1>2 DEF IInv, PullsOK, Fields
<1> QED
  BY <1>1, <1>3, <1>4

LEMMA GrownIsFresh ==
  ASSUME IInv, NEW p \in Pulls, pulls[p].step = "fetch", NEW es, Grown(pulls[p], es)
  PROVE  /\ PullOK(pulls[p], sold, orders) /\ Active(pulls[p]) /\ DOMAIN pulls[p] = Fields
         /\ Fresh(pulls[p], es, sold) /\ (Locked => Ahead(pulls[p], es, orders))
<1> DEFINE f == pulls[p]
<1>1. Active(f) /\ PullOK(f, sold, orders) /\ DOMAIN f = Fields
  BY DEF Active, Idle, Over, IInv, PullsOK, PullOK, Shape
<1>2. CASE es = f.batch
  BY <1>1, <1>2 DEF PullOK
<1>3. ASSUME NEW o \in f.range \ Seen(f), es = Append(f.batch, normalizeOrder(o))
      PROVE  Fresh(f, es, sold) /\ (Locked => Ahead(f, es, orders))
  <2> DEFINE e == normalizeOrder(o)
  <2>1. o \in Orders /\ sold[o] # None /\ sold[o] \in Placed /\ f.since[o] <= sold[o].ver
    BY <1>1 DEF PullOK, Shape, IInv, SoldOK
  <2>2. e \in Entries /\ e.order = o /\ e.ver = sold[o].ver
    BY <2>1 DEF Entries, Placed, normalizeOrder
  <2>3. /\ f.batch \in Seq(Entries) /\ es \in Seq(Entries) /\ Len(es) = Len(f.batch) + 1
        /\ es[Len(f.batch) + 1] = e /\ \A i \in 1..Len(f.batch) : es[i] = f.batch[i]
    BY <1>1, <1>3, <2>2, AppendProperties DEF PullOK, Fresh
  <2>4. ASSUME NEW i \in DOMAIN es, i \notin DOMAIN f.batch PROVE i = Len(f.batch) + 1 /\ es[i] = e
    BY <2>3, <2>4
  <2>5. \A i \in DOMAIN f.batch : es[i] = f.batch[i] /\ es[i].order # o
    BY <2>3, SMTT(20) DEF Seen
  <2>6. Distinct(es)
    BY <1>1, <2>2, <2>4, <2>5 DEF Distinct, PullOK, Fresh
  <2>7. ASSUME NEW i \in DOMAIN es
        PROVE  es[i].order \in f.range /\ f.since[es[i].order] <= es[i].ver /\ es[i].ver <= sold[es[i].order].ver
    <3>1. sold[o].ver <= sold[o].ver
      BY <2>1, PlacedTypes DEF IInv
    <3> QED
      BY <1>1, <2>1, <2>2, <2>4, <2>5, <3>1 DEF PullOK, Fresh
  <2>8. Fresh(f, es, sold)
    BY <2>3, <2>6, <2>7 DEF Fresh
  <2>9. Locked => Ahead(f, es, orders)
    <3>1. orders[o] # None => orders[o].ver <= e.ver
      BY <2>1, <2>2 DEF IInv, RowsOK, RowOK
    <3> QED
      BY <1>1, <2>2, <2>4, <2>5, <3>1 DEF Ahead, PullOK
  <2> QED
    BY <2>8, <2>9
<1> QED
  BY <1>1, <1>2, <1>3 DEF Grown

LEMMA FetchPageOK ==
  ASSUME IInv, NEW p \in Pulls, FetchPage(p)
  PROVE  IInv'
<1> DEFINE f == pulls[p]
<1>1. PICK es : /\ Grown(f, es)
                /\ \/ pulls' = [pulls EXCEPT ![p].pages = @ + 1, ![p].batch = es]
                   \/ pulls' = [pulls EXCEPT ![p] = Fetched(f, es)]
  BY PageShows
<1>2. f.step = "fetch" /\ UNCHANGED <<now, sold, orders>>
  BY DEF FetchPage
<1>3. /\ PullOK(f, sold, orders) /\ Active(f) /\ DOMAIN f = Fields
      /\ Fresh(f, es, sold) /\ (Locked => Ahead(f, es, orders))
  BY <1>1, <1>2, GrownIsFresh
<1> DEFINE goesOn == [f EXCEPT !.pages = @ + 1, !.batch = es]
           done == Fetched(f, es)
<1>4. ASSUME NEW g, g \in {goesOn, done}
      PROVE  /\ PullOK(g, sold, orders)
             /\ g.alone = f.alone /\ g.shop = f.shop /\ g.range = f.range
             /\ g.since = f.since /\ g.olds = f.olds
  <2>1. /\ g.batch = es /\ g.shop = f.shop /\ g.range = f.range /\ g.alone = f.alone
        /\ g.failed = f.failed /\ g.since = f.since /\ g.olds = f.olds /\ DOMAIN g = Fields
        /\ g.step = "fetch" \/ (g.step = "orders" /\ g.todo = es)
    BY <1>2, <1>3, <1>4 DEF Fields, Fetched
  <2> HIDE DEF goesOn, done
  <2>2. Shape(g, sold)
    BY <1>3, <2>1 DEF Shape, PullOK
  <2>3. Fresh(g, es, sold) /\ (Locked => Ahead(g, es, orders))
    BY <1>3, <2>1 DEF Fresh, Ahead
  <2>4. g.step # "fetch" => Accounted(g, orders)
    BY <2>1 DEF Accounted, Waits
  <2> QED
    BY <2>1, <2>2, <2>3, <2>4 DEF PullOK
<1>5. pulls' = [pulls EXCEPT ![p] = goesOn] \/ pulls' = [pulls EXCEPT ![p] = done]
  BY <1>1
<1> HIDE DEF goesOn, done
<1> QED
  BY <1>2, <1>3, <1>4, <1>5, PullMovesOn

LEMMA PullOverOK ==
  ASSUME IInv, NEW p \in Pulls, PullStops(p) \/ PullEnds(p)
  PROVE  IInv'
<1>1. Active(pulls[p]) /\ pulls' = [pulls EXCEPT ![p] = Over] /\ UNCHANGED <<now, sold, orders>>
  BY DEF PullStops, PullEnds, Active, Idle, Over
<1> QED
  BY <1>1, PullMovesOn DEF Active

\* What is left when the first entry is taken.
LEMMA TailOfEntries ==
  ASSUME NEW es \in Seq(Entries), es # <<>>
  PROVE  /\ Tail(es) \in Seq(Entries) /\ 1 \in DOMAIN es /\ Head(es) = es[1]
         /\ \A i, j \in DOMAIN Tail(es) : i + 1 = j + 1 => i = j
         /\ \A i \in DOMAIN Tail(es) : i + 1 \in DOMAIN es /\ i + 1 # 1 /\ Tail(es)[i] = es[i + 1]
         /\ \A i \in DOMAIN es : i # 1 => \E j \in DOMAIN Tail(es) : Tail(es)[j] = es[i]
<1>1. /\ Tail(es) \in Seq(Entries) /\ Len(es) \in Nat \ {0} /\ Len(Tail(es)) = Len(es) - 1
      /\ Head(es) = es[1] /\ \A i \in 1..Len(Tail(es)) : Tail(es)[i] = es[i + 1]
  BY HeadTailProperties, EmptySeq, LenProperties
<1>2. DOMAIN es = 1..Len(es) /\ DOMAIN Tail(es) = 1..(Len(es) - 1)
  BY <1>1
<1>3. ASSUME NEW i \in DOMAIN es, i # 1 PROVE \E j \in DOMAIN Tail(es) : Tail(es)[j] = es[i]
  <2>1. i - 1 \in DOMAIN Tail(es) /\ (i - 1) + 1 = i
    BY <1>1, <1>2, <1>3
  <2> QED
    BY <1>1, <1>2, <2>1
<1> QED
  BY <1>1, <1>2, <1>3

LEMMA TailIsOK ==
  ASSUME NEW f, NEW es, NEW rows, Fresh(f, es, sold), es # <<>>
  PROVE  /\ Fresh(f, Tail(es), sold)
         /\ Ahead(f, es, rows) => Ahead(f, Tail(es), rows)
         /\ \A i \in DOMAIN Tail(es) : Tail(es)[i].order # Head(es).order
<1>1. es \in Seq(Entries)
  BY DEF Fresh
<1>2. Distinct(es) /\ \A i \in DOMAIN Tail(es) : i + 1 \in DOMAIN es /\ i + 1 # 1 /\ Tail(es)[i] = es[i + 1]
  BY <1>1, TailOfEntries DEF Fresh
<1>3. Distinct(Tail(es))
  <2>1. \A i, j \in DOMAIN Tail(es) : i + 1 = j + 1 => i = j
    BY <1>1, TailOfEntries
  <2> QED
    BY <1>2, <2>1 DEF Distinct
<1>4. \A i \in DOMAIN Tail(es) : Tail(es)[i].order # Head(es).order
  <2>1. 1 \in DOMAIN es /\ Head(es) = es[1]
    BY <1>1, TailOfEntries
  <2> QED
    BY <1>2, <2>1 DEF Distinct
<1>5. Fresh(f, Tail(es), sold)
  <2>1. Tail(es) \in Seq(Entries)
    BY <1>1, TailOfEntries
  <2> QED
    BY <1>2, <1>3, <2>1 DEF Fresh
<1>6. Ahead(f, es, rows) => Ahead(f, Tail(es), rows)
  BY <1>2 DEF Ahead
<1> QED
  BY <1>4, <1>5, <1>6

\* The upsert of the pull's next order, whether it fails or not.
LEMMA UpsertGoesOn ==
  ASSUME IInv, NEW p \in Pulls, NEW g, NEW rows,
         pulls[p].step = "orders", pulls[p].todo # <<>>,
         \/ /\ g = [pulls[p] EXCEPT !.todo = Tail(pulls[p].todo)]
            /\ rows = [orders EXCEPT ![Head(pulls[p].todo).order] =
                         Upserted(Head(pulls[p].todo), pulls[p].shop, @)]
         \/ /\ g = [pulls[p] EXCEPT !.todo = Tail(pulls[p].todo),
                                    !.failed = @ \cup {Head(pulls[p].todo).order}]
            /\ rows = orders
  PROVE  /\ PullOK(g, sold, rows) /\ g.alone = pulls[p].alone /\ g.shop = pulls[p].shop
         /\ g.range = pulls[p].range /\ g.since = pulls[p].since /\ g.olds = pulls[p].olds
         /\ Head(pulls[p].todo).order \in pulls[p].range
         /\ pulls[p].since[Head(pulls[p].todo).order] <= Head(pulls[p].todo).ver
         /\ Head(pulls[p].todo).ver \in Nat
         /\ Head(pulls[p].todo).order \in Orders
         /\ Upserted(Head(pulls[p].todo), pulls[p].shop, orders[Head(pulls[p].todo).order]) \in Stored
         /\ DOMAIN rows = Orders /\ \A o \in Orders : RowOK(rows[o], sold[o])
<1> DEFINE f == pulls[p]
           e == Head(f.todo)
           new == Upserted(e, f.shop, orders[e.order])
<1>1. PullOK(f, sold, orders) /\ DOMAIN f = Fields /\ Fresh(f, f.todo, sold)
  BY DEF IInv, PullsOK, PullOK, Shape, Active, Idle, Over
<1>2. /\ g.batch = f.batch /\ g.todo = Tail(f.todo) /\ g.step = "orders" /\ g.shop = f.shop
      /\ g.range = f.range /\ g.alone = f.alone /\ g.since = f.since /\ DOMAIN g = Fields
      /\ g.olds = f.olds
      /\ f.failed \subseteq g.failed /\ g.failed \subseteq f.failed \cup {e.order}
      /\ rows = orders => e.order \in g.failed \/ rows = [orders EXCEPT ![e.order] = new]
  BY <1>1, ZenonT(40) DEF Fields
<1>3. /\ e \in Entries /\ e.order \in Orders /\ e.ver \in Versions /\ e.ver \in Nat
      /\ e.order \in f.range /\ f.since[e.order] <= e.ver /\ e.ver <= sold[e.order].ver
      /\ sold[e.order] # None /\ f.shop \in Shops
  <2>1. 1 \in DOMAIN f.todo /\ e = f.todo[1]
    BY <1>1, TailOfEntries DEF Fresh
  <2> QED
    BY <1>1, <2>1, EntryTypes DEF Fresh, PullOK, Shape
<1>4. new \in Stored /\ new.ver = e.ver /\ new.shop = f.shop /\ new # None
  <2>1. orders[e.order] # None => orders[e.order].born \in Times
    BY <1>3 DEF IInv, RowsOK, RowOK, Stored
  <2> DEFINE born == IF orders[e.order] = None THEN e.born ELSE orders[e.order].born
  <2>2. new = [shop |-> f.shop, ver |-> e.ver, paid |-> e.paid, born |-> born]
    BY DEF Upserted
  <2>3. e.paid \in Times \cup {None} /\ e.ver \in Versions /\ f.shop \in Shops /\ born \in Times
    BY <1>3, <2>1 DEF Entries
  <2> HIDE DEF new, born
  <2>4. new \in Stored
    BY <2>2, <2>3 DEF Stored
  <2> QED
    BY <2>2, <2>4, NoneAssumption
<1>5. /\ DOMAIN rows = Orders
      /\ \A o \in Orders : o # e.order => rows[o] = orders[o]
      /\ rows[e.order] = new \/ (rows = orders /\ e.order \in g.failed)
  BY <1>1, <1>2, <1>3 DEF IInv, RowsOK, Fields
<1>6. \A o \in Orders : RowOK(rows[o], sold[o])
  BY <1>3, <1>4, <1>5 DEF IInv, RowsOK, RowOK
<1>7. Shape(g, sold)
  BY <1>1, <1>2, <1>3 DEF PullOK, Shape
<1>8. Fresh(g, f.batch, sold) /\ Fresh(g, Tail(f.todo), sold)
  <2>1. Fresh(f, Tail(f.todo), sold)
    BY <1>1, TailIsOK
  <2> QED
    BY <1>1, <1>2, <2>1 DEF Fresh, PullOK
<1>9. Locked => Ahead(g, Tail(f.todo), rows)
  <2>1. ASSUME Locked PROVE Ahead(f, Tail(f.todo), orders)
    BY <1>1, <2>1, TailIsOK DEF PullOK
  <2>2. \A i \in DOMAIN Tail(f.todo) :
          Tail(f.todo)[i].order # e.order /\ Tail(f.todo)[i].order \in Orders
    BY <1>1, <1>8, TailIsOK, EntryTypes DEF Fresh
  <2> QED
    BY <1>2, <1>5, <2>1, <2>2 DEF Ahead
<1>10. Accounted(g, rows)
  <2> SUFFICES ASSUME NEW i \in DOMAIN f.batch
               PROVE  LET o == f.batch[i].order IN o \in g.failed \/ Written(g, o, rows) \/ Waits(g, o)
    BY <1>2 DEF Accounted
  <2> DEFINE o == f.batch[i].order
  <2>1. o \in Orders /\ (o \in f.failed \/ Written(f, o, orders) \/ Waits(f, o))
    BY <1>1, EntryTypes DEF PullOK, Fresh, Accounted
  <2>2. CASE o = e.order
    <3>1. rows[e.order] = new => Written(g, e.order, rows)
      BY <1>1, <1>2, <1>3, <1>4 DEF Written, NotBefore, PullOK, Shape
    <3> QED
      BY <1>5, <2>2, <3>1
  <2>3. CASE o # e.order
    <3>1. Written(f, o, orders) => Written(g, o, rows)
      BY <1>2, <1>5, <2>1, <2>3 DEF Written, NotBefore
    <3>2. Waits(f, o) => Waits(g, o)
      <4> SUFFICES ASSUME Waits(f, o) PROVE Waits(g, o)
        OBVIOUS
      <4>1. PICK j \in DOMAIN f.todo : f.todo[j].order = o
        BY DEF Waits
      <4>2. f.todo \in Seq(Entries) /\ f.todo # <<>>
        BY <1>1 DEF Fresh
      <4>3. j # 1
        BY <2>3, <4>1, <4>2, TailOfEntries
      <4>4. \E k \in DOMAIN Tail(f.todo) : Tail(f.todo)[k] = f.todo[j]
        BY <4>2, <4>3, TailOfEntries
      <4>5. g.todo = Tail(f.todo) /\ g.step = "orders"
        BY <1>2
      <4> HIDE DEF f, o
      <4> QED
        BY <4>1, <4>4, <4>5 DEF Waits
    <3> QED
      BY <1>2, <2>1, <3>1, <3>2
  <2> QED
    BY <2>2, <2>3
<1> QED
  BY <1>2, <1>3, <1>4, <1>5, <1>6, <1>7, <1>8, <1>9, <1>10 DEF PullOK

LEMMA UpsertOrderOK ==
  ASSUME IInv, NEW p \in Pulls, UpsertOrder(p)
  PROVE  IInv'
<1> DEFINE f == pulls[p]
           e == Head(f.todo)
           g == [f EXCEPT !.todo = Tail(f.todo)]
           new == Upserted(e, f.shop, orders[e.order])
           rows == [orders EXCEPT ![e.order] = new]
<1>1. /\ f.step = "orders" /\ f.todo # <<>> /\ orders' = rows
      /\ pulls' = [pulls EXCEPT ![p] = g] /\ UNCHANGED <<now, sold>>
  BY DEF UpsertOrder
<1>2. Active(f)
  BY <1>1 DEF Active, Idle, Over
<1>3. /\ PullOK(g, sold, rows) /\ g.alone = f.alone /\ g.shop = f.shop
      /\ g.range = f.range /\ g.since = f.since /\ g.olds = f.olds
      /\ e.order \in Orders /\ e.order \in f.range /\ f.since[e.order] <= e.ver /\ e.ver \in Nat
      /\ new \in Stored
      /\ DOMAIN rows = Orders /\ \A o \in Orders : RowOK(rows[o], sold[o])
  BY <1>1, UpsertGoesOn
<1>4. \A q \in Pulls : pulls'[q] = IF q = p THEN g ELSE pulls[q]
  BY <1>1 DEF IInv, PullsOK
<1>5. ASSUME NEW q \in Pulls, q # p, Active(pulls[q]) PROVE PullOK(pulls[q], sold, rows)
  <2>1. /\ PullOK(pulls[q], sold, orders) /\ PullOK(f, sold, orders)
        /\ Locked => f.shop # pulls[q].shop
        /\ e.order \in pulls[q].range => NotBefore(pulls[q], e.order, f.since[e.order])
    BY <1>2, <1>3, <1>5 DEF IInv, PullsOK, Apart
  <2>2. new.shop = f.shop /\ new.ver = e.ver /\ new # None
    BY <1>3, NoneAssumption DEF Upserted
  <2>3. e.order \in pulls[q].range => NotBefore(pulls[q], e.order, e.ver)
    <3> SUFFICES ASSUME e.order \in pulls[q].range PROVE NotBefore(pulls[q], e.order, e.ver)
      OBVIOUS
    <3>1. PICK old \in {pulls[q].since} \cup pulls[q].olds :
            e.order \in DOMAIN old /\ f.since[e.order] >= old[e.order]
      BY <2>1 DEF NotBefore
    <3>2. old[e.order] \in Nat /\ f.since[e.order] \in Nat
      BY <1>3, <2>1, <3>1, VersionsAreNats DEF PullOK, Shape
    <3>3. e.ver >= old[e.order]
      BY <1>3, <3>1, <3>2
    <3> QED
      BY <3>1, <3>3 DEF NotBefore
  <2> HIDE DEF new, e
  <2> QED
    BY <1>3, <2>1, <2>2, <2>3, OthersMayWrite DEF IInv
<1>6. PullsOK'
  BY <1>1, <1>3, <1>4, <1>5 DEF IInv, PullsOK
<1>7. Apart'
  <2> HIDE DEF g
  <2> QED
    BY <1>2, <1>3, <1>4 DEF IInv, Apart, NotBefore
<1> QED
  BY <1>1, <1>3, <1>6, <1>7 DEF IInv, SoldOK, RowsOK

LEMMA UpsertOrderFailsOK ==
  ASSUME IInv, NEW p \in Pulls, UpsertOrderFails(p)
  PROVE  IInv'
<1> DEFINE f == pulls[p]
           g == [f EXCEPT !.todo = Tail(f.todo), !.failed = @ \cup {Head(f.todo).order}]
<1>1. /\ f.step = "orders" /\ f.todo # <<>>
      /\ pulls' = [pulls EXCEPT ![p] = g] /\ UNCHANGED <<now, sold, orders>>
  BY DEF UpsertOrderFails
<1>2. Active(f)
  BY <1>1 DEF Active, Idle, Over
<1>3. /\ PullOK(g, sold, orders) /\ g.alone = f.alone /\ g.shop = f.shop
      /\ g.range = f.range /\ g.since = f.since /\ g.olds = f.olds
  BY <1>1, UpsertGoesOn
<1> QED
  BY <1>1, <1>2, <1>3, PullMovesOn

\* With the lines, nothing is said any more of what waits.
LEMMA LinesOK ==
  ASSUME IInv, NEW p \in Pulls, ReadOrders(p) \/ UpsertLine(p)
  PROVE  IInv'
<1> DEFINE f == pulls[p]
           g == pulls'[p]
<1>1. f.step \in {"orders", "items"} /\ (f.step = "orders" => f.todo = <<>>) /\ Active(f)
  <2>1. f.step = "items" \/ (f.step = "orders" /\ f.todo = <<>>)
    BY DEF ReadOrders, UpsertLine
  <2> HIDE DEF f
  <2> QED
    BY <2>1 DEF Active, Idle, Over
<1>2. PullOK(f, sold, orders) /\ DOMAIN f = Fields /\ DOMAIN pulls = Pulls
  BY <1>1 DEF IInv, PullsOK, PullOK, Shape
<1>3. /\ g.batch = f.batch /\ g.step = "items" /\ g.shop = f.shop /\ g.range = f.range
      /\ g.alone = f.alone /\ g.failed = f.failed /\ g.since = f.since /\ g.olds = f.olds
      /\ DOMAIN g = Fields /\ pulls' = [pulls EXCEPT ![p] = g] /\ UNCHANGED <<now, sold, orders>>
  <2>1. CASE ReadOrders(p)
    BY <1>2, <2>1 DEF ReadOrders, Fields
  <2>2. CASE UpsertLine(p)
    BY <1>2, <2>2 DEF UpsertLine, Fields
  <2> QED
    BY <2>1, <2>2
<1>4. PullOK(g, sold, orders)
  <2>1. Shape(g, sold) /\ Fresh(g, g.batch, sold)
    BY <1>2, <1>3 DEF PullOK, Shape, Fresh
  <2>2. Accounted(g, orders)
    BY <1>1, <1>2, <1>3 DEF PullOK, Accounted, Written, NotBefore, Waits
  <2> QED
    BY <1>3, <2>1, <2>2 DEF PullOK
<1> QED
  BY <1>1, <1>3, <1>4, PullMovesOn

-----------------------------------------------------------------------------
(* The invariant, and what follows                                           *)

LEMMA InitOK == Init => IInv
<1> SUFFICES ASSUME Init PROVE IInv
  OBVIOUS
<1>1. 0 \in Times
  BY OrderAssumption DEF Times
<1>2. SoldOK /\ RowsOK
  BY <1>1 DEF Init, SoldOK, RowsOK, RowOK
<1>3. PullsOK /\ Apart
  BY DEF Init, PullsOK, Apart, Active
<1> QED
  BY <1>2, <1>3 DEF IInv

LEMMA NextOK == IInv /\ [Next]_vars => IInv'
<1> SUFFICES ASSUME IInv, [Next]_vars PROVE IInv'
  OBVIOUS
<1>1. CASE UNCHANGED vars
  BY <1>1, StillOK DEF vars, IInv, SoldOK
<1>2. CASE Tick
  <2>1. now' \in Times
    BY <1>2, OrderAssumption DEF Tick, Times, IInv, SoldOK
  <2> QED
    BY <1>2, <2>1, StillOK DEF Tick
<1>3. ASSUME NEW o \in Orders, Change(o) PROVE IInv'
  BY <1>3, ChangeOK
<1>4. ASSUME NEW p \in Pulls, NEW s \in Shops, FetchStart(p, s) PROVE IInv'
  BY <1>4, FetchStartOK
<1>5. ASSUME NEW p \in Pulls,
             \/ FetchPage(p) \/ PullStops(p) \/ PullEnds(p)
             \/ UpsertOrder(p) \/ UpsertOrderFails(p) \/ ReadOrders(p) \/ UpsertLine(p)
      PROVE  IInv'
  BY <1>5, FetchPageOK, PullOverOK, UpsertOrderOK, UpsertOrderFailsOK, LinesOK
<1>6. ASSUME \/ \E s \in Shops : RebuildRead(s)
             \/ RebuildWrite \/ ReportEnds
      PROVE  IInv'
  <2>1. UNCHANGED <<now, sold, orders, pulls>>
    BY <1>6 DEF RebuildRead, RebuildWrite, ReportEnds
  <2> QED
    BY <2>1, StillOK DEF IInv, SoldOK
<1> QED
  BY <1>1, <1>2, <1>3, <1>4, <1>5, <1>6 DEF Next

\* The inductive invariant holds, with or without the lock.
THEOREM Invariant == Spec => []IInv
  BY InitOK, NextOK, PTL DEF Spec

\* PullIsStored for any number of pulls, shops and orders: what the pages of a
\* pull listed is in the table when it comes to the lines, whatever pulls of
\* other shops wrote meanwhile. The lock plays no part in it.
THEOREM PullsAreStored == Spec => []PullIsStored
<1>1. ASSUME IInv PROVE PullIsStored
  <2> SUFFICES ASSUME NEW p \in Pulls, pulls[p].step = "items",
                      NEW o \in Seen(pulls[p]) \ pulls[p].failed
               PROVE  Written(pulls[p], o, orders)
    BY DEF PullIsStored, Written, NotBefore
  <2>1. PullOK(pulls[p], sold, orders)
    BY <1>1 DEF IInv, PullsOK, Active, Idle, Over
  <2>2. Accounted(pulls[p], orders)
    BY <2>1 DEF PullOK
  <2>3. PICK i \in DOMAIN pulls[p].batch : pulls[p].batch[i].order = o
    BY DEF Seen
  <2> QED
    BY <2>2, <2>3 DEF Accounted, Waits
<1> QED
  BY <1>1, Invariant, PTL

\* RowsGrow under the lock: no row goes back to an older version while its shop
\* stays, although no statement compares versions.
THEOREM RowsNeverGoBack == ASSUME Locked PROVE Spec => RowsGrow
<1> DEFINE Grows == \A o \in Orders :
             orders[o] # None /\ orders'[o].shop = orders[o].shop => orders'[o].ver >= orders[o].ver
<1>1. ASSUME IInv, [Next]_vars PROVE Grows
  <2>1. \A o \in Orders : orders[o] # None => orders[o].ver >= orders[o].ver
    <3>1. \A o \in Orders : orders[o] # None => orders[o].ver \in Nat
      BY <1>1, VersionsAreNats DEF IInv, RowsOK, RowOK, Stored
    <3> QED
      BY <3>1
  <2>2. CASE UNCHANGED orders
    BY <2>1, <2>2
  <2>3. ASSUME NEW p \in Pulls, UpsertOrder(p) PROVE Grows
    <3> DEFINE f == pulls[p]
               e == Head(f.todo)
    <3>1. /\ f.step = "orders" /\ f.todo # <<>>
          /\ orders' = [orders EXCEPT ![e.order] = Upserted(e, f.shop, @)]
      BY <2>3 DEF UpsertOrder
    <3>2. PullOK(f, sold, orders)
      BY <1>1, <3>1 DEF IInv, PullsOK, Active, Idle, Over
    <3>3. 1 \in DOMAIN f.todo /\ e = f.todo[1] /\ e.order \in Orders /\ e.ver \in Nat
      BY <3>1, <3>2, TailOfEntries, EntryTypes DEF PullOK, Fresh
    <3>4. orders[e.order] # None /\ orders[e.order].shop = f.shop => orders[e.order].ver <= e.ver
      BY <3>1, <3>2, <3>3 DEF PullOK, Ahead
    <3>5. \A o \in Orders : orders'[o] = IF o = e.order THEN Upserted(e, f.shop, orders[o]) ELSE orders[o]
      BY <1>1, <3>1 DEF IInv, RowsOK
    <3>6. Upserted(e, f.shop, orders[e.order]).shop = f.shop /\ Upserted(e, f.shop, orders[e.order]).ver = e.ver
      BY DEF Upserted
    <3>7. orders[e.order] # None => orders[e.order].ver \in Nat
      BY <1>1, <3>3, VersionsAreNats DEF IInv, RowsOK, RowOK, Stored
    <3> QED
      BY <2>1, <3>3, <3>4, <3>5, <3>6, <3>7
  <2> QED
    BY <1>1, <2>2, <2>3 DEF Next, vars, Tick, Change, FetchStart, FetchPage, PullStops,
       PullEnds, UpsertOrderFails, ReadOrders, UpsertLine, RebuildRead, RebuildWrite, ReportEnds
<1> QED
  BY <1>1, Invariant, PTL DEF Spec, RowsGrow

-----------------------------------------------------------------------------
(* The lines of a version, and those of a pull                               *)

LEMMA MaxIsIn ==
  ASSUME NEW n \in Nat, NEW T \in SUBSET (1..n), T # {}
  PROVE  Max(T) \in T
<1> DEFINE Gaps == {m \in Nat : n - m \in T}
<1>1. PICK m \in Gaps : \A k \in Gaps : m <= k
  <2>1. PICK x \in T : x \in 1..n
    OBVIOUS
  <2>2. n - x \in Nat /\ n - (n - x) = x
    BY <2>1
  <2>3. Gaps \subseteq Nat /\ Gaps # {}
    BY <2>2
  <2> HIDE DEF Gaps
  <2> QED
    BY <2>3, LeastNumber
<1>2. m \in Nat /\ n - m \in T
  OBVIOUS
<1>3. ASSUME NEW y \in T PROVE n - m >= y
  <2>1. y \in 1..n /\ n - y \in Nat /\ n - (n - y) = y
    OBVIOUS
  <2>2. m <= n - y
    BY <1>1, <2>1
  <2> QED
    BY <1>2, <2>1, <2>2
<1>4. \E x \in T : \A y \in T : x >= y
  BY <1>2, <1>3
<1> QED
  BY <1>4 DEF Max

\* The recursion of the fold that drops the later lines of a SKU.
KeepsFirst(s, g) ==
  g = [t \in SUBSET (DOMAIN s) |->
         IF t = {} THEN <<>>
         ELSE LET i == Max(t) IN IF Contains(g[t \ {i}], s[i]) THEN g[t \ {i}]
                                 ELSE Append(g[t \ {i}], s[i])]

LEMMA DistinctIsASequence ==
  ASSUME NEW T, NEW s \in Seq(T)
  PROVE  FoldLeft(LAMBDA kept, sku : IF Contains(kept, sku) THEN kept ELSE Append(kept, sku), <<>>, s)
           \in Seq(T)
<1> DEFINE D == DOMAIN s
           pick == [t \in SUBSET D |-> Max(t)]
           F == [i \in D |-> [r \in Seq(T) |-> IF Contains(r, s[i]) THEN r ELSE Append(r, s[i])]]
<1>1. D = 1..Len(s) /\ Len(s) \in Nat /\ IsFiniteSet(D)
  BY LenProperties, FS_Interval
<1>2. \A t \in SUBSET D : t # {} => Max(t) \in t
  BY <1>1, MaxIsIn
<1>3. \A i \in D, r \in Seq(T) : F[i][r] \in Seq(T)
  BY AppendProperties
<1>4. PICK h \in [SUBSET D -> Seq(T)] : Recurs(SUBSET D, <<>>, pick, F, h)
  <2>1. \A t \in SUBSET D : t # {} => pick[t] \in t
    BY <1>2
  <2>2. <<>> \in Seq(T)
    OBVIOUS
  <2> HIDE DEF pick, F, D
  <2> QED
    BY <1>1, <1>3, <2>1, <2>2, RecursionExists
<1>5. KeepsFirst(s, h)
  <2>1. ASSUME NEW t \in SUBSET D, t # {}
        PROVE  /\ Max(t) \in D /\ h[t \ {Max(t)}] \in Seq(T)
               /\ h[t] = F[Max(t)][h[t \ {Max(t)}]]
    BY <1>2, <1>4, <2>1 DEF Recurs
  <2>2. h[{}] = <<>>
    BY <1>4 DEF Recurs
  <2> QED
    BY <2>1, <2>2 DEF KeepsFirst
<1> DEFINE g == CHOOSE g : KeepsFirst(s, g)
<1>6. KeepsFirst(s, g)
  BY <1>5
<1>7. FoldLeft(LAMBDA kept, sku : IF Contains(kept, sku) THEN kept ELSE Append(kept, sku), <<>>, s) = g[D]
  BY DEF FoldLeft, MapThenFoldSet, KeepsFirst
<1> HIDE DEF g
<1> DEFINE Bad == {t \in SUBSET D : g[t] \notin Seq(T)}
<1>8. Bad = {}
  <2> SUFFICES ASSUME Bad # {} PROVE FALSE
    OBVIOUS
  <2>1. PICK t \in Bad : \A u \in Bad : u \subseteq t => u = t
    <3>1. Bad \subseteq SUBSET D
      OBVIOUS
    <3> HIDE DEF Bad
    <3> QED
      BY <1>1, <3>1, SmallestSubset
  <2>2. g[{}] = <<>>
    BY <1>6 DEF KeepsFirst
  <2>3. t \in SUBSET D /\ g[t] \notin Seq(T)
    OBVIOUS
  <2>4. t # {} /\ Max(t) \in t /\ Max(t) \in D
    <3>1. <<>> \in Seq(T)
      OBVIOUS
    <3> QED
      BY <1>2, <2>2, <2>3, <3>1
  <2> DEFINE rest == t \ {Max(t)}
  <2>5. rest \in SUBSET D /\ g[rest] \in Seq(T)
    <3>1. rest \in SUBSET D /\ rest \subseteq t /\ rest # t
      BY <2>3, <2>4
    <3>2. rest \notin Bad
      <4> HIDE DEF Bad, rest
      <4> QED
        BY <2>1, <3>1
    <3> QED
      BY <3>1, <3>2
  <2>6. s[Max(t)] \in T
    BY <2>4
  <2>7. g[t] \in {g[rest], Append(g[rest], s[Max(t)])}
    BY <1>6, <2>3, <2>4 DEF KeepsFirst
  <2> HIDE DEF rest
  <2>8. Append(g[rest], s[Max(t)]) \in Seq(T)
    BY <2>5, <2>6, AppendProperties
  <2> HIDE DEF Bad
  <2> QED
    BY <2>3, <2>5, <2>7, <2>8
<1> QED
  BY <1>7, <1>8

LEMMA KeysOfVersion ==
  ASSUME NEW v \in Versions
  PROVE  extractLineItemsForOrder(v) \in Seq(Keys(v)) /\ Keys(v) \subseteq AllKeys
<1> DEFINE distinct == FoldLeft(LAMBDA kept, sku : IF Contains(kept, sku) THEN kept ELSE Append(kept, sku),
                                <<>>, Lines[v])
<1>1. Lines[v] \in Seq(STRING)
  BY OrderAssumption DEF Versions
<1>2. distinct \in Seq(STRING)
  BY <1>1, DistinctIsASequence
<1>3. extractLineItemsForOrder(v) = [i \in DOMAIN distinct |-> <<i, distinct[i]>>]
  BY DEF extractLineItemsForOrder
<1> HIDE DEF distinct
<1>4. DOMAIN distinct = 1..Len(distinct) /\ Len(distinct) \in Nat
  BY <1>2, LenProperties
<1>5. \A i \in DOMAIN distinct : extractLineItemsForOrder(v)[i] \in Keys(v)
  BY <1>3 DEF Keys, ToSet
<1> QED
  BY <1>3, <1>4, <1>5 DEF AllKeys

\* A line that a pull has to write.
Keyed == [order : Orders, ver : Versions, key : AllKeys, last : BOOLEAN]

\* The j-th line of the i-th order.
LineOf(es, ks, i, j) == [order |-> es[i].order, ver |-> es[i].ver, key |-> ks[i][j],
                         last |-> j = Len(ks[i])]

LEMMA LineFields ==
  ASSUME NEW es, NEW ks, NEW i, NEW j
  PROVE  LET line == LineOf(es, ks, i, j) IN
         /\ line.order = es[i].order /\ line.ver = es[i].ver /\ line.key = ks[i][j]
         /\ line.last <=> j = Len(ks[i])
<1>1. LineOf(es, ks, i, j).order = es[i].order /\ LineOf(es, ks, i, j).ver = es[i].ver /\ LineOf(es, ks, i, j).key = ks[i][j]
  BY DEF LineOf
<1>2. LineOf(es, ks, i, j).last <=> j = Len(ks[i])
  BY ZenonT(20) DEF LineOf
<1> QED
  BY <1>1, <1>2

LEMMA LineTypes ==
  ASSUME NEW es \in Seq(Entries), NEW ks, NEW i \in DOMAIN es, NEW j,
         ks[i][j] \in AllKeys
  PROVE  LineOf(es, ks, i, j) \in Keyed
<1>1. es[i].order \in Orders /\ es[i].ver \in Versions
  BY EntryTypes
<1> QED
  BY <1>1 DEF LineOf, Keyed

LEMMA LinesOfBatch ==
  ASSUME NEW es \in Seq(Entries), Distinct(es)
  PROVE  LET ls == LinesOf(es) IN
         /\ ls \in Seq(Keyed)
         /\ \A j \in DOMAIN ls : \E i \in DOMAIN es : ls[j].order = es[i].order /\ ls[j].ver = es[i].ver
         /\ \A i \in DOMAIN es : \A k \in Keys(es[i].ver) :
              \E j \in DOMAIN ls : ls[j].order = es[i].order /\ ls[j].key = k
         /\ \A i, j \in DOMAIN ls : ls[i].last /\ i < j => ls[j].order # ls[i].order
<1> DEFINE ks == [i \in DOMAIN es |-> extractLineItemsForOrder(es[i].ver)]
           parts == [i \in DOMAIN es |-> [j \in DOMAIN ks[i] |-> LineOf(es, ks, i, j)]]
           ls == FlattenSeq(parts)
<1>1. LinesOf(es) = ls
  <2>1. \A i \in DOMAIN es : ks[i] = extractLineItemsForOrder(es[i].ver)
    OBVIOUS
  <2> QED
    BY <2>1 DEF LinesOf, LineOf
<1>2. DOMAIN es = 1..Len(es) /\ Len(es) \in Nat
  BY LenProperties
<1>3. ASSUME NEW i \in DOMAIN es
      PROVE  /\ es[i].order \in Orders /\ es[i].ver \in Versions
             /\ ks[i] \in Seq(Keys(es[i].ver)) /\ Keys(es[i].ver) \subseteq AllKeys
             /\ DOMAIN ks[i] = 1..Len(ks[i]) /\ Len(ks[i]) \in Nat
             /\ Keys(es[i].ver) = ToSet(ks[i])
  <2>1. es[i].order \in Orders /\ es[i].ver \in Versions
    BY EntryTypes
  <2>2. /\ ks[i] \in Seq(Keys(es[i].ver)) /\ Keys(es[i].ver) \subseteq AllKeys
        /\ Keys(es[i].ver) = ToSet(ks[i])
    BY <2>1, KeysOfVersion DEF Keys
  <2> HIDE DEF ks
  <2> QED
    BY <2>1, <2>2, LenProperties
<1> HIDE DEF ks
<1>4. ASSUME NEW i \in DOMAIN es, NEW j \in DOMAIN ks[i] PROVE LineOf(es, ks, i, j) \in Keyed
  <2>1. ks[i][j] \in AllKeys
    BY <1>3
  <2> QED
    BY <2>1, LineTypes
<1>5. parts \in Seq(Seq(Keyed))
  <2>1. \A i \in DOMAIN es : parts[i] \in Seq(Keyed)
    <3> SUFFICES ASSUME NEW i \in DOMAIN es PROVE [j \in DOMAIN ks[i] |-> LineOf(es, ks, i, j)] \in Seq(Keyed)
      OBVIOUS
    <3> QED
      BY <1>3, <1>4
  <2>2. parts \in [DOMAIN es -> Seq(Keyed)]
    BY <2>1
  <2> HIDE DEF parts
  <2> QED
    BY <1>2, <2>2
<1>6. DOMAIN parts = DOMAIN es /\ Len(parts) = Len(es)
  BY <1>2, <1>5, LenProperties
<1>7. \A i \in DOMAIN es : DOMAIN parts[i] = DOMAIN ks[i] /\ \A j \in DOMAIN ks[i] : parts[i][j] = LineOf(es, ks, i, j)
  OBVIOUS
<1>8. /\ ls \in Seq(Keyed) /\ FromParts(parts, Len(parts), ls)
      /\ AllParts(parts, Len(parts), ls) /\ InOrder(parts, Len(parts), ls)
  <2> HIDE DEF parts
  <2> QED
    BY <1>5, FlattenSeqJoins
<1> HIDE DEF parts, ls
<1>9. \A j \in DOMAIN ls : \E i \in DOMAIN es : ls[j].order = es[i].order /\ ls[j].ver = es[i].ver
  <2> SUFFICES ASSUME NEW j \in DOMAIN ls
               PROVE  \E i \in DOMAIN es : ls[j].order = es[i].order /\ ls[j].ver = es[i].ver
    OBVIOUS
  <2>1. PICK i \in DOMAIN es : \E m \in DOMAIN parts[i] : ls[j] = parts[i][m]
    BY <1>2, <1>6, <1>8 DEF FromParts
  <2>2. PICK m \in DOMAIN ks[i] : ls[j] = LineOf(es, ks, i, m)
    BY <1>7, <2>1
  <2> QED
    BY <2>2, LineFields
<1>10. ASSUME NEW i \in DOMAIN es, NEW k \in Keys(es[i].ver)
       PROVE  \E j \in DOMAIN ls : ls[j].order = es[i].order /\ ls[j].key = k
  <2>1. PICK m \in DOMAIN ks[i] : ks[i][m] = k
    BY <1>3 DEF ToSet
  <2>2. PICK j \in DOMAIN ls : ls[j] = parts[i][m]
    BY <1>2, <1>6, <1>7, <1>8, <2>1 DEF AllParts
  <2>3. ls[j] = LineOf(es, ks, i, m)
    BY <1>7, <2>2
  <2> QED
    BY <2>1, <2>3, LineFields
<1>11. ASSUME NEW i \in DOMAIN ls, NEW j \in DOMAIN ls, ls[i].last, i < j
       PROVE  ls[j].order # ls[i].order
  <2>1. PICK a \in DOMAIN es, b \in DOMAIN es : \E x \in DOMAIN parts[a], y \in DOMAIN parts[b] :
          /\ ls[i] = parts[a][x] /\ ls[j] = parts[b][y]
          /\ a < b \/ (a = b /\ x < y)
    BY <1>2, <1>6, <1>8, <1>11 DEF InOrder
  <2>2. PICK x \in DOMAIN ks[a], y \in DOMAIN ks[b] :
          /\ ls[i] = LineOf(es, ks, a, x) /\ ls[j] = LineOf(es, ks, b, y)
          /\ a < b \/ (a = b /\ x < y)
    BY <1>7, <2>1
  <2>3. x = Len(ks[a]) /\ y <= Len(ks[b])
    BY <1>3, <1>11, <2>2, LineFields
  <2>4. a # b
    BY <1>3, <2>2, <2>3
  <2> QED
    BY <2>2, <2>4, LineFields DEF Distinct
<1> QED
  BY <1>1, <1>8, <1>9, <1>10, <1>11

-----------------------------------------------------------------------------
(* The invariant of the tables, of the lines that pulls still have to write, *)
(* and of the report                                                         *)

Has(o, k, v, its) == its[o][k] # None /\ its[o][k].ver = v
Left(f, o, k) == \E j \in DOMAIN f.todo : f.todo[j].order = o /\ f.todo[j].key = k
RowWritten(e, rows) == rows[e.order] # None /\ rows[e.order].ver = e.ver

\* The pull has come to an order: it is torn, and the pull's shop wrote it.
Begun(f, o, tn, wr) == o \in tn /\ f.shop \in wr[o]

\* No order is paid before it is placed.
Timed(e, sd) == e.born = sd[e.order].born /\ (e.paid # None => e.born <= e.paid)

\* While rows are written: an order of the batch waits, or the pull has come to
\* it, and then a lone pull that did not fail has its version in the table.
OrdersStep(f, rows, tn, wr) ==
  /\ \A j \in DOMAIN f.todo : \E i \in DOMAIN f.batch : f.todo[j] = f.batch[i]
  /\ \A i \in DOMAIN f.batch : LET e == f.batch[i] IN
       \/ Waits(f, e.order)
       \/ /\ Begun(f, e.order, tn, wr)
          /\ f.alone /\ e.order \notin f.failed => RowWritten(e, rows)

\* Every line of an order of the batch is written or waits.
LinesWritten(f, e, rows, its) ==
  /\ RowWritten(e, rows)
  /\ \A k \in Keys(e.ver) : Has(e.order, k, e.ver, its) \/ Left(f, e.order, k)

OfBatch(line, f) == \E i \in DOMAIN f.batch : line.order = f.batch[i].order /\ line.ver = f.batch[i].ver

LastIsLast(todo) == \A i, j \in DOMAIN todo : todo[i].last /\ i < j => todo[j].order # todo[i].order

\* While lines are written: those that wait are of orders the pull has come to.
ItemsStep(f, rows, its, tn, wr) ==
  /\ f.todo \in Seq(Keyed) /\ LastIsLast(f.todo)
  /\ \A j \in DOMAIN f.todo : OfBatch(f.todo[j], f) /\ Begun(f, f.todo[j].order, tn, wr)
  /\ \A o \in Orders : f.known[o] # None => f.known[o] \in wr[o]
  /\ f.alone => \A i \in DOMAIN f.batch :
       f.batch[i].order \notin f.failed => LinesWritten(f, f.batch[i], rows, its)

Writes(f, sd, rows, its, tn, wr) ==
  /\ f.pages \in Nat /\ f.pages < PageLimit /\ Len(f.batch) <= PageLimit
  /\ f.step = "fetch" => Len(f.batch) <= f.pages
  /\ \A i \in DOMAIN f.batch : Timed(f.batch[i], sd)
  /\ f.step = "orders" => OrdersStep(f, rows, tn, wr)
  /\ f.step = "items" => ItemsStep(f, rows, its, tn, wr)

PullsWrite == \A p \in Pulls :
  Active(pulls[p]) => Writes(pulls[p], sold, orders, items, torn, writers)

Counts == changes \in 0..MaxChanges /\ faults \in 0..MaxFaults

SoldInTime == \A o \in Orders : sold[o] # None =>
  sold[o].born <= now /\ (sold[o].paid # None => sold[o].born <= sold[o].paid)

TablesOK ==
  /\ orders \in [Orders -> Stored \cup {None}]
  /\ items \in [Orders -> [AllKeys -> Kept \cup {None}]]
  /\ torn \subseteq Orders
  /\ writers \in [Orders -> SUBSET Shops] /\ \A o \in Orders : IsFiniteSet(writers[o])

\* A row and a line are of shops that wrote the order; an order that is not
\* torn has the lines of its version.
RowStands(o, sd, rows, wr) == rows[o] # None =>
  /\ rows[o].shop \in wr[o] /\ rows[o].born = sd[o].born
  /\ rows[o].paid # None => rows[o].born <= rows[o].paid

LinesStand(o, its, wr) == \A k \in AllKeys : its[o][k] # None => its[o][k].tenant \in wr[o]

Whole(o, rows, its) == rows[o] # None => \A k \in Keys(rows[o].ver) : Has(o, k, rows[o].ver, its)

RowsStand == \A o \in Orders :
  /\ RowStands(o, sold, orders, writers)
  /\ LinesStand(o, items, writers)
  /\ o \notin torn => Whole(o, orders, items)

RowsOf(s) == [o \in Orders |-> IF orders[o] = None \/ orders[o].shop # s THEN None ELSE orders[o]]

\* A rebuild that nothing has written under holds the rows as they are.
ReportOK ==
  \/ DOMAIN ops = {"step", "quiet"} /\ ops.step = "none" /\ ops.quiet = FALSE
  \/ /\ DOMAIN ops = {"step", "tenant", "quiet", "got"}
     /\ ops.quiet => ops.got = RowsOf(ops.tenant)
     /\ ops.step = "report" => file = ops.got

JInv == Counts /\ SoldInTime /\ TablesOK /\ RowsStand /\ PullsWrite /\ ReportOK

-----------------------------------------------------------------------------
(* The parts that hardly move                                                *)

LEMMA CountsOK ==
  ASSUME Counts, [Next]_vars
  PROVE  Counts'
<1>1. MaxChanges \in Nat /\ MaxFaults \in Nat
  BY OrderAssumption
<1>2. changes' = changes \/ (changes < MaxChanges /\ changes' = changes + 1)
  BY DEF Next, vars, Tick, Change, FetchStart, FetchPage, PullStops, PullEnds, UpsertOrder,
     UpsertOrderFails, ReadOrders, UpsertLine, RebuildRead, RebuildWrite, ReportEnds
<1>3. faults' = faults \/ (faults < MaxFaults /\ faults' = faults + 1)
  BY DEF Next, vars, Tick, Change, FetchStart, FetchPage, PullStops, PullEnds, UpsertOrder,
     UpsertOrderFails, ReadOrders, UpsertLine, RebuildRead, RebuildWrite, ReportEnds
<1> QED
  BY <1>1, <1>2, <1>3 DEF Counts

LEMMA NoisyIsOK ==
  ASSUME ReportOK, ops' = Noisy, UNCHANGED file
  PROVE  ReportOK'
<1>1. CASE DOMAIN ops = {"step", "quiet"} /\ ops.step = "none" /\ ops.quiet = FALSE
  <2>1. DOMAIN Noisy = {"step", "quiet"} /\ Noisy.step = "none" /\ Noisy.quiet = FALSE
    BY <1>1 DEF Noisy
  <2> QED
    BY <2>1 DEF ReportOK
<1>2. CASE DOMAIN ops = {"step", "tenant", "quiet", "got"} /\ (ops.step = "report" => file = ops.got)
  <2>1. /\ DOMAIN Noisy = {"step", "tenant", "quiet", "got"} /\ Noisy.quiet = FALSE
        /\ Noisy.step = ops.step /\ Noisy.got = ops.got
    BY <1>2 DEF Noisy
  <2> QED
    BY <1>2, <2>1 DEF ReportOK
<1> QED
  BY <1>1, <1>2 DEF ReportOK

LEMMA ReportStaysOK ==
  ASSUME ReportOK, [Next]_vars
  PROVE  ReportOK'
<1>1. CASE ops' = Noisy /\ UNCHANGED file
  BY <1>1, NoisyIsOK
<1>2. CASE UNCHANGED <<ops, orders, file>>
  BY <1>2 DEF ReportOK, RowsOf
<1>3. ASSUME NEW s \in Shops, RebuildRead(s) PROVE ReportOK'
  BY <1>3 DEF RebuildRead, ReportOK, RowsOf
<1>4. CASE RebuildWrite \/ ReportEnds
  <2>1. DOMAIN ops = {"step", "tenant", "quiet", "got"} /\ (ops.quiet => ops.got = RowsOf(ops.tenant))
    BY <1>4 DEF RebuildWrite, ReportEnds, ReportOK
  <2>2. CASE RebuildWrite
    BY <2>1, <2>2 DEF RebuildWrite, ReportOK, RowsOf
  <2>3. CASE ReportEnds
    BY <2>1, <2>3 DEF ReportEnds, ReportOK, RowsOf
  <2> QED
    BY <1>4, <2>2, <2>3
<1>5. ASSUME NEW p \in Pulls, UpsertOrder(p) \/ UpsertLine(p) PROVE ops' = Noisy /\ UNCHANGED file
  BY <1>5 DEF UpsertOrder, UpsertLine
<1>6. Tick => ops' = Noisy /\ UNCHANGED file
  BY DEF Tick
<1> QED
  BY <1>1, <1>2, <1>3, <1>4, <1>5, <1>6 DEF Next, vars, Change, FetchStart, FetchPage,
     PullStops, PullEnds, UpsertOrderFails, ReadOrders

\* What the platform sold stays in time, and keeps when it was placed.
LEMMA SoldStaysInTime ==
  ASSUME IInv, IInv', SoldInTime, [Next]_vars
  PROVE  /\ SoldInTime'
         /\ \A o \in Orders : sold[o] # None => sold'[o].born = sold[o].born
<1>1. now \in Nat /\ now' \in Nat
  BY VersionsAreNats DEF IInv, SoldOK
<1>2. CASE UNCHANGED <<sold, now>>
  BY <1>2 DEF SoldInTime
<1>3. CASE Tick
  <2>1. \A o \in Orders : sold[o] # None => sold[o].born \in Nat
    BY VersionsAreNats DEF IInv, SoldOK, Placed
  <2> QED
    BY <1>1, <1>3, <2>1 DEF Tick, SoldInTime
<1>4. ASSUME NEW o \in Orders, Change(o) PROVE SoldInTime' /\ \A i \in Orders : sold[i] # None => sold'[i].born = sold[i].born
  <2> DEFINE v == IF sold[o] = None THEN 1 ELSE sold[o].ver + 1
             new == [ver  |-> v, born |-> IF v = 1 THEN now ELSE sold[o].born,
                     paid |-> IF v = PaidFrom THEN now ELSE IF v = 1 THEN None ELSE sold[o].paid]
  <2>1. sold' = [sold EXCEPT ![o] = new] /\ UNCHANGED now
    BY <1>4 DEF Change
  <2>2. sold[o] # None => v # 1 /\ sold[o].born \in Nat
    <3>1. sold[o] = None \/ (sold[o] \in Placed /\ v # 1)
      BY VersionsAreNats, OrderAssumption DEF IInv, SoldOK, Placed, Versions
    <3> QED
      BY <3>1, VersionsAreNats DEF Placed
  <2>3. new.born <= now /\ (new.paid # None => new.born <= new.paid)
    BY <1>1, <2>2 DEF SoldInTime
  <2>4. sold[o] # None => new.born = sold[o].born
    BY <2>2
  <2>5. \A i \in Orders : sold'[i] = IF i = o THEN new ELSE sold[i]
    BY <2>1 DEF IInv, SoldOK
  <2> HIDE DEF new
  <2> QED
    BY <2>1, <2>3, <2>4, <2>5 DEF SoldInTime
<1> QED
  BY <1>2, <1>3, <1>4 DEF Next, vars, Tick, FetchStart, FetchPage, PullStops, PullEnds,
     UpsertOrder, UpsertOrderFails, ReadOrders, UpsertLine, RebuildRead, RebuildWrite, ReportEnds

-----------------------------------------------------------------------------
(* Steps around a pull, as the lines see them                                *)

\* A pull that knows of company counts on no row or line.
LEMMA OthersMayMove ==
  ASSUME NEW f, NEW sd, NEW rows, NEW its, NEW tn, NEW wr,
         Writes(f, sold, orders, items, torn, writers), ~f.alone,
         Fresh(f, f.batch, sold),
         \A o \in Orders : torn \subseteq tn /\ writers[o] \subseteq wr[o],
         \A i \in DOMAIN f.batch : sd[f.batch[i].order].born = sold[f.batch[i].order].born
  PROVE  Writes(f, sd, rows, its, tn, wr)
<1>1. \A i \in DOMAIN f.batch : f.batch[i].order \in Orders
  BY EntryTypes DEF Fresh
<1>2. \A i \in DOMAIN f.batch : Timed(f.batch[i], sd)
  BY DEF Writes, Timed
<1>3. \A o \in Orders : Begun(f, o, torn, writers) => Begun(f, o, tn, wr)
  BY DEF Begun
<1>4. f.step = "orders" => OrdersStep(f, rows, tn, wr)
  <2> SUFFICES ASSUME f.step = "orders" PROVE OrdersStep(f, rows, tn, wr)
    OBVIOUS
  <2>1. OrdersStep(f, orders, torn, writers)
    BY DEF Writes
  <2>2. ASSUME NEW i \in DOMAIN f.batch
        PROVE  LET e == f.batch[i] IN Waits(f, e.order) \/ Begun(f, e.order, tn, wr)
    BY <1>1, <1>3, <2>1 DEF OrdersStep
  <2>3. \A j \in DOMAIN f.todo : \E i \in DOMAIN f.batch : f.todo[j] = f.batch[i]
    BY <2>1 DEF OrdersStep
  <2> QED
    BY <2>2, <2>3 DEF OrdersStep
<1>5. f.step = "items" => ItemsStep(f, rows, its, tn, wr)
  <2> SUFFICES ASSUME f.step = "items" PROVE ItemsStep(f, rows, its, tn, wr)
    OBVIOUS
  <2>1. ItemsStep(f, orders, items, torn, writers)
    BY DEF Writes
  <2>2. ASSUME NEW j \in DOMAIN f.todo
        PROVE  OfBatch(f.todo[j], f) /\ Begun(f, f.todo[j].order, tn, wr)
    <3>1. OfBatch(f.todo[j], f) /\ Begun(f, f.todo[j].order, torn, writers)
      BY <2>1 DEF ItemsStep
    <3>2. f.todo[j].order \in Orders
      BY <1>1, <3>1 DEF OfBatch
    <3> QED
      BY <1>3, <3>1, <3>2
  <2>3. f.todo \in Seq(Keyed) /\ LastIsLast(f.todo)
    BY <2>1 DEF ItemsStep
  <2>4. \A o \in Orders : f.known[o] # None => f.known[o] \in wr[o]
    BY <2>1 DEF ItemsStep
  <2> QED
    BY <2>2, <2>3, <2>4 DEF ItemsStep
<1> QED
  BY <1>2, <1>4, <1>5 DEF Writes

\* One pull moves; the others were told of it, or there are none.
LEMMA OnePullMoves ==
  ASSUME IInv, JInv, NEW p \in Pulls, NEW f, Active(pulls[p]),
         pulls' = [pulls EXCEPT ![p] = f], UNCHANGED sold,
         Active(f) => Writes(f, sold, orders', items', torn', writers'),
         ~pulls[p].alone => torn \subseteq torn',
         \A o \in Orders : writers[o] \subseteq writers'[o]
  PROVE  PullsWrite'
<1>1. \A q \in Pulls : pulls'[q] = IF q = p THEN f ELSE pulls[q]
  BY DEF IInv, PullsOK
<1>2. ASSUME NEW q \in Pulls, q # p, Active(pulls[q])
      PROVE  Writes(pulls[q], sold, orders', items', torn', writers')
  <2>1. ~pulls[q].alone /\ ~pulls[p].alone
    BY <1>2 DEF IInv, Apart
  <2>2. Writes(pulls[q], sold, orders, items, torn, writers) /\ Fresh(pulls[q], pulls[q].batch, sold)
    BY <1>2 DEF JInv, PullsWrite, IInv, PullsOK, PullOK
  <2> QED
    BY <2>1, <2>2, OthersMayMove
<1> QED
  BY <1>1, <1>2 DEF PullsWrite

\* The tables stay as they are, and so do the pulls; the platform may move.
LEMMA NobodyWrites ==
  ASSUME IInv, JInv, UNCHANGED <<orders, items, torn, writers, pulls>>,
         \A o \in Orders : sold[o] # None => sold'[o].born = sold[o].born
  PROVE  TablesOK' /\ RowsStand' /\ PullsWrite'
<1>1. TablesOK'
  BY DEF JInv, TablesOK
<1>2. RowsStand'
  <2>1. ASSUME NEW o \in Orders PROVE RowStands(o, sold', orders, writers)
    <3>1. RowStands(o, sold, orders, writers) /\ (orders[o] # None => sold[o] # None)
      BY DEF JInv, RowsStand, IInv, RowsOK, RowOK
    <3> QED
      BY <3>1 DEF RowStands
  <2> QED
    BY <2>1 DEF JInv, RowsStand
<1>3. ASSUME NEW p \in Pulls, Active(pulls[p])
      PROVE  Writes(pulls[p], sold', orders, items, torn, writers)
  <2>1. Writes(pulls[p], sold, orders, items, torn, writers) /\ PullOK(pulls[p], sold, orders)
    BY <1>3 DEF JInv, PullsWrite, IInv, PullsOK
  <2>2. ASSUME NEW i \in DOMAIN pulls[p].batch PROVE Timed(pulls[p].batch[i], sold')
    <3>1. pulls[p].batch[i].order \in Orders /\ sold[pulls[p].batch[i].order] # None
      BY <2>1 DEF PullOK, Fresh, Shape
    <3>2. Timed(pulls[p].batch[i], sold)
      BY <2>1 DEF Writes
    <3> QED
      BY <3>1, <3>2 DEF Timed
  <2> QED
    BY <2>1, <2>2 DEF Writes
<1> QED
  BY <1>1, <1>2, <1>3 DEF PullsWrite

LEMMA TablesStay ==
  ASSUME JInv, UNCHANGED <<sold, orders, items, torn, writers>>
  PROVE  TablesOK' /\ RowsStand'
  BY DEF JInv, TablesOK, RowsStand

LEMMA StartWrites ==
  ASSUME IInv, JInv, NEW p \in Pulls, NEW s \in Shops, FetchStart(p, s)
  PROVE  TablesOK' /\ RowsStand' /\ PullsWrite'
<1> DEFINE new == Started(p, s)
           told(q) == [pulls[q] EXCEPT !.alone = FALSE]
<1>1. \A q \in Pulls : pulls'[q] = IF q = p THEN new ELSE IF q \in Rivals(p) THEN told(q) ELSE pulls[q]
  BY DEF FetchStart
<1>2. UNCHANGED <<sold, orders, items, torn, writers>>
  BY DEF FetchStart
<1>3. Writes(new, sold, orders, items, torn, writers)
  <2>1. new.step = "fetch" /\ new.batch = <<>> /\ new.pages = 0
    BY DEF Started
  <2>2. 0 < PageLimit /\ Len(<<>>) <= 0 /\ Len(<<>>) <= PageLimit /\ DOMAIN <<>> = {}
    BY OrderAssumption
  <2> HIDE DEF new
  <2> QED
    BY <2>1, <2>2 DEF Writes
<1>4. ASSUME NEW q \in Pulls, q # p, Active(pulls'[q])
      PROVE  Writes(pulls'[q], sold, orders, items, torn, writers)
  <2>1. Active(pulls[q]) /\ q \in Rivals(p)
    BY <1>1, <1>4 DEF Active, Rivals
  <2>2. /\ Writes(pulls[q], sold, orders, items, torn, writers)
        /\ DOMAIN pulls[q] = Fields /\ pulls'[q] = told(q) /\ pulls[q].alone \in BOOLEAN
    BY <1>1, <1>4, <2>1 DEF JInv, PullsWrite, IInv, PullsOK, PullOK, Shape
  <2>3. /\ told(q).alone = FALSE /\ told(q).step = pulls[q].step /\ told(q).shop = pulls[q].shop
        /\ told(q).batch = pulls[q].batch /\ told(q).failed = pulls[q].failed
        /\ told(q).todo = pulls[q].todo /\ told(q).known = pulls[q].known
        /\ told(q).pages = pulls[q].pages
    BY <2>2 DEF Fields
  <2> HIDE DEF told
  <2>4. OrdersStep(pulls[q], orders, torn, writers) => OrdersStep(told(q), orders, torn, writers)
    BY <2>3 DEF OrdersStep, Waits, Begun
  <2>5. ItemsStep(pulls[q], orders, items, torn, writers) => ItemsStep(told(q), orders, items, torn, writers)
    BY <2>3 DEF ItemsStep, OfBatch, Begun
  <2> QED
    BY <2>2, <2>3, <2>4, <2>5 DEF Writes
<1>5. PullsWrite'
  BY <1>1, <1>2, <1>3, <1>4 DEF PullsWrite
<1> QED
  BY <1>2, <1>5, TablesStay

LEMMA GrownIsTimed ==
  ASSUME IInv, JInv, NEW p \in Pulls, pulls[p].step = "fetch", NEW es, Grown(pulls[p], es)
  PROVE  /\ Len(es) \in Nat /\ Len(es) <= pulls[p].pages + 1
         /\ \A i \in DOMAIN es : Timed(es[i], sold)
<1> DEFINE f == pulls[p]
<1>1. /\ PullOK(f, sold, orders) /\ Active(f) /\ DOMAIN f = Fields
      /\ f.batch \in Seq(Entries) /\ es \in Seq(Entries)
  BY GrownIsFresh DEF PullOK, Fresh
<1>2. Writes(f, sold, orders, items, torn, writers)
  BY <1>1 DEF JInv, PullsWrite
<1>3. Len(es) \in Nat /\ Len(f.batch) \in Nat /\ f.pages \in Nat /\ Len(f.batch) <= f.pages
  BY <1>1, <1>2, LenProperties DEF Writes
<1>4. CASE es = f.batch
  BY <1>2, <1>3, <1>4 DEF Writes
<1>5. ASSUME NEW o \in f.range \ Seen(f), es = Append(f.batch, normalizeOrder(o))
      PROVE  Len(es) <= f.pages + 1 /\ \A i \in DOMAIN es : Timed(es[i], sold)
  <2> DEFINE e == normalizeOrder(o)
  <2>1. o \in Orders /\ sold[o] # None /\ sold[o] \in Placed
    BY <1>1 DEF PullOK, Shape, IInv, SoldOK
  <2>2. e \in Entries /\ e.order = o /\ e.born = sold[o].born /\ e.paid = sold[o].paid
    BY <2>1 DEF Entries, Placed, normalizeOrder
  <2>3. Timed(e, sold)
    BY <2>1, <2>2 DEF Timed, JInv, SoldInTime
  <2>4. /\ Len(es) = Len(f.batch) + 1 /\ es[Len(f.batch) + 1] = e
        /\ \A i \in 1..Len(f.batch) : es[i] = f.batch[i]
    BY <1>1, <1>5, <2>2, AppendProperties
  <2>5. ASSUME NEW i \in DOMAIN es PROVE Timed(es[i], sold)
    <3>1. i \in 1..Len(f.batch) \/ i = Len(f.batch) + 1
      BY <1>1, <2>4
    <3>2. i \in 1..Len(f.batch) => i \in DOMAIN f.batch
      BY <1>1
    <3> QED
      BY <1>2, <2>3, <2>4, <3>1, <3>2 DEF Writes
  <2> QED
    BY <1>3, <2>4, <2>5
<1> QED
  BY <1>3, <1>4, <1>5 DEF Grown

LEMMA PageWrites ==
  ASSUME IInv, JInv, NEW p \in Pulls, FetchPage(p)
  PROVE  TablesOK' /\ RowsStand' /\ PullsWrite'
<1> DEFINE f == pulls[p]
<1>1. PICK es : /\ Grown(f, es)
                /\ \/ /\ f.pages + 1 < PageLimit
                      /\ pulls' = [pulls EXCEPT ![p].pages = @ + 1, ![p].batch = es]
                   \/ pulls' = [pulls EXCEPT ![p] = Fetched(f, es)]
  BY PageShows
<1>2. f.step = "fetch" /\ UNCHANGED <<sold, orders, items, torn, writers>>
  BY DEF FetchPage
<1>3. Active(f) /\ DOMAIN f = Fields /\ Writes(f, sold, orders, items, torn, writers)
  BY <1>1, <1>2, GrownIsFresh DEF JInv, PullsWrite
<1>4. /\ Len(es) \in Nat /\ Len(es) <= f.pages + 1 /\ f.pages \in Nat /\ f.pages < PageLimit
      /\ \A i \in DOMAIN es : Timed(es[i], sold)
  BY <1>1, <1>2, <1>3, GrownIsTimed DEF Writes
<1>5. ASSUME f.pages + 1 < PageLimit,
             pulls' = [pulls EXCEPT ![p].pages = @ + 1, ![p].batch = es]
      PROVE  PullsWrite'
  <2> DEFINE g == [f EXCEPT !.pages = @ + 1, !.batch = es]
  <2>1. g.step = "fetch" /\ g.batch = es /\ g.pages = f.pages + 1
    BY <1>2, <1>3 DEF Fields
  <2>2. pulls' = [pulls EXCEPT ![p] = g]
    BY <1>5
  <2> HIDE DEF g
  <2>3. Writes(g, sold, orders, items, torn, writers)
    BY <1>4, <1>5, <2>1, OrderAssumption DEF Writes
  <2> QED
    BY <1>2, <1>3, <2>2, <2>3, OnePullMoves
<1>6. ASSUME pulls' = [pulls EXCEPT ![p] = Fetched(f, es)] PROVE PullsWrite'
  <2> DEFINE g == Fetched(f, es)
  <2>1. g.step = "orders" /\ g.todo = es /\ g.batch = es /\ g.pages = 0
    BY <1>3 DEF Fetched, Fields
  <2> HIDE DEF g
  <2>2. OrdersStep(g, orders, torn, writers)
    BY <2>1 DEF OrdersStep, Waits
  <2>3. 0 < PageLimit /\ Len(es) <= PageLimit
    BY <1>4, OrderAssumption
  <2>4. Writes(g, sold, orders, items, torn, writers)
    BY <1>4, <2>1, <2>2, <2>3 DEF Writes
  <2>5. pulls' = [pulls EXCEPT ![p] = g]
    BY <1>6 DEF g
  <2> QED
    BY <1>2, <1>3, <2>4, <2>5, OnePullMoves
<1>7. PullsWrite'
  BY <1>1, <1>5, <1>6
<1> QED
  BY <1>2, <1>7, TablesStay

LEMMA OverWrites ==
  ASSUME IInv, JInv, NEW p \in Pulls, PullStops(p) \/ PullEnds(p)
  PROVE  TablesOK' /\ RowsStand' /\ PullsWrite'
<1>1. /\ Active(pulls[p]) /\ pulls' = [pulls EXCEPT ![p] = Over]
      /\ UNCHANGED <<sold, orders, items, torn, writers>>
  BY DEF PullStops, PullEnds, Active, Idle, Over
<1>2. PullsWrite'
  BY <1>1, OnePullMoves DEF Active
<1> QED
  BY <1>1, <1>2, TablesStay

\* The pull's next row, written or failed: the orders step goes on.
LEMMA RowsGoOn ==
  ASSUME IInv, JInv, NEW p \in Pulls, NEW g, NEW rows, NEW tn, NEW wr,
         pulls[p].step = "orders", pulls[p].todo # <<>>,
         tn = torn \cup {Head(pulls[p].todo).order},
         wr = [writers EXCEPT ![Head(pulls[p].todo).order] = @ \cup {pulls[p].shop}],
         \/ /\ g = [pulls[p] EXCEPT !.todo = Tail(pulls[p].todo)]
            /\ rows = [orders EXCEPT ![Head(pulls[p].todo).order] =
                         Upserted(Head(pulls[p].todo), pulls[p].shop, @)]
         \/ /\ g = [pulls[p] EXCEPT !.todo = Tail(pulls[p].todo),
                                    !.failed = @ \cup {Head(pulls[p].todo).order}]
            /\ rows = orders
  PROVE  /\ Writes(g, sold, rows, items, tn, wr)
         /\ Timed(Head(pulls[p].todo), sold) /\ sold[Head(pulls[p].todo).order] # None
         /\ Head(pulls[p].todo) \in Entries /\ pulls[p].shop \in Shops
<1> DEFINE f == pulls[p]
           e == Head(f.todo)
           new == Upserted(e, f.shop, orders[e.order])
<1>1. /\ PullOK(f, sold, orders) /\ DOMAIN f = Fields /\ Fresh(f, f.todo, sold)
      /\ Writes(f, sold, orders, items, torn, writers)
  BY DEF IInv, PullsOK, PullOK, Shape, Active, Idle, Over, JInv, PullsWrite
<1>2. /\ g.batch = f.batch /\ g.todo = Tail(f.todo) /\ g.step = "orders" /\ g.shop = f.shop
      /\ g.alone = f.alone /\ g.pages = f.pages
      /\ f.failed \subseteq g.failed
      /\ e.order \in g.failed \/ rows = [orders EXCEPT ![e.order] = new]
      /\ rows = orders \/ rows = [orders EXCEPT ![e.order] = new]
  BY <1>1, ZenonT(40) DEF Fields
<1>3. /\ e.order \in Orders /\ new # None /\ new.ver = e.ver
  <2>1. e.order \in Orders /\ new \in Stored
    BY UpsertGoesOn
  <2> QED
    BY <2>1, NoneAssumption DEF Upserted
<1>4. OrdersStep(f, orders, torn, writers) /\ f.todo \in Seq(Entries) /\ Distinct(f.batch)
  BY <1>1 DEF Writes, PullOK, Fresh
<1>5. PICK k \in DOMAIN f.batch : e = f.batch[k]
  <2>1. 1 \in DOMAIN f.todo /\ e = f.todo[1]
    BY <1>4, TailOfEntries
  <2> QED
    BY <1>4, <2>1 DEF OrdersStep
<1>6. /\ e \in Entries /\ f.shop \in Shops /\ Timed(e, sold) /\ sold[e.order] # None
  <2>1. e \in Entries /\ e.order \in f.range
    BY <1>1, <1>5, EntryTypes DEF PullOK, Fresh
  <2> QED
    BY <1>1, <1>5, <2>1 DEF PullOK, Shape, Writes
<1>7. \A o \in Orders : rows[o] = orders[o] \/ (o = e.order /\ rows[o] = new)
  BY <1>2 DEF IInv, RowsOK
<1>8. \A o \in Orders : writers[o] \subseteq wr[o]
  BY DEF JInv, TablesOK
<1>9. ASSUME NEW j \in DOMAIN g.todo PROVE \E i \in DOMAIN g.batch : g.todo[j] = g.batch[i]
  <2>1. j + 1 \in DOMAIN f.todo /\ g.todo[j] = f.todo[j + 1]
    <3>1. j \in DOMAIN Tail(f.todo) /\ g.todo[j] = Tail(f.todo)[j]
      BY <1>2
    <3> HIDE DEF f
    <3>2. f.todo # <<>>
      BY DEF f
    <3> QED
      BY <1>4, <3>1, <3>2, TailOfEntries
  <2> QED
    BY <1>2, <1>4, <2>1, ZenonT(40) DEF OrdersStep
<1>10. ASSUME NEW i \in DOMAIN f.batch
       PROVE  LET b == f.batch[i] IN
              \/ Waits(g, b.order)
              \/ /\ Begun(g, b.order, tn, wr)
                 /\ g.alone /\ b.order \notin g.failed => RowWritten(b, rows)
  <2> DEFINE b == f.batch[i]
  <2>1. b.order \in Orders
    BY <1>1, EntryTypes DEF PullOK, Fresh
  <2>2. CASE b.order = e.order
    <3>1. b = e
      BY <1>4, <1>5, <2>2 DEF Distinct
    <3>2. Begun(g, e.order, tn, wr)
      BY <1>2, <1>3 DEF Begun, JInv, TablesOK
    <3>3. e.order \notin g.failed => rows[e.order] = new
      BY <1>2, <1>3 DEF IInv, RowsOK
    <3> QED
      BY <1>3, <3>1, <3>2, <3>3 DEF RowWritten
  <2>3. CASE b.order # e.order
    <3>1. Waits(f, b.order) => Waits(g, b.order)
      <4> SUFFICES ASSUME Waits(f, b.order) PROVE Waits(g, b.order)
        OBVIOUS
      <4>1. PICK j \in DOMAIN f.todo : f.todo[j].order = b.order
        BY DEF Waits
      <4>2. j # 1
        BY <1>4, <2>3, <4>1, TailOfEntries
      <4>3. \E m \in DOMAIN Tail(f.todo) : Tail(f.todo)[m] = f.todo[j]
        BY <1>4, <4>2, TailOfEntries
      <4>4. g.todo = Tail(f.todo) /\ g.step = "orders"
        BY <1>2
      <4> HIDE DEF f, b
      <4> QED
        BY <4>1, <4>3, <4>4 DEF Waits
    <3>2. Begun(f, b.order, torn, writers) => Begun(g, b.order, tn, wr)
      BY <1>2, <1>8, <2>1 DEF Begun
    <3>3. RowWritten(b, orders) => RowWritten(b, rows)
      BY <1>7, <2>1, <2>3 DEF RowWritten
    <3> QED
      BY <1>2, <1>4, <3>1, <3>2, <3>3 DEF OrdersStep
  <2> QED
    BY <2>2, <2>3
<1>11. OrdersStep(g, rows, tn, wr)
  BY <1>2, <1>9, <1>10 DEF OrdersStep
<1> QED
  BY <1>1, <1>2, <1>6, <1>11 DEF Writes

\* One more writer of an order.
LEMMA WritersGrow ==
  ASSUME TablesOK, NEW o \in Orders, NEW s \in Shops, writers' = [writers EXCEPT ![o] = @ \cup {s}]
  PROVE  /\ writers' \in [Orders -> SUBSET Shops] /\ \A i \in Orders : IsFiniteSet(writers'[i])
         /\ \A i \in Orders : writers[i] \subseteq writers'[i]
         /\ s \in writers'[o]
<1>1. IsFiniteSet(writers[o] \cup {s})
  BY FS_AddElement DEF TablesOK
<1> QED
  BY <1>1 DEF TablesOK

LEMMA UpsertOrderWrites ==
  ASSUME IInv, JInv, NEW p \in Pulls, UpsertOrder(p)
  PROVE  TablesOK' /\ RowsStand' /\ PullsWrite'
<1> DEFINE f == pulls[p]
           e == Head(f.todo)
           g == [f EXCEPT !.todo = Tail(f.todo)]
           new == Upserted(e, f.shop, orders[e.order])
<1>1. /\ f.step = "orders" /\ f.todo # <<>> /\ orders' = [orders EXCEPT ![e.order] = new]
      /\ pulls' = [pulls EXCEPT ![p] = g] /\ torn' = torn \cup {e.order}
      /\ writers' = [writers EXCEPT ![e.order] = @ \cup {f.shop}] /\ UNCHANGED <<sold, items>>
  BY DEF UpsertOrder
<1>2. Active(f)
  BY <1>1 DEF Active, Idle, Over
<1>3. /\ Writes(g, sold, orders', items', torn', writers') /\ Timed(e, sold)
      /\ sold[e.order] # None /\ e \in Entries /\ f.shop \in Shops
  BY <1>1, RowsGoOn
<1>4. e.order \in Orders /\ new \in Stored
  BY <1>1, UpsertGoesOn
<1>5. /\ writers' \in [Orders -> SUBSET Shops] /\ \A i \in Orders : IsFiniteSet(writers'[i])
      /\ \A i \in Orders : writers[i] \subseteq writers'[i]
      /\ f.shop \in writers'[e.order]
  BY <1>1, <1>3, <1>4, WritersGrow DEF JInv
<1>6. PullsWrite'
  <2> HIDE DEF g
  <2> QED
    BY <1>1, <1>2, <1>3, <1>5, OnePullMoves
<1>7. TablesOK'
  BY <1>1, <1>4, <1>5 DEF JInv, TablesOK
<1>8. new.born = sold[e.order].born /\ (new.paid # None => new.born <= new.paid) /\ new.shop = f.shop
  <2>1. orders[e.order] # None => orders[e.order].born = sold[e.order].born
    BY <1>4 DEF JInv, RowsStand, RowStands
  <2> QED
    BY <1>3, <2>1 DEF Upserted, Timed
<1>9. \A o \in Orders : orders'[o] = IF o = e.order THEN new ELSE orders[o]
  BY <1>1 DEF JInv, TablesOK
<1>10. RowsStand'
  <2> SUFFICES ASSUME NEW o \in Orders
               PROVE  /\ RowStands(o, sold', orders', writers')
                      /\ LinesStand(o, items', writers')
                      /\ o \notin torn' => Whole(o, orders', items')
    BY DEF RowsStand
  <2>1. RowStands(o, sold, orders, writers) /\ LinesStand(o, items, writers)
        /\ (o \notin torn => Whole(o, orders, items))
    BY DEF JInv, RowsStand
  <2>2. RowStands(o, sold', orders', writers')
    BY <1>1, <1>5, <1>8, <1>9, <2>1 DEF RowStands
  <2>3. LinesStand(o, items', writers')
    BY <1>1, <1>5, <2>1 DEF LinesStand
  <2>4. o \notin torn' => Whole(o, orders', items')
    BY <1>1, <1>9, <2>1 DEF Whole
  <2> QED
    BY <2>2, <2>3, <2>4
<1> QED
  BY <1>6, <1>7, <1>10

LEMMA UpsertOrderFailsWrites ==
  ASSUME IInv, JInv, NEW p \in Pulls, UpsertOrderFails(p)
  PROVE  TablesOK' /\ RowsStand' /\ PullsWrite'
<1> DEFINE f == pulls[p]
           e == Head(f.todo)
           g == [f EXCEPT !.todo = Tail(f.todo), !.failed = @ \cup {e.order}]
<1>1. /\ f.step = "orders" /\ f.todo # <<>>
      /\ pulls' = [pulls EXCEPT ![p] = g] /\ torn' = torn \cup {e.order}
      /\ writers' = [writers EXCEPT ![e.order] = @ \cup {f.shop}] /\ UNCHANGED <<sold, orders, items>>
  BY DEF UpsertOrderFails
<1>2. Active(f)
  BY <1>1 DEF Active, Idle, Over
<1>3. Writes(g, sold, orders', items', torn', writers') /\ f.shop \in Shops
  BY <1>1, RowsGoOn
<1>4. e.order \in Orders
  BY <1>1, UpsertGoesOn
<1>5. /\ writers' \in [Orders -> SUBSET Shops] /\ \A i \in Orders : IsFiniteSet(writers'[i])
      /\ \A i \in Orders : writers[i] \subseteq writers'[i]
  BY <1>1, <1>3, <1>4, WritersGrow DEF JInv
<1>6. PullsWrite'
  <2> HIDE DEF g
  <2> QED
    BY <1>1, <1>2, <1>3, <1>5, OnePullMoves
<1>7. TablesOK'
  BY <1>1, <1>4, <1>5 DEF JInv, TablesOK
<1>8. RowsStand'
  BY <1>1, <1>5 DEF JInv, RowsStand, RowStands, LinesStand
<1> QED
  BY <1>6, <1>7, <1>8

\* The lines of the pull's orders, and the shops of the rows, are read.
LEMMA ReadWrites ==
  ASSUME IInv, JInv, NEW p \in Pulls, ReadOrders(p)
  PROVE  TablesOK' /\ RowsStand' /\ PullsWrite'
<1> DEFINE f == pulls[p]
           ls == LinesOf(f.batch)
           read == [o \in Orders |-> IF orders[o] = None THEN None ELSE orders[o].shop]
           g == [f EXCEPT !.step = "items", !.todo = ls, !.known = read]
<1>1. /\ f.step = "orders" /\ f.todo = <<>> /\ UNCHANGED <<sold, orders, items, torn, writers>>
  BY DEF ReadOrders
<1>2. Active(f)
  BY <1>1 DEF Active, Idle, Over
<1>3. /\ PullOK(f, sold, orders) /\ DOMAIN f = Fields /\ DOMAIN pulls = Pulls
      /\ Writes(f, sold, orders, items, torn, writers)
  BY <1>2 DEF IInv, PullsOK, PullOK, Shape, JInv, PullsWrite
<1>4. pulls' = [pulls EXCEPT ![p] = g]
  BY <1>3 DEF ReadOrders
<1>5. /\ g.step = "items" /\ g.todo = ls /\ g.known = read /\ g.batch = f.batch
      /\ g.shop = f.shop /\ g.alone = f.alone /\ g.failed = f.failed /\ g.pages = f.pages
  BY <1>3 DEF Fields
<1>6. f.batch \in Seq(Entries) /\ Distinct(f.batch)
  BY <1>3 DEF PullOK, Fresh
<1>7. /\ ls \in Seq(Keyed)
      /\ \A j \in DOMAIN ls : \E i \in DOMAIN f.batch : ls[j].order = f.batch[i].order /\ ls[j].ver = f.batch[i].ver
      /\ \A i \in DOMAIN f.batch : \A k \in Keys(f.batch[i].ver) :
           \E j \in DOMAIN ls : ls[j].order = f.batch[i].order /\ ls[j].key = k
      /\ \A i, j \in DOMAIN ls : ls[i].last /\ i < j => ls[j].order # ls[i].order
  <2> HIDE DEF f
  <2> QED
    BY <1>6, LinesOfBatch
<1>8. \A i \in DOMAIN f.batch : LET e == f.batch[i] IN
        /\ Begun(f, e.order, torn, writers)
        /\ f.alone /\ e.order \notin f.failed => RowWritten(e, orders)
  BY <1>1, <1>3 DEF Writes, OrdersStep, Waits
<1>9. \A o \in Orders : read[o] # None => read[o] \in writers[o]
  BY DEF JInv, RowsStand, RowStands
<1> HIDE DEF g, ls, read
<1>10. ItemsStep(g, orders, items, torn, writers)
  <2>1. ASSUME NEW j \in DOMAIN ls PROVE OfBatch(ls[j], g) /\ Begun(g, ls[j].order, torn, writers)
    BY <1>5, <1>7, <1>8 DEF OfBatch, Begun
  <2>2. ASSUME f.alone, NEW i \in DOMAIN f.batch, f.batch[i].order \notin f.failed
        PROVE  LinesWritten(g, f.batch[i], orders, items)
    <3>1. RowWritten(f.batch[i], orders)
      BY <1>8, <2>2
    <3>2. ASSUME NEW k \in Keys(f.batch[i].ver) PROVE Left(g, f.batch[i].order, k)
      <4>1. \E j \in DOMAIN ls : ls[j].order = f.batch[i].order /\ ls[j].key = k
        BY <1>7
      <4> QED
        BY <1>5, <4>1 DEF Left
    <3> QED
      BY <3>1, <3>2 DEF LinesWritten
  <2> QED
    BY <1>5, <1>7, <1>9, <2>1, <2>2 DEF ItemsStep, LastIsLast
<1>11. Writes(g, sold, orders, items, torn, writers)
  BY <1>3, <1>5, <1>10 DEF Writes
<1>12. PullsWrite'
  BY <1>1, <1>2, <1>4, <1>11, OnePullMoves
<1> QED
  BY <1>1, <1>12, TablesStay

\* What is left when the first line is taken.
LEMMA TailOfLines ==
  ASSUME NEW ls \in Seq(Keyed), ls # <<>>
  PROVE  /\ Tail(ls) \in Seq(Keyed) /\ 1 \in DOMAIN ls /\ Head(ls) = ls[1] /\ ls[1] \in Keyed
         /\ \A i \in DOMAIN Tail(ls) : i \in Nat /\ i + 1 \in DOMAIN ls /\ 1 < i + 1 /\ Tail(ls)[i] = ls[i + 1]
         /\ \A i \in DOMAIN ls : i # 1 => 1 < i /\ \E j \in DOMAIN Tail(ls) : Tail(ls)[j] = ls[i]
         /\ LastIsLast(ls) => LastIsLast(Tail(ls))
<1>1. /\ Tail(ls) \in Seq(Keyed) /\ Len(ls) \in Nat \ {0} /\ Len(Tail(ls)) = Len(ls) - 1
      /\ Head(ls) = ls[1] /\ \A i \in 1..Len(Tail(ls)) : Tail(ls)[i] = ls[i + 1]
  BY HeadTailProperties, EmptySeq, LenProperties
<1>2. DOMAIN ls = 1..Len(ls) /\ DOMAIN Tail(ls) = 1..(Len(ls) - 1)
  BY <1>1
<1>3. ASSUME NEW i \in DOMAIN ls, i # 1 PROVE 1 < i /\ \E j \in DOMAIN Tail(ls) : Tail(ls)[j] = ls[i]
  <2>1. i - 1 \in DOMAIN Tail(ls) /\ (i - 1) + 1 = i /\ 1 < i
    BY <1>1, <1>2, <1>3
  <2> QED
    BY <1>1, <1>2, <2>1
<1>4. 1 \in DOMAIN ls
  BY <1>1, <1>2
<1>5. \A i \in DOMAIN Tail(ls) : i \in Nat /\ i + 1 \in DOMAIN ls /\ 1 < i + 1 /\ Tail(ls)[i] = ls[i + 1]
  BY <1>1, <1>2
<1>6. \A i, j \in DOMAIN Tail(ls) : i < j => i + 1 < j + 1
  BY <1>2
<1>7. LastIsLast(ls) => LastIsLast(Tail(ls))
  BY <1>5, <1>6 DEF LastIsLast
<1> QED
  BY <1>1, <1>3, <1>4, <1>5, <1>7

LEMMA UpsertLineWrites ==
  ASSUME IInv, JInv, NEW p \in Pulls, UpsertLine(p)
  PROVE  TablesOK' /\ RowsStand' /\ PullsWrite'
<1> DEFINE f == pulls[p]
           line == Head(f.todo)
           o == line.order
           tenant == IF f.known[o] # None THEN f.known[o] ELSE f.shop
           new == WrittenLine(items[o][line.key], tenant, line.ver)
           g == [f EXCEPT !.todo = Tail(f.todo)]
           ends == line.last /\ f.alone /\ o \notin f.failed
<1>1. /\ f.step = "items" /\ f.todo # <<>> /\ items' = [items EXCEPT ![o][line.key] = new]
      /\ pulls' = [pulls EXCEPT ![p] = g] /\ UNCHANGED <<sold, orders, writers>>
  BY DEF UpsertLine
<1>2. torn' = IF ends THEN torn \ {o} ELSE torn
  BY DEF UpsertLine
<1>3. Active(f)
  <2>1. f.step = "items"
    BY <1>1
  <2> QED
    BY <2>1 DEF Active, Idle, Over
<1>4. /\ PullOK(f, sold, orders) /\ DOMAIN f = Fields /\ Writes(f, sold, orders, items, torn, writers)
  BY <1>3 DEF IInv, PullsOK, PullOK, Shape, JInv, PullsWrite
<1>5. /\ g.step = "items" /\ g.todo = Tail(f.todo) /\ g.known = f.known /\ g.batch = f.batch
      /\ g.shop = f.shop /\ g.alone = f.alone /\ g.failed = f.failed /\ g.pages = f.pages
  BY <1>1, <1>4 DEF Fields
<1>6. ItemsStep(f, orders, items, torn, writers) /\ f.batch \in Seq(Entries) /\ Distinct(f.batch)
  BY <1>1, <1>4 DEF Writes, PullOK, Fresh
<1>7. f.todo \in Seq(Keyed) /\ LastIsLast(f.todo)
  BY <1>6 DEF ItemsStep
<1>8. 1 \in DOMAIN f.todo /\ line = f.todo[1] /\ line \in Keyed
  BY <1>1, <1>7, TailOfLines
<1>9. o \in Orders /\ line.key \in AllKeys /\ line.ver \in Versions
  BY <1>8 DEF Keyed
<1>10. OfBatch(line, f) /\ Begun(f, o, torn, writers)
  BY <1>6, <1>8 DEF ItemsStep
<1>11. \A b \in Orders, k \in AllKeys : items'[b][k] = IF b = o /\ k = line.key THEN new ELSE items[b][k]
  BY <1>1, <1>9 DEF JInv, TablesOK
<1>12. tenant \in writers[o] /\ tenant \in Shops
  <2>1. tenant \in writers[o]
    BY <1>6, <1>9, <1>10 DEF ItemsStep, Begun
  <2> QED
    BY <1>9, <2>1 DEF JInv, TablesOK
<1>13. new \in Kept /\ new # None /\ new.ver = line.ver /\ new.tenant \in writers[o]
  <2>1. items[o][line.key] \in Kept \cup {None}
    BY <1>9 DEF JInv, TablesOK
  <2>2. items[o][line.key] # None => items[o][line.key].tenant \in writers[o]
    BY <1>9 DEF JInv, RowsStand, LinesStand
  <2> HIDE DEF tenant
  <2>3. new \in Kept /\ new.ver = line.ver /\ new.tenant \in writers[o]
    BY <1>9, <1>12, <2>1, <2>2 DEF WrittenLine, Kept
  <2> QED
    BY <2>3, NoneAssumption
<1> HIDE DEF new, g, tenant
<1>14. TablesOK'
  <2>1. items' \in [Orders -> [AllKeys -> Kept \cup {None}]]
    BY <1>1, <1>9, <1>13 DEF JInv, TablesOK
  <2> QED
    BY <1>1, <1>2, <2>1 DEF JInv, TablesOK
\* The lines of an order of the batch are still written or left.
<1>15. ASSUME NEW i \in DOMAIN f.batch, NEW k \in Keys(f.batch[i].ver),
              Has(f.batch[i].order, k, f.batch[i].ver, items) \/ Left(f, f.batch[i].order, k)
       PROVE  Has(f.batch[i].order, k, f.batch[i].ver, items') \/ Left(g, f.batch[i].order, k)
  <2> DEFINE b == f.batch[i]
  <2>1. b.order \in Orders /\ k \in AllKeys
    BY <1>6, EntryTypes, KeysOfVersion
  <2>2. CASE b.order = o /\ k = line.key
    <3>1. b.ver = line.ver
      BY <1>6, <1>10, <2>2 DEF OfBatch, Distinct
    <3> QED
      BY <1>11, <1>13, <2>1, <2>2, <3>1 DEF Has
  <2>3. CASE ~(b.order = o /\ k = line.key)
    <3>1. Has(b.order, k, b.ver, items) => Has(b.order, k, b.ver, items')
      BY <1>11, <2>1, <2>3 DEF Has
    <3>2. Left(f, b.order, k) => Left(g, b.order, k)
      <4> SUFFICES ASSUME Left(f, b.order, k) PROVE Left(g, b.order, k)
        OBVIOUS
      <4>1. PICK j \in DOMAIN f.todo : f.todo[j].order = b.order /\ f.todo[j].key = k
        BY DEF Left
      <4>2. j # 1
        BY <1>8, <2>3, <4>1
      <4>3. \E m \in DOMAIN Tail(f.todo) : Tail(f.todo)[m] = f.todo[j]
        BY <1>1, <1>7, <4>2, TailOfLines
      <4> QED
        BY <1>5, <4>1, <4>3 DEF Left
    <3> QED
      BY <1>15, <3>1, <3>2
  <2> QED
    BY <2>2, <2>3
<1>16. ASSUME NEW j \in DOMAIN g.todo
       PROVE  OfBatch(g.todo[j], g) /\ Begun(g, g.todo[j].order, torn', writers')
  <2>1. j + 1 \in DOMAIN f.todo /\ 1 < j + 1 /\ g.todo[j] = f.todo[j + 1]
    <3>1. j \in DOMAIN Tail(f.todo) /\ g.todo[j] = Tail(f.todo)[j]
      BY <1>5
    <3> QED
      BY <1>1, <1>7, <3>1, TailOfLines
  <2>2. OfBatch(f.todo[j + 1], f) /\ Begun(f, f.todo[j + 1].order, torn, writers)
    BY <1>6, <2>1 DEF ItemsStep
  <2>3. line.last => f.todo[j + 1].order # o
    BY <1>7, <1>8, <2>1 DEF LastIsLast
  <2> QED
    BY <1>1, <1>2, <1>5, <2>1, <2>2, <2>3 DEF OfBatch, Begun
<1>17. ItemsStep(g, orders', items', torn', writers')
  <2>1. ASSUME g.alone, NEW i \in DOMAIN g.batch, g.batch[i].order \notin g.failed
        PROVE  LinesWritten(g, g.batch[i], orders', items')
    <3>1. LinesWritten(f, f.batch[i], orders, items) /\ g.batch[i] = f.batch[i] /\ i \in DOMAIN f.batch
      BY <1>5, <1>6, <2>1 DEF ItemsStep
    <3> QED
      BY <1>1, <1>15, <3>1 DEF LinesWritten
  <2>2. g.todo \in Seq(Keyed) /\ LastIsLast(g.todo)
    BY <1>1, <1>5, <1>7, TailOfLines
  <2>3. \A b \in Orders : g.known[b] # None => g.known[b] \in writers'[b]
    BY <1>1, <1>5, <1>6 DEF ItemsStep
  <2> QED
    BY <1>16, <2>1, <2>2, <2>3 DEF ItemsStep
<1>18. PullsWrite'
  <2>1. Writes(g, sold, orders', items', torn', writers')
    BY <1>4, <1>5, <1>17 DEF Writes
  <2>2. ~f.alone => torn \subseteq torn'
    BY <1>2
  <2>3. \A b \in Orders : writers[b] \subseteq writers'[b]
    BY <1>1
  <2> QED
    BY <1>1, <1>3, <2>1, <2>2, <2>3, OnePullMoves
\* An order leaves torn when its last line is written.
<1>19. ASSUME ends, orders[o] # None PROVE Whole(o, orders, items')
  <2>1. PICK i \in DOMAIN f.batch : f.batch[i].order = o /\ f.batch[i].ver = line.ver
    BY <1>10 DEF OfBatch
  <2>2. LinesWritten(f, f.batch[i], orders, items)
    BY <1>6, <1>19, <2>1 DEF ItemsStep
  <2>3. \A k \in AllKeys : ~Left(g, o, k)
    <3> SUFFICES ASSUME NEW j \in DOMAIN g.todo PROVE g.todo[j].order # o
      BY DEF Left
    <3>1. j + 1 \in DOMAIN f.todo /\ 1 < j + 1 /\ g.todo[j] = f.todo[j + 1]
      <4>1. j \in DOMAIN Tail(f.todo) /\ g.todo[j] = Tail(f.todo)[j]
        BY <1>5
      <4> QED
        BY <1>1, <1>7, <4>1, TailOfLines
    <3> QED
      BY <1>7, <1>8, <1>19, <3>1 DEF LastIsLast
  <2>4. orders[o].ver = f.batch[i].ver
    BY <2>1, <2>2 DEF LinesWritten, RowWritten
  <2>5. f.batch[i].ver \in Versions
    BY <1>9, <2>1
  <2>6. ASSUME NEW k \in Keys(f.batch[i].ver) PROVE Has(o, k, f.batch[i].ver, items')
    <3>1. k \in AllKeys
      BY <2>5, KeysOfVersion
    <3> QED
      BY <1>15, <2>1, <2>2, <2>3, <3>1 DEF LinesWritten
  <2> QED
    BY <2>4, <2>6 DEF Whole
<1>20. RowsStand'
  <2> SUFFICES ASSUME NEW b \in Orders
               PROVE  /\ RowStands(b, sold', orders', writers')
                      /\ LinesStand(b, items', writers')
                      /\ b \notin torn' => Whole(b, orders', items')
    BY DEF RowsStand
  <2>1. /\ RowStands(b, sold, orders, writers) /\ LinesStand(b, items, writers)
        /\ b \notin torn => Whole(b, orders, items)
    BY DEF JInv, RowsStand
  <2>2. RowStands(b, sold', orders', writers')
    BY <1>1, <2>1 DEF RowStands
  <2>3. LinesStand(b, items', writers')
    <3> SUFFICES ASSUME NEW k \in AllKeys, items'[b][k] # None
                 PROVE  items'[b][k].tenant \in writers'[b]
      BY DEF LinesStand
    <3>1. writers' = writers
      BY <1>1
    <3>2. CASE b = o /\ k = line.key
      <4>1. items'[b][k] = new
        BY <1>11, <3>2
      <4> QED
        BY <1>13, <3>1, <3>2, <4>1
    <3>3. CASE ~(b = o /\ k = line.key)
      <4>1. items'[b][k] = items[b][k]
        BY <1>11, <3>3
      <4> QED
        BY <2>1, <3>1, <4>1 DEF LinesStand
    <3> QED
      BY <3>2, <3>3
  <2>4. b \notin torn' => Whole(b, orders', items')
    <3>1. CASE b = o
      <4>1. b \notin torn' => ends
        BY <1>2, <1>10, <3>1 DEF Begun
      <4> QED
        BY <1>1, <1>19, <3>1, <4>1 DEF Whole
    <3>2. CASE b # o
      <4>1. b \notin torn' => b \notin torn
        BY <1>2, <3>2
      <4>2. orders[b] # None => orders[b].ver \in Versions
        BY DEF IInv, RowsOK, RowOK, Stored
      <4>3. orders[b] # None => Keys(orders[b].ver) \subseteq AllKeys
        BY <4>2, KeysOfVersion
      <4> QED
        BY <1>1, <1>11, <2>1, <3>2, <4>1, <4>3 DEF Whole, Has
    <3> QED
      BY <3>1, <3>2
  <2> QED
    BY <2>2, <2>3, <2>4
<1> QED
  BY <1>14, <1>18, <1>20

-----------------------------------------------------------------------------
(* The second invariant, and what follows                                    *)

LEMMA InitWrites == Init => JInv
<1> SUFFICES ASSUME Init PROVE JInv
  OBVIOUS
<1>1. Counts
  BY OrderAssumption DEF Init, Counts
<1>2. TablesOK
  <2>1. writers = [o \in Orders |-> {}] /\ IsFiniteSet({})
    BY FS_EmptySet DEF Init
  <2> QED
    BY <2>1 DEF Init, TablesOK
<1>3. RowsStand
  BY DEF Init, RowsStand, RowStands, LinesStand, Whole
<1>4. SoldInTime /\ PullsWrite
  BY DEF Init, SoldInTime, PullsWrite, Active
<1>5. ReportOK
  BY DEF Init, ReportOK, NoOps
<1> QED
  BY <1>1, <1>2, <1>3, <1>4, <1>5 DEF JInv

LEMMA NextWrites == IInv /\ JInv /\ IInv' /\ [Next]_vars => JInv'
<1> SUFFICES ASSUME IInv, JInv, IInv', [Next]_vars PROVE JInv'
  OBVIOUS
<1>1. Counts' /\ SoldInTime' /\ ReportOK'
  BY CountsOK, SoldStaysInTime, ReportStaysOK DEF JInv
<1>2. \A o \in Orders : sold[o] # None => sold'[o].born = sold[o].born
  BY SoldStaysInTime DEF JInv
<1>3. CASE UNCHANGED <<orders, items, torn, writers, pulls>>
  BY <1>1, <1>2, <1>3, NobodyWrites DEF JInv
<1>4. ASSUME NEW p \in Pulls, NEW s \in Shops, FetchStart(p, s) PROVE JInv'
  BY <1>1, <1>4, StartWrites DEF JInv
<1>5. ASSUME NEW p \in Pulls,
             \/ FetchPage(p) \/ PullStops(p) \/ PullEnds(p)
             \/ UpsertOrder(p) \/ UpsertOrderFails(p) \/ ReadOrders(p) \/ UpsertLine(p)
      PROVE  TablesOK' /\ RowsStand' /\ PullsWrite'
  BY <1>5, PageWrites, OverWrites, UpsertOrderWrites, UpsertOrderFailsWrites, ReadWrites,
     UpsertLineWrites
<1> QED
  BY <1>1, <1>3, <1>4, <1>5 DEF JInv, Next, vars, Tick, Change, RebuildRead, RebuildWrite, ReportEnds

\* Both invariants hold, with or without the lock.
THEOREM WritesInvariant == Spec => [](IInv /\ JInv)
<1>1. Init => IInv /\ JInv
  BY InitOK, InitWrites
<1>2. IInv /\ JInv /\ [Next]_vars => IInv' /\ JInv'
  BY NextOK, NextWrites
<1> QED
  BY <1>1, <1>2, PTL DEF Spec

\* Rows and lines are of known shops and versions, and a pull fetches an order
\* at most once and within its page limit: TypeOK, for any constants.
THEOREM TypesAreKept == Spec => []TypeOK
<1>1. ASSUME IInv, JInv PROVE TypeOK
  <2>1. ASSUME NEW p \in Pulls, Active(pulls[p]) PROVE IsPull(pulls[p])
    <3>1. PullOK(pulls[p], sold, orders) /\ Writes(pulls[p], sold, orders, items, torn, writers)
      BY <1>1, <2>1 DEF IInv, PullsOK, JInv, PullsWrite
    <3> QED
      BY <3>1 DEF PullOK, Shape, Fresh, Distinct, Writes, IsPull
  <2> QED
    BY <1>1, <2>1 DEF TypeOK, IInv, SoldOK, JInv, Counts, TablesOK, Active
<1> QED
  BY <1>1, WritesInvariant, PTL

\* Two writers of one order make it one that moved.
LEMMA TwoWriters ==
  ASSUME NEW W, IsFiniteSet(W), NEW a \in W, NEW b \in W, a # b
  PROVE  Cardinality(W) > 1
<1>1. IsFiniteSet({a}) /\ Cardinality({a}) = 1
  BY FS_Singleton
<1>2. Cardinality({a} \cup {b}) = 2
  <2> DEFINE S == {a}
  <2>1. IsFiniteSet(S) /\ Cardinality(S) = 1 /\ b \notin S
    BY <1>1
  <2> HIDE DEF S
  <2>2. Cardinality(S \cup {b}) = Cardinality(S) + 1
    BY <2>1, FS_AddElement
  <2> QED
    BY <2>1, <2>2 DEF S
<1>3. Cardinality({a} \cup {b}) <= Cardinality(W)
  BY FS_Subset
<1>4. Cardinality(W) \in Nat
  BY FS_CardinalityType
<1> QED
  BY <1>2, <1>3, <1>4

LEMMA WholeOrdersJoin ==
  ASSUME JInv
  PROVE  LinesFollowRows
<1> SUFFICES ASSUME NEW o \in Orders \ (torn \cup Moved), orders[o] # None, NEW k \in Keys(orders[o].ver)
             PROVE  k \in Joined(o) /\ items[o][k].ver = orders[o].ver
  BY DEF LinesFollowRows
<1>1. k \in AllKeys
  <2>1. orders[o].ver \in Versions
    BY DEF JInv, TablesOK, Stored
  <2> QED
    BY <2>1, KeysOfVersion
<1>2. items[o][k] # None /\ items[o][k].ver = orders[o].ver
  BY DEF JInv, RowsStand, Whole, Has
<1>3. items[o][k].tenant \in writers[o] /\ orders[o].shop \in writers[o]
  BY <1>1, <1>2 DEF JInv, RowsStand, RowStands, LinesStand
<1>4. items[o][k].tenant = orders[o].shop
  <2>1. IsFiniteSet(writers[o]) /\ ~(Cardinality(writers[o]) > 1)
    BY DEF JInv, TablesOK, Moved
  <2> QED
    BY <1>3, <2>1, TwoWriters
<1> QED
  BY <1>1, <1>2, <1>4 DEF Joined

\* LinesFollowRows, for any orders, shops, pulls and failures, and whatever
\* lines the versions have: an order that one shop's pull wrote whole has every
\* line of its row's version, whether or not pulls exclude each other.
THEOREM LinesAlwaysFollowRows == Spec => []LinesFollowRows
  BY WholeOrdersJoin, WritesInvariant, PTL

\* RebuiltAgrees: right after its tenant's rebuild a report finds no order
\* missing in MySQL, no difference, and explains the rest as it does, for any
\* window; that the cache counts from creation and MySQL from payment can only
\* take orders out of the cache's window.
THEOREM RebuildsAgree == Spec => []RebuiltAgrees
<1>1. ASSUME IInv, JInv PROVE RebuiltAgrees
  <2> SUFFICES ASSUME ops.step = "report", ops.quiet
               PROVE  LET s == ops.tenant IN
                      /\ CacheWindow \ MysqlWindow(s) = {}
                      /\ {o \in CacheWindow \cap MysqlWindow(s) : file[o].ver # orders[o].ver} = {}
                      /\ \A o \in MysqlWindow(s) \ CacheWindow :
                           classifyMysqlOnlyDiff(o) = "time_window_mismatch"
                      /\ \A d \in ItemsMissing(s) : d[1] \in torn \cup Moved
    BY DEF RebuiltAgrees, Report
  <2> DEFINE s == ops.tenant
  <2>1. file = RowsOf(s)
    BY <1>1 DEF JInv, ReportOK
  <2>2. \A o \in Orders : file[o] = IF orders[o] = None \/ orders[o].shop # s THEN None ELSE orders[o]
    BY <2>1 DEF RowsOf
  <2>3. now \in Nat /\ Window \in Nat
    BY <1>1, OrderAssumption, VersionsAreNats DEF IInv, SoldOK
  <2>4. ASSUME NEW o \in Orders, orders[o] # None
        PROVE  /\ orders[o].born \in Nat /\ EventTime(orders[o]) \in Nat
               /\ orders[o].born <= EventTime(orders[o])
    <3>1. orders[o].born \in Nat /\ (orders[o].paid # None => orders[o].paid \in Nat)
      BY <1>1, <2>4, VersionsAreNats DEF JInv, TablesOK, Stored
    <3>2. orders[o].paid # None => orders[o].born <= orders[o].paid
      BY <1>1, <2>4 DEF JInv, RowsStand, RowStands
    <3> QED
      BY <3>1, <3>2 DEF EventTime
  <2>5. ASSUME NEW o \in CacheWindow PROVE o \in MysqlWindow(s) /\ file[o] = orders[o]
    <3>1. o \in Orders /\ file[o] # None /\ file[o].born >= now - Window
      BY DEF CacheWindow
    <3>2. orders[o] # None /\ orders[o].shop = s /\ file[o] = orders[o]
      BY <2>2, <3>1
    <3>3. EventTime(orders[o]) >= now - Window
      BY <2>3, <2>4, <3>1, <3>2
    <3> QED
      BY <3>1, <3>2, <3>3 DEF MysqlWindow
  <2>6. ASSUME NEW o \in MysqlWindow(s) \ CacheWindow
        PROVE  classifyMysqlOnlyDiff(o) = "time_window_mismatch"
    <3>1. o \in Orders /\ orders[o] # None /\ orders[o].shop = s
      BY DEF MysqlWindow
    <3>2. file[o] = orders[o] /\ file[o] # None
      BY <2>2, <3>1
    <3>3. ~(file[o].born >= now - Window)
      BY <3>1, <3>2 DEF CacheWindow
    <3>4. file[o].born < now - Window
      BY <2>3, <2>4, <3>1, <3>2, <3>3
    <3> QED
      BY <3>2, <3>4 DEF classifyMysqlOnlyDiff
  <2>7. ASSUME NEW d \in ItemsMissing(s) PROVE d[1] \in torn \cup Moved
    <3>1. PICK o \in CacheWindow : \E k \in Keys(file[o].ver) \ (IF o \in MysqlWindow(s) THEN Joined(o) ELSE {}) :
            d = <<o, k>>
      BY DEF ItemsMissing
    <3>2. PICK k \in Keys(file[o].ver) : k \notin Joined(o) /\ d = <<o, k>>
      BY <2>5, <3>1
    <3>3. o \in Orders /\ orders[o] # None /\ file[o] = orders[o]
      BY <2>5 DEF CacheWindow
    <3>4. LinesFollowRows
      BY <1>1, WholeOrdersJoin
    <3>5. o \in torn \cup Moved
      BY <3>2, <3>3, <3>4 DEF LinesFollowRows
    <3> QED
      BY <3>2, <3>5
  <2> QED
    BY <2>5, <2>6, <2>7
<1> QED
  BY <1>1, WritesInvariant, PTL
===============================================================================
