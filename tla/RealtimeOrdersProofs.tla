------------------------ MODULE RealtimeOrdersProofs ------------------------
(***************************************************************************)
(* Proofs about RealtimeOrders, for any filters, interval, suspension and  *)
(* number of bindings.                                                     *)
(***************************************************************************)
EXTENDS RealtimeOrders, WellFoundedInduction, TLAPS

USE PollAssumption, NoneAssumption DEF gen

-----------------------------------------------------------------------------
(* The inductive invariant                                                   *)

\* Every request resets the scheduler's clock and the page's alike.
ClocksAgree == quiet = since

\* Everyone in ws is one of the n bindings of bs, and bound to this key.
AllBoundTo(ws, key, bs, n) ==
  \A i \in DOMAIN ws : ws[i] \in 1..n /\ bs[ws[i]].key = key

\* Somebody awaits a request, whoever does was bound to its key, and a request
\* that no given-up binding sent asks for its key's rows.
RequestOK(q, bs, n) ==
  /\ q.waiters # <<>> /\ AllBoundTo(q.waiters, q.key, bs, n)
  /\ q.asked = q.key \/ q.stray

RequestsOK == \A f \in Gens : sent[f] # None => RequestOK(sent[f], binds, Len(binds))

\* A panel that is bound has a binding, and instances are numbered no higher
\* than bindings.
Numbered ==
  /\ panelBound => gen > 0
  /\ \A h \in 1..gen : binds[h].inst <= h

IInv == TypeOK /\ Numbered /\ ClocksAgree /\ RequestsOK /\ ShownFits

\* What a step leaves alone of the requests and the clocks when it sends or
\* settles none.
reqVars == <<binds, since, slot, sent, quiet>>

\* The bindings so far go on in bs.
Extends(bs) ==
  /\ bs \in Seq([key : Filters, inst : Gens]) /\ Len(bs) \in gen..MaxBinds
  /\ \A h \in 1..gen : bs[h] = binds[h]

-----------------------------------------------------------------------------
(* Times                                                                     *)

LEMMA LeastMost ==
  ASSUME NEW n \in Int, NEW m \in Int
  PROVE  /\ Least(n, m) \in {n, m} /\ Least(n, m) <= n /\ Least(n, m) <= m
         /\ Most(n, m) \in {n, m} /\ Most(n, m) >= n /\ Most(n, m) >= m
  BY DEF Least, Most

\* Whatever loop is scheduled, its timer is a timer.
LEMMA ScheduledIsTimer ==
  ASSUME TypeOK, NEW g \in Gens
  PROVE  schedulePollLoop(g) \in Timers /\ schedulePollLoop(g).for = g
<1>1. Interval - since \in 0..Interval /\ suspend \in 0..Suspend
  BY DEF TypeOK
<1>2. msUntilNextOrdersPollAllowed(suspend, since) \in 0..(Interval + Suspend)
  BY <1>1, LeastMost DEF msUntilNextOrdersPollAllowed
<1>q. QED  BY <1>2 DEF schedulePollLoop, Timers

-----------------------------------------------------------------------------
(* Bindings                                                                  *)

LEMMA ElementOfSeq == ASSUME NEW S, NEW s \in Seq(S), NEW i \in 1..Len(s) PROVE s[i] \in S
  OBVIOUS

LEMMA BindingIsTyped ==
  ASSUME TypeOK, NEW g \in 1..gen PROVE binds[g] \in [key : Filters, inst : Gens]
<1>1. binds \in Seq([key : Filters, inst : Gens])
  BY DEF TypeOK
<1>q. QED  BY <1>1, ElementOfSeq

-----------------------------------------------------------------------------
(* Requests                                                                  *)

\* More bindings take nothing from those that are there.
LEMMA StillBoundTo ==
  ASSUME NEW ws, NEW key, NEW bs, NEW n \in Nat, NEW cs, NEW m \in Nat,
         m >= n, \A h \in 1..n : cs[h] = bs[h], AllBoundTo(ws, key, bs, n)
  PROVE  AllBoundTo(ws, key, cs, m)
  BY DEF AllBoundTo

LEMMA RequestStillOK ==
  ASSUME NEW q, NEW bs, TypeOK, Extends(bs), RequestOK(q, binds, gen)
  PROVE  RequestOK(q, bs, Len(bs))
<1>1. gen \in Nat /\ Len(bs) \in Nat /\ Len(bs) >= gen
  BY DEF TypeOK, Extends
<1>q. QED  BY <1>1, StillBoundTo DEF RequestOK, Extends

\* Who is bound to the key may join those that wait.
LEMMA JoinedBoundTo ==
  ASSUME NEW ws \in Seq(Gens), NEW g \in Gens, NEW key, NEW bs, NEW n \in Nat,
         AllBoundTo(ws, key, bs, n), g <= n, bs[g].key = key
  PROVE  Append(ws, g) # <<>> /\ AllBoundTo(Append(ws, g), key, bs, n)
<1>1. ASSUME NEW i \in DOMAIN Append(ws, g)
      PROVE  Append(ws, g)[i] \in 1..n /\ bs[Append(ws, g)[i]].key = key
  <2>1. CASE i \in DOMAIN ws
    BY <2>1 DEF AllBoundTo
  <2>2. CASE i \notin DOMAIN ws
    <3>1. Append(ws, g)[i] = g
      BY <1>1, <2>2
    <3>q. QED  BY <3>1 DEF Gens
  <2>q. QED  BY <2>1, <2>2
<1>2. Append(ws, g) # <<>>
  OBVIOUS
<1>q. QED  BY <1>1, <1>2 DEF AllBoundTo

\* A request is replaced, or a new one sent, by one that is as it should be;
\* the bindings may have grown.
LEMMA PutKeeps ==
  ASSUME TypeOK, RequestsOK, NEW g \in Gens, NEW q \in Requests, Extends(binds'),
         sent' = [sent EXCEPT ![g] = q], RequestOK(q, binds', Len(binds')), g <= Len(binds')
  PROVE  /\ sent' \in [Gens -> Requests \cup {None}]
         /\ sent'[g] = q /\ q # None /\ \A f \in Gens \ {g} : sent'[f] = sent[f]
         /\ \A f \in Gens : sent'[f] # None => f <= Len(binds')
         /\ RequestsOK'
<1>1. /\ sent' \in [Gens -> Requests \cup {None}]
      /\ sent'[g] = q /\ \A f \in Gens \ {g} : sent'[f] = sent[f]
  BY DEF TypeOK
<1>2. ASSUME NEW f \in Gens, sent'[f] # None
      PROVE  RequestOK(sent'[f], binds', Len(binds')) /\ f <= Len(binds')
  <2>1. CASE f = g
    BY <1>1, <2>1
  <2>2. CASE f # g
    <3>1. sent'[f] = sent[f] /\ RequestOK(sent[f], binds, gen) /\ f <= gen
      BY <1>1, <1>2, <2>2 DEF TypeOK, RequestsOK
    <3>2. f <= Len(binds')
      BY <3>1 DEF Extends, TypeOK, Gens
    <3>q. QED  BY <3>1, <3>2, RequestStillOK
  <2>q. QED  BY <2>1, <2>2
<1>q. QED  BY <1>1, <1>2 DEF RequestsOK

LEMMA JoinedRequest ==
  ASSUME NEW r \in Requests, NEW g \in Gens
  PROVE  LET q == [r EXCEPT !.waiters = Append(@, g)]
         IN  /\ q \in Requests /\ q.waiters = Append(r.waiters, g) /\ q.key = r.key
             /\ q.stray = r.stray /\ q.asked = r.asked /\ r.waiters \in Seq(Gens)
<1>1. r.waiters \in Seq(Gens) /\ Append(r.waiters, g) \in Seq(Gens)
  BY DEF Requests
<1> DEFINE ws == Append(r.waiters, g)
<1> HIDE DEF ws
<1>2. ws \in Seq(Gens)
  BY <1>1 DEF ws
<1>3. LET q == [r EXCEPT !.waiters = ws]
      IN  q \in Requests /\ q.waiters = ws /\ q.key = r.key /\ q.stray = r.stray /\ q.asked = r.asked
  BY <1>2 DEF Requests
<1>q. QED  BY <1>1, <1>3 DEF ws

\* What executeOrdersFetch does when it joins a request.
LEMMA JoinKeeps ==
  ASSUME TypeOK, RequestsOK, NEW g \in Gens, Extends(binds'), g <= Len(binds'),
         slot # None, binds'[g].key = sent[slot].key, JoinFetch(g)
  PROVE  /\ sent' \in [Gens -> Requests \cup {None}] /\ slot' = slot
         /\ \A f \in Gens : sent'[f] # None => f <= Len(binds')
         /\ slot' # None => sent'[slot'] # None
         /\ \A f \in Gens : sent'[f] # None => sent[f] # None
         /\ RequestsOK'
<1> DEFINE q == [sent[slot] EXCEPT !.waiters = Append(@, g)]
<1>1. /\ slot \in Gens /\ slot <= gen
      /\ sent[slot] # None /\ sent[slot] \in Requests /\ RequestOK(sent[slot], binds, gen)
  BY DEF TypeOK, RequestsOK
<1>2. /\ q \in Requests /\ q.waiters = Append(sent[slot].waiters, g) /\ q.key = sent[slot].key
      /\ q.stray = sent[slot].stray /\ q.asked = sent[slot].asked
      /\ sent[slot].waiters \in Seq(Gens)
  BY <1>1, JoinedRequest
<1>3. RequestOK(sent[slot], binds', Len(binds'))
  BY <1>1, RequestStillOK
<1>4. Len(binds') \in Nat /\ slot <= Len(binds')
  <2>1. gen \in Nat /\ Len(binds') \in gen..MaxBinds
    BY DEF Extends, TypeOK
  <2>q. QED  BY <1>1, <2>1 DEF Gens
<1>6. sent' = [sent EXCEPT ![slot] = q] /\ slot' = slot
  BY DEF JoinFetch
<1> HIDE DEF q
<1>5. RequestOK(q, binds', Len(binds'))
  <2>1. /\ Append(sent[slot].waiters, g) # <<>>
        /\ AllBoundTo(Append(sent[slot].waiters, g), sent[slot].key, binds', Len(binds'))
    BY <1>2, <1>3, <1>4, JoinedBoundTo DEF RequestOK
  <2>q. QED  BY <1>2, <1>3, <2>1 DEF RequestOK
<1>q. QED  BY <1>1, <1>2, <1>4, <1>5, <1>6, PutKeeps

\* What it does when it sends one, for the binding's own key.
LEMMA StartKeeps ==
  ASSUME TypeOK, RequestsOK, NEW g \in Gens, Extends(binds'), g <= Len(binds'),
         NEW key \in Filters, NEW asked \in Filters, NEW byPoll \in BOOLEAN,
         binds'[g].key = key, asked = key \/ g < gen,
         StartFetch(g, key, asked, byPoll)
  PROVE  /\ sent' \in [Gens -> Requests \cup {None}] /\ slot' = g
         /\ \A f \in Gens : sent'[f] # None => f <= Len(binds')
         /\ sent'[g] # None /\ sent'[g].byPoll = byPoll
         /\ \A f \in Gens \ {g} : sent'[f] = sent[f]
         /\ since' = 0 /\ quiet' = 0
         /\ active' \in Filters \cup {None} /\ suspend' \in 0..Suspend
         /\ RequestsOK'
<1> DEFINE q == [key |-> key, asked |-> asked, byPoll |-> byPoll, stray |-> g < gen,
                 waiters |-> <<g>>]
<1>1. q \in Requests
  BY DEF Requests
<1>2. sent' = [sent EXCEPT ![g] = q] /\ slot' = g /\ since' = 0 /\ quiet' = 0
  BY DEF StartFetch
<1>3. active' \in Filters \cup {None} /\ suspend' \in 0..Suspend
  BY DEF StartFetch, TypeOK
<1>4. AllBoundTo(<<g>>, key, binds', Len(binds')) /\ <<g>> # <<>>
  BY DEF AllBoundTo, Gens
<1>5. RequestOK(q, binds', Len(binds')) /\ q.byPoll = byPoll
  BY <1>4 DEF RequestOK
<1> HIDE DEF q
<1>q. QED  BY <1>1, <1>2, <1>3, <1>5, PutKeeps

\* A request settles.
LEMMA SettleKeeps ==
  ASSUME TypeOK, RequestsOK, NEW f \in Gens, sent[f] # None, slot' = Vacated(f),
         sent' = [sent EXCEPT ![f] = None], UNCHANGED binds
  PROVE  /\ sent' \in [Gens -> Requests \cup {None}] /\ slot' \in Gens \cup {None}
         /\ slot' # None => sent'[slot'] # None
         /\ \A g \in Gens : sent'[g] # None => g <= gen'
         /\ RequestsOK'
<1>1. sent' \in [Gens -> Requests \cup {None}] /\ sent'[f] = None /\ \A g \in Gens \ {f} : sent'[g] = sent[g]
  BY DEF TypeOK
<1>2. gen' = gen
  OBVIOUS
<1>3. slot' \in Gens \cup {None} /\ (slot' # None => sent'[slot'] # None)
  BY <1>1 DEF Vacated, TypeOK
<1>q. QED  BY <1>1, <1>2, <1>3 DEF TypeOK, RequestsOK

\* A step that changes no binding has them go on.
LEMMA SameExtends == ASSUME TypeOK, UNCHANGED binds PROVE Extends(binds')
  BY DEF Extends, TypeOK

-----------------------------------------------------------------------------
(* One lemma per action                                                      *)

LEMMA BindKeeps ==
  ASSUME IInv, NEW k \in Filters, NEW inst \in Gens, inst <= gen + 1, Bind(k, inst)
  PROVE  IInv'
<1> DEFINE b == [key |-> k, inst |-> inst]
           g == gen + 1
<1>1. /\ binds \in Seq([key : Filters, inst : Gens]) /\ gen \in Nat /\ gen < MaxBinds
      /\ b \in [key : Filters, inst : Gens]
      /\ binds' = Append(binds, b) /\ panelBound' = TRUE /\ shown' = {} /\ broken' = FALSE
      /\ fails' = fails
  BY DEF IInv, TypeOK, Bind
<1>2. b.key = k /\ b.inst = inst
  OBVIOUS
<1> HIDE DEF b
<1>3. /\ g \in Gens /\ binds' \in Seq([key : Filters, inst : Gens])
      /\ Len(binds') = g /\ Len(binds') \in 0..MaxBinds
      /\ binds'[g].key = k /\ binds'[g].inst = inst /\ \A h \in 1..gen : binds'[h] = binds[h]
  BY <1>1, <1>2 DEF Gens
<1>4. Extends(binds') /\ g <= Len(binds')
  BY <1>1, <1>3 DEF Extends
<1>n. Numbered'
  BY <1>1, <1>3 DEF IInv, Numbered, Gens
<1> HIDE DEF g
<1>5. /\ sent' \in [Gens -> Requests \cup {None}] /\ slot' \in Gens \cup {None}
      /\ slot' # None => sent'[slot'] # None
      /\ \A f \in Gens : sent'[f] # None => f <= Len(binds')
      /\ active' \in Filters \cup {None} /\ suspend' \in 0..Suspend
      /\ since' \in 0..Interval /\ quiet' \in 0..Interval
      /\ timer' \in Timers \cup {None} /\ (timer' # None => timer'.for = g)
      /\ RequestsOK' /\ ClocksAgree'
  <2>1. CASE Shared(k) /\ JoinFetch(g) /\ timer' = None
    <3>1. slot # None /\ sent[slot].key = k
      BY <2>1 DEF Shared
    <3>2. UNCHANGED <<active, since, suspend, slot, quiet>>
      BY <2>1 DEF JoinFetch
    <3>q. QED  BY <1>3, <1>4, <2>1, <3>1, <3>2, JoinKeeps DEF IInv, TypeOK, ClocksAgree
  <2>2. CASE ~Shared(k) /\ shouldSkipFilter(k) /\ timer' = schedulePollLoop(g)
             /\ UNCHANGED <<sent, active, since, suspend, slot, quiet>>
    <3>1. timer' \in Timers /\ timer'.for = g
      BY <1>3, <2>2, ScheduledIsTimer DEF IInv
    <3>2. \A f \in Gens : sent[f] # None => f <= Len(binds') /\ RequestOK(sent[f], binds', Len(binds'))
      <4>1. ASSUME NEW f \in Gens, sent[f] # None
            PROVE  f <= Len(binds') /\ RequestOK(sent[f], binds', Len(binds'))
        <5>1. f <= gen /\ RequestOK(sent[f], binds, gen)
          BY <4>1 DEF IInv, TypeOK, RequestsOK
        <5>2. f <= Len(binds')
          BY <5>1, <1>1, <1>4 DEF Extends, Gens
        <5>q. QED  BY <1>4, <5>1, <5>2, RequestStillOK DEF IInv
      <4>q. QED  BY <4>1
    <3>3. RequestsOK'
      BY <2>2, <3>2 DEF RequestsOK
    <3>q. QED  BY <2>2, <3>1, <3>2, <3>3 DEF IInv, TypeOK, ClocksAgree
  <2>3. CASE ~Shared(k) /\ ~shouldSkipFilter(k) /\ StartFetch(g, k, k, FALSE) /\ timer' = None
    <3>1. /\ sent' \in [Gens -> Requests \cup {None}] /\ slot' = g
          /\ \A f \in Gens : sent'[f] # None => f <= Len(binds')
          /\ sent'[g] # None /\ since' = 0 /\ quiet' = 0
          /\ active' \in Filters \cup {None} /\ suspend' \in 0..Suspend
          /\ RequestsOK'
      BY <1>3, <1>4, <2>3, StartKeeps DEF IInv
    <3>q. QED  BY <1>3, <2>3, <3>1 DEF ClocksAgree
  <2>q. QED  BY <2>1, <2>2, <2>3 DEF Bind, g
<1>6. timer' # None => timer'.for <= gen' /\ panelBound'
  BY <1>1, <1>3, <1>5 DEF Gens
<1>7. TypeOK'
  BY <1>1, <1>3, <1>5, <1>6 DEF TypeOK, IInv
<1>q. QED  BY <1>1, <1>5, <1>7, <1>n DEF IInv, ShownFits

\* Steps that leave bindings, requests and clocks alone.
LEMMA RestKeeps ==
  ASSUME IInv, UNCHANGED reqVars, shown' \subseteq shown, panelBound' => panelBound
  PROVE  Numbered' /\ ClocksAgree' /\ RequestsOK' /\ ShownFits'
<1>1. binds' = binds /\ sent' = sent /\ since' = since /\ quiet' = quiet
  BY DEF reqVars
<1>2. ClocksAgree' /\ RequestsOK'
  BY <1>1 DEF IInv, ClocksAgree, RequestsOK
<1>q. QED  BY <1>1, <1>2 DEF IInv, Numbered, ShownFits

LEMMA LeavePageKeeps == ASSUME IInv, LeavePage PROVE IInv'
<1>1. TypeOK'
  BY DEF IInv, LeavePage, TypeOK
<1>2. UNCHANGED reqVars /\ shown' \subseteq shown /\ (panelBound' => panelBound)
  BY DEF LeavePage, reqVars
<1>q. QED  BY <1>1, <1>2, RestKeeps DEF IInv

\* A timer that is set polls for a binding, of a panel that is there.
LEMMA TimerIsBound ==
  ASSUME IInv, timer # None
  PROVE  /\ timer \in Timers /\ timer.for \in Gens /\ timer.for \in 1..gen /\ panelBound
         /\ binds[timer.for].key \in Filters
<1>1. timer \in Timers /\ timer.for \in Gens /\ timer.for <= gen /\ panelBound
  BY DEF IInv, TypeOK, Timers
<1>2. gen \in Nat /\ timer.for \in 1..gen
  BY <1>1 DEF IInv, TypeOK, Gens
<1>3. binds[timer.for] \in [key : Filters, inst : Gens]
  BY <1>2, BindingIsTyped DEF IInv
<1>q. QED  BY <1>1, <1>2, <1>3

LEMMA PollFiresHiddenKeeps == ASSUME IInv, PollFiresHidden PROVE IInv'
<1>1. timer \in Timers /\ timer.for \in Gens /\ timer.for \in 1..gen /\ panelBound
  BY TimerIsBound DEF PollFiresHidden
<1>2. timer' \in Timers /\ timer'.for = timer.for
  BY <1>1, ScheduledIsTimer DEF IInv, PollFiresHidden
<1>3. timer' # None => timer'.for <= gen /\ panelBound
  BY <1>1, <1>2 DEF IInv, TypeOK
<1>4. UNCHANGED <<binds, panelBound, shown, active, since, suspend, slot, sent, fails, quiet, broken>>
  BY DEF PollFiresHidden
<1>5. TypeOK'
  BY <1>2, <1>3, <1>4 DEF IInv, TypeOK
<1>6. UNCHANGED reqVars /\ shown' \subseteq shown /\ (panelBound' => panelBound)
  BY <1>4 DEF reqVars
<1>q. QED  BY <1>5, <1>6, RestKeeps DEF IInv

\* What the page's filter is read from is a binding's filter.
LEMMA FiltersRefIsFilter ==
  ASSUME TypeOK, NEW g \in 1..gen
  PROVE  FiltersRef(g) \in Filters /\ (FiltersRef(g) = binds[g].key \/ g < gen)
<1> DEFINE same == {h \in 1..gen : binds[h].inst = binds[g].inst}
           T == {gen - h : h \in same}
<1>1. gen \in Nat /\ g \in same /\ T \subseteq Nat /\ T # {}
  BY DEF TypeOK
<1>2. PICK t \in T : \A s \in T : ~(<<s, t>> \in OpToRel(<, Nat))
  BY <1>1, NatLessThanWellFounded, WFMin
<1>3. PICK h \in same : t = gen - h
  BY <1>2
<1>4. ASSUME NEW i \in same PROVE i <= h
  <2>1. ~(gen - i < t)
    BY <1>1, <1>2 DEF OpToRel
  <2>q. QED  BY <1>1, <1>3, <2>1
<1>5. \E j \in same : \A i \in same : i <= j
  BY <1>4
<1> DEFINE last == CHOOSE j \in same : \A i \in same : i <= j
<1>6. last \in same /\ \A i \in same : i <= last
  BY <1>5
<1>7. FiltersRef(g) = binds[last].key
  BY DEF FiltersRef
<1> HIDE DEF last
<1>8. last \in 1..gen
  BY <1>6
<1>9. binds[last] \in [key : Filters, inst : Gens]
  BY <1>8, BindingIsTyped
<1>10. g < gen \/ last = g
  BY <1>1, <1>6, <1>8
<1>q. QED  BY <1>7, <1>9, <1>10

LEMMA PollFiresKeeps == ASSUME IInv, PollFires PROVE IInv'
<1> DEFINE g == timer.for
           k == binds[g].key
<1>1. timer # None /\ g \in Gens /\ g \in 1..gen /\ panelBound /\ k \in Filters
  BY TimerIsBound DEF PollFires
<1>2. UNCHANGED <<binds, panelBound, shown, fails, broken>>
  BY DEF PollFires
<1>3. Extends(binds') /\ g <= Len(binds') /\ binds'[g].key = k /\ gen' = gen
  BY <1>1, <1>2, SameExtends DEF IInv, TypeOK
<1>4. FiltersRef(g) \in Filters /\ (FiltersRef(g) = k \/ g < gen)
  BY <1>1, FiltersRefIsFilter DEF IInv
<1>5. \/ Shared(k) /\ JoinFetch(g) /\ timer' = None
      \/ timer' = schedulePollLoop(g) /\ UNCHANGED <<sent, active, since, suspend, slot, quiet>>
      \/ StartFetch(g, k, FiltersRef(g), TRUE) /\ timer' = None
  BY DEF PollFires
<1> HIDE DEF g, k
<1>6. /\ sent' \in [Gens -> Requests \cup {None}] /\ slot' \in Gens \cup {None}
      /\ slot' # None => sent'[slot'] # None
      /\ \A f \in Gens : sent'[f] # None => f <= Len(binds')
      /\ active' \in Filters \cup {None} /\ suspend' \in 0..Suspend
      /\ since' \in 0..Interval /\ quiet' \in 0..Interval
      /\ timer' \in Timers \cup {None} /\ (timer' # None => timer'.for = g)
      /\ RequestsOK' /\ ClocksAgree'
  <2>1. CASE Shared(k) /\ JoinFetch(g) /\ timer' = None
    <3>1. slot # None /\ sent[slot].key = k
      BY <2>1 DEF Shared
    <3>2. UNCHANGED <<active, since, suspend, slot, quiet>>
      BY <2>1 DEF JoinFetch
    <3>q. QED  BY <1>1, <1>3, <2>1, <3>1, <3>2, JoinKeeps DEF IInv, TypeOK, ClocksAgree
  <2>2. CASE timer' = schedulePollLoop(g) /\ UNCHANGED <<sent, active, since, suspend, slot, quiet>>
    <3>1. timer' \in Timers /\ timer'.for = g
      BY <1>1, <2>2, ScheduledIsTimer DEF IInv
    <3>2. RequestsOK' /\ ClocksAgree'
      BY <1>2, <2>2 DEF IInv, RequestsOK, ClocksAgree
    <3>q. QED  BY <1>2, <2>2, <3>1, <3>2 DEF IInv, TypeOK
  <2>3. CASE StartFetch(g, k, FiltersRef(g), TRUE) /\ timer' = None
    <3>1. /\ sent' \in [Gens -> Requests \cup {None}] /\ slot' = g
          /\ \A f \in Gens : sent'[f] # None => f <= Len(binds')
          /\ sent'[g] # None /\ since' = 0 /\ quiet' = 0
          /\ active' \in Filters \cup {None} /\ suspend' \in 0..Suspend
          /\ RequestsOK'
      BY <1>1, <1>3, <1>4, <2>3, StartKeeps DEF IInv
    <3>q. QED  BY <1>1, <2>3, <3>1 DEF ClocksAgree
  <2>q. QED  BY <1>5, <2>1, <2>2, <2>3
<1>7. timer' # None => timer'.for <= gen' /\ panelBound'
  BY <1>1, <1>2, <1>3, <1>6
<1>8. TypeOK'
  BY <1>2, <1>6, <1>7 DEF TypeOK, IInv
<1>9. ShownFits' /\ Numbered'
  BY <1>2 DEF IInv, Numbered, ShownFits
<1>q. QED  BY <1>6, <1>8, <1>9 DEF IInv

\* The last to wait for a request is a binding.
LEMMA LastWaiter ==
  ASSUME TypeOK, RequestsOK, NEW f \in Gens, sent[f] # None
  PROVE  LET w == sent[f].waiters[Len(sent[f].waiters)] IN w \in Gens /\ w <= gen
<1>1. sent[f] \in Requests /\ RequestOK(sent[f], binds, gen)
  BY DEF TypeOK, RequestsOK
<1>2. sent[f].waiters \in Seq(Gens) /\ sent[f].waiters # <<>>
  BY <1>1 DEF Requests, RequestOK
<1>3. Len(sent[f].waiters) \in DOMAIN sent[f].waiters
  BY <1>2
<1>4. gen \in Nat
  BY DEF TypeOK
<1>q. QED  BY <1>1, <1>2, <1>3, <1>4 DEF RequestOK, AllBoundTo

LEMMA AnsweredKeeps == ASSUME IInv, NEW f \in Gens, Answered(f) PROVE IInv'
<1>1. /\ sent[f] # None /\ slot' = Vacated(f) /\ sent' = [sent EXCEPT ![f] = None]
      /\ shown' = Delivered(f) /\ timer' = Rescheduled(f)
      /\ UNCHANGED <<binds, panelBound, active, since, suspend, fails, quiet, broken>>
  BY DEF Answered
<1>2. /\ sent' \in [Gens -> Requests \cup {None}] /\ slot' \in Gens \cup {None}
      /\ slot' # None => sent'[slot'] # None
      /\ \A g \in Gens : sent'[g] # None => g <= gen'
      /\ RequestsOK'
  BY <1>1, SettleKeeps DEF IInv
<1>3. /\ timer' \in Timers \cup {None}
      /\ timer' # None => timer'.for <= gen' /\ panelBound'
  <2> DEFINE w == sent[f].waiters[Len(sent[f].waiters)]
  <2>1. w \in Gens /\ w <= gen
    BY <1>1, LastWaiter DEF IInv
  <2>2. CASE panelBound
    <3>1. timer' = schedulePollLoop(w)
      BY <1>1, <2>2 DEF Rescheduled
    <3> HIDE DEF w
    <3>q. QED  BY <1>1, <2>1, <2>2, <3>1, ScheduledIsTimer DEF IInv
  <2>3. CASE ~panelBound
    BY <1>1, <2>3 DEF Rescheduled, IInv, TypeOK
  <2>q. QED  BY <2>2, <2>3
<1>4. sent[f] \in Requests /\ RequestOK(sent[f], binds, gen)
  BY <1>1 DEF IInv, TypeOK, RequestsOK
<1>5. shown' \subseteq Rows /\ ShownFits'
  <2> DEFINE row == [filter |-> sent[f].asked, key |-> sent[f].key, stray |-> sent[f].stray]
  <2>1. row \in Rows
    BY <1>4 DEF Requests, Rows
  <2>2. CASE \E i \in DOMAIN sent[f].waiters : shouldApplyDashboardQueryGeneration(sent[f].waiters[i])
    <3>1. PICK i \in DOMAIN sent[f].waiters : sent[f].waiters[i] = gen
      BY <2>2 DEF shouldApplyDashboardQueryGeneration
    <3>2. binds[gen].key = sent[f].key
      BY <1>4, <3>1 DEF RequestOK, AllBoundTo
    <3>3. row.key = binds[gen].key /\ (row.filter = row.key \/ row.stray)
      BY <1>4, <3>2 DEF RequestOK
    <3>4. shown' = shown \cup {row}
      BY <1>1, <2>2 DEF Delivered
    <3> HIDE DEF row
    <3>q. QED  BY <1>1, <2>1, <3>3, <3>4 DEF IInv, TypeOK, ShownFits
  <2>3. CASE ~ \E i \in DOMAIN sent[f].waiters : shouldApplyDashboardQueryGeneration(sent[f].waiters[i])
    <3>1. shown' = shown
      BY <1>1, <2>3 DEF Delivered
    <3>q. QED  BY <1>1, <3>1 DEF IInv, TypeOK, ShownFits
  <2>q. QED  BY <2>2, <2>3
<1>6. TypeOK'
  BY <1>1, <1>2, <1>3, <1>5 DEF IInv, TypeOK
<1>7. ClocksAgree' /\ Numbered'
  BY <1>1 DEF IInv, Numbered, ClocksAgree
<1>q. QED  BY <1>2, <1>5, <1>6, <1>7 DEF IInv

LEMMA RejectedKeeps == ASSUME IInv, NEW f \in Gens, Rejected(f) PROVE IInv'
<1>1. /\ sent[f] # None /\ slot' = Vacated(f) /\ sent' = [sent EXCEPT ![f] = None]
      /\ fails < MaxFails /\ fails' = fails + 1 /\ broken' = panelBound
      /\ UNCHANGED <<binds, panelBound, shown, active, since, suspend, timer, quiet>>
  BY DEF Rejected
<1>2. /\ sent' \in [Gens -> Requests \cup {None}] /\ slot' \in Gens \cup {None}
      /\ slot' # None => sent'[slot'] # None
      /\ \A g \in Gens : sent'[g] # None => g <= gen'
      /\ RequestsOK'
  BY <1>1, SettleKeeps DEF IInv
<1>3. TypeOK'
  BY <1>1, <1>2 DEF IInv, TypeOK
<1>q. QED  BY <1>1, <1>2, <1>3 DEF IInv, Numbered, ClocksAgree, ShownFits

LEMMA TickKeeps == ASSUME IInv, Tick PROVE IInv'
<1>1. since \in 0..Interval /\ quiet = since /\ suspend \in 0..Suspend
  BY DEF IInv, TypeOK, ClocksAgree
<1>2. since' \in 0..Interval /\ quiet' = since'
  <2>1. since + 1 \in Int /\ Interval \in Int /\ since + 1 >= 0 /\ Interval >= 0
    BY <1>1
  <2>2. Least(since + 1, Interval) \in 0..Interval
    BY <2>1, LeastMost
  <2>q. QED  BY <1>1, <2>2 DEF Tick
<1>3. suspend' \in 0..Suspend
  <2>1. suspend - 1 \in Int /\ suspend - 1 <= Suspend
    BY <1>1
  <2>2. Most(suspend - 1, 0) \in 0..Suspend
    BY <2>1, LeastMost
  <2>q. QED  BY <2>2 DEF Tick
<1>4. timer' \in Timers \cup {None} /\ (timer' # None => timer # None /\ timer'.for = timer.for)
  <2>1. CASE timer = None
    BY <2>1 DEF Tick
  <2>2. CASE timer # None
    <3>1. timer \in Timers /\ timer.left \in 0..(Interval + Suspend)
      BY <2>2 DEF IInv, TypeOK, Timers
    <3>2. Most(timer.left - 1, 0) \in 0..(Interval + Suspend)
      BY <3>1, LeastMost
    <3>3. timer' = [timer EXCEPT !.left = Most(timer.left - 1, 0)]
      BY <2>2 DEF Tick
    <3>q. QED  BY <2>2, <3>1, <3>2, <3>3 DEF Timers
  <2>q. QED  BY <2>1, <2>2
<1>5. UNCHANGED <<binds, panelBound, shown, active, slot, sent, fails, broken>>
  BY DEF Tick
<1>6. TypeOK'
  BY <1>1, <1>2, <1>3, <1>4, <1>5 DEF IInv, TypeOK
<1>q. QED  BY <1>2, <1>5, <1>6 DEF IInv, Numbered, ClocksAgree, RequestsOK, ShownFits

-----------------------------------------------------------------------------
(* The invariant                                                             *)

LEMMA InitEstablishes == ASSUME Init PROVE IInv
<1>1. binds \in Seq([key : Filters, inst : Gens]) /\ gen = 0
  BY DEF Init
<1>2. sent \in [Gens -> Requests \cup {None}] /\ \A g \in Gens : sent[g] = None
  BY DEF Init
<1>3. {since, quiet} \subseteq 0..Interval /\ suspend \in 0..Suspend /\ gen \in 0..MaxBinds /\ fails \in 0..MaxFails
  BY <1>1 DEF Init
<1>4. TypeOK
  BY <1>1, <1>2, <1>3 DEF Init, TypeOK
<1>q. QED  BY <1>1, <1>2, <1>4 DEF Init, IInv, Numbered, ClocksAgree, RequestsOK, ShownFits

LEMMA NextKeeps == ASSUME IInv, [Next]_vars PROVE IInv'
<1>1. ASSUME NEW k \in Filters, ChangeFilter(k) PROVE IInv'
  <2>1. gen \in 1..gen /\ gen \in Nat /\ Bind(k, binds[gen].inst)
    BY <1>1 DEF ChangeFilter, IInv, TypeOK, Numbered
  <2>2. binds[gen].inst \in Gens /\ binds[gen].inst <= gen + 1
    BY <2>1, BindingIsTyped DEF IInv, Numbered, Gens
  <2>q. QED  BY <2>1, <2>2, BindKeeps
<1>2. ASSUME NEW k \in Filters, OpenPage(k) PROVE IInv'
  <2>b. Bind(k, IF gen = 0 THEN 1 ELSE binds[gen].inst + 1)
    BY <1>2 DEF OpenPage
  <2>1. gen \in Nat /\ gen < MaxBinds
    BY <2>b DEF Bind, IInv, TypeOK
  <2> DEFINE inst == IF gen = 0 THEN 1 ELSE binds[gen].inst + 1
  <2>2. inst \in Gens /\ inst <= gen + 1
    <3>1. CASE gen = 0
      BY <2>1, <3>1 DEF Gens
    <3>2. CASE gen # 0
      <4>1. gen \in 1..gen
        BY <2>1, <3>2
      <4>2. binds[gen].inst \in Gens /\ binds[gen].inst <= gen
        BY <4>1, BindingIsTyped DEF IInv, Numbered
      <4>q. QED  BY <2>1, <3>2, <4>2 DEF Gens
    <3>q. QED  BY <3>1, <3>2
  <2>3. Bind(k, inst)
    BY <2>b
  <2> HIDE DEF inst
  <2>q. QED  BY <2>2, <2>3, BindKeeps
<1>3. CASE UNCHANGED vars
  <2>1. UNCHANGED reqVars /\ shown' \subseteq shown /\ (panelBound' => panelBound)
    BY <1>3 DEF vars, reqVars
  <2>2. TypeOK'
    BY <1>3 DEF IInv, TypeOK, vars
  <2>q. QED  BY <2>1, <2>2, RestKeeps DEF IInv
<1>q. QED
  BY <1>1, <1>2, <1>3, LeavePageKeeps, PollFiresKeeps, PollFiresHiddenKeeps, AnsweredKeeps,
     RejectedKeeps, TickKeeps DEF Next

\* Every reachable state of the page satisfies the inductive invariant.
THEOREM Invariant == Spec => []IInv
<1>q. QED  BY InitEstablishes, NextKeeps, PTL DEF Spec

\* The type invariant holds whatever the filters and the bounds.
THEOREM TypeCorrect == Spec => []TypeOK
<1>1. IInv => TypeOK
  BY DEF IInv
<1>q. QED  BY <1>1, Invariant, PTL

\* Answers to a request for one filter are shown under no other, and rows of
\* another filter only if a given-up binding's loop asked for them, however many
\* bindings were given up while they were on their way.
THEOREM LateAnswersFit == Spec => []ShownFits
<1>1. IInv => ShownFits
  BY DEF IInv
<1>q. QED  BY <1>1, Invariant, PTL

\* A step sends a poll only when the interval is over.
LEMMA PollIsSpaced ==
  ASSUME IInv, [Next]_vars, NEW g \in Gens, sent[g] = None, sent'[g] # None, sent'[g].byPoll
  PROVE  quiet >= Interval
<1>1. CASE PollFires
  <2>1. CASE Shared(binds[timer.for].key) /\ JoinFetch(timer.for)
    <3>1. slot \in Gens /\ sent[slot] # None
      BY <2>1 DEF Shared, IInv, TypeOK
    <3>2. \A f \in Gens \ {slot} : sent'[f] = sent[f]
      BY <2>1 DEF JoinFetch, IInv, TypeOK
    <3>q. QED  BY <3>1, <3>2
  <2>2. CASE ~shouldSkipPoll
    BY <2>2 DEF shouldSkipPoll, IInv, ClocksAgree, TypeOK
  <2>3. CASE UNCHANGED sent
    BY <2>3
  <2>q. QED  BY <1>1, <2>1, <2>2, <2>3 DEF PollFires
<1>2. ASSUME NEW k \in Filters, NEW inst, Bind(k, inst) PROVE FALSE
  <2>1. CASE Shared(k) /\ JoinFetch(gen + 1)
    <3>1. slot \in Gens /\ sent[slot] # None
      BY <2>1 DEF Shared, IInv, TypeOK
    <3>2. \A f \in Gens \ {slot} : sent'[f] = sent[f]
      BY <2>1 DEF JoinFetch, IInv, TypeOK
    <3>q. QED  BY <3>1, <3>2
  <2>2. CASE StartFetch(gen + 1, k, k, FALSE)
    <3> DEFINE q == [key |-> k, asked |-> k, byPoll |-> FALSE, stray |-> gen + 1 < gen,
                     waiters |-> <<gen + 1>>]
    <3>1. sent' = [sent EXCEPT ![gen + 1] = q] /\ ~q.byPoll
      BY <2>2 DEF StartFetch
    <3> HIDE DEF q
    <3>2. sent'[g] = q \/ sent'[g] = sent[g]
      BY <3>1 DEF IInv, TypeOK
    <3>q. QED  BY <3>1, <3>2
  <2>3. CASE UNCHANGED sent
    BY <2>3
  <2>q. QED  BY <1>2, <2>1, <2>2, <2>3 DEF Bind
<1>3. ASSUME NEW f \in Gens, sent' = [sent EXCEPT ![f] = None] PROVE FALSE
  BY <1>3 DEF IInv, TypeOK
<1>4. CASE UNCHANGED sent
  BY <1>4
<1>5. ASSUME NEW k \in Filters, ChangeFilter(k) \/ OpenPage(k) PROVE FALSE
  BY <1>2, <1>5 DEF ChangeFilter, OpenPage
<1>6. ASSUME NEW f \in Gens, Answered(f) \/ Rejected(f) PROVE FALSE
  BY <1>3, <1>6 DEF Answered, Rejected
<1>7. CASE LeavePage \/ PollFiresHidden \/ Tick \/ UNCHANGED vars
  BY <1>4, <1>7 DEF LeavePage, PollFiresHidden, Tick, vars
<1>q. QED  BY <1>1, <1>5, <1>6, <1>7 DEF Next

\* However many loops poll, at most one request per interval is a poll's.
THEOREM PollsSpaced == Spec => PollsAreSpaced
<1>1. IInv /\ [Next]_vars => [\A g \in Gens : (sent[g] = None /\ sent'[g] # None /\ sent'[g].byPoll) => quiet >= Interval]_vars
  BY PollIsSpaced
<1>q. QED  BY <1>1, Invariant, PTL DEF Spec, PollsAreSpaced

=============================================================================
