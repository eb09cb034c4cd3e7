--------------------------- MODULE RealtimeOrders ---------------------------
(***************************************************************************)
(* The real-time order list of the dashboard page.  One scheduler          *)
(* (ordersPollScheduler.ts) sends every request: one when the panel is     *)
(* bound to a filter, then a poll per interval, from module-level          *)
(* variables that all bindings share.  A binding is given up when the      *)
(* filter changes or the page is left, but the promise it awaits is not    *)
(* cancelled, and its continuation goes on when the answer comes.          *)
(*                                                                         *)
(* Bindings are numbered.  What a binding awaits is a request that it sent *)
(* itself or that another binding of the same key sent before it.  Time is *)
(* kept as ages and remainders, so that polling can be followed for ever.  *)
(***************************************************************************)
EXTENDS Integers, Sequences

CONSTANTS
  Filters,     \* canonical filter keys
  Interval,    \* ORDERS_POLL_INTERVAL_MS, in ticks
  Suspend,     \* ORDERS_FILTER_SUSPEND_MS
  MaxBinds,    \* bound: how often the panel is bound
  MaxFails,    \* bound: requests that are refused
  None         \* no timer, no request, no key

ASSUME PollAssumption ==
  /\ {Interval, Suspend, MaxBinds} \subseteq Nat \ {0} /\ MaxFails \in Nat
  /\ None \notin Nat \cup Filters

VARIABLES
  binds,       \* the bindings so far: their filter, and the panel instance
  panelBound,  \* panelBound
  shown,       \* what the rows on the page were read from
  active,      \* activeCanonicalKey
  since,       \* ticks since lastFetchStartedAt
  suspend,     \* what is left of pollSuspendUntilMs
  slot,        \* inflightCanonicalKey, inflightPromise: the binding that sent it
  timer,       \* pollTimer: the binding it polls for and what is left of it
  sent,        \* per binding the request it sent, until its promise settles
  fails,       \* requests refused so far
  \* of the properties only
  quiet,       \* ticks since the page last sent a request
  broken       \* a request failed since the panel was bound

vars == <<binds, panelBound, shown, active, since, suspend, slot, timer, sent, fails, quiet, broken>>

Gens == 1..MaxBinds
gen == Len(binds)

\* stray: the loop of a binding that had been given up sent it.
Rows == [filter : Filters, key : Filters, stray : BOOLEAN]
Requests == [key : Filters, asked : Filters, byPoll : BOOLEAN, stray : BOOLEAN, waiters : Seq(Gens)]
Timers == [for : Gens, left : 0..(Interval + Suspend)]

ASSUME NoneAssumption == None \notin Requests \cup Timers

TypeOK ==
  /\ binds \in Seq([key : Filters, inst : Gens]) /\ gen \in 0..MaxBinds
  /\ panelBound \in BOOLEAN /\ broken \in BOOLEAN
  /\ shown \subseteq Rows
  /\ active \in Filters \cup {None}
  /\ since \in 0..Interval /\ suspend \in 0..Suspend /\ quiet \in 0..Interval
  /\ slot \in Gens \cup {None}
  /\ slot # None => sent[slot] # None
  /\ timer \in Timers \cup {None} /\ (timer # None => timer.for <= gen /\ panelBound)
  /\ sent \in [Gens -> Requests \cup {None}] /\ \A g \in Gens : sent[g] # None => g <= gen
  /\ fails \in 0..MaxFails

Init ==
  /\ binds = <<>> /\ panelBound = FALSE /\ shown = {}
  /\ active = None /\ since = Interval /\ suspend = 0 /\ slot = None /\ timer = None
  /\ sent = [g \in Gens |-> None]
  /\ fails = 0
  /\ quiet = Interval /\ broken = FALSE

Least(n, m) == IF n < m THEN n ELSE m
Most(n, m) == IF n > m THEN n ELSE m

-----------------------------------------------------------------------------
\* The scheduler.

\* After a fetch started or was skipped: the delay to the next poll.
msUntilNextOrdersPollAllowed(sus, age) == Most(sus, Interval - age)

\* schedulePollLoop clears whatever timer there is and sets its own.
schedulePollLoop(g) == [for |-> g, left |-> msUntilNextOrdersPollAllowed(suspend, since)]

\* A request for key k is under way in the one slot the scheduler has.
Shared(k) == slot # None /\ sent[slot].key = k

\* executeOrdersFetch joins it: the caller awaits the same promise.
JoinFetch(g) ==
  /\ sent' = [sent EXCEPT ![slot].waiters = Append(@, g)]
  /\ UNCHANGED <<active, since, suspend, slot, quiet>>

\* (mutant) only a filter's own request counts as the last one
StartUncounted(g, key, asked, byPoll) ==
  /\ sent' = [sent EXCEPT ![g] = [key |-> key, asked |-> asked, byPoll |-> byPoll,
                                  stray |-> g < gen, waiters |-> <<g>>]]
  /\ slot' = g /\ quiet' = 0
  /\ IF byPoll THEN UNCHANGED <<active, since, suspend>>
     ELSE active' = key /\ since' = 0 /\ suspend' = Suspend

\* executeOrdersFetch sends a request.  Its rows are for the filter the page
\* shows when it is sent, whatever key it is sent for; the slot is taken even
\* when another request is still in it.
StartFetch(g, key, asked, byPoll) ==
  /\ sent' = [sent EXCEPT ![g] = [key |-> key, asked |-> asked, byPoll |-> byPoll,
                                  stray |-> g < gen, waiters |-> <<g>>]]
  /\ slot' = g
  /\ since' = 0 /\ quiet' = 0
  /\ IF byPoll THEN UNCHANGED <<active, suspend>> ELSE active' = key /\ suspend' = Suspend

shouldSkipFilter(k) == k = active /\ since < Interval

shouldSkipPoll == suspend > 0 \/ since < Interval

\* bindOrdersPanel, after the previous binding was given up: the list is
\* emptied, the generation goes up, and the filter's own request is sent unless
\* one is under way or the same key was asked a moment ago.
Bind(k, inst) ==
  /\ gen < MaxBinds
  /\ binds' = Append(binds, [key |-> k, inst |-> inst])
  /\ panelBound' = TRUE /\ shown' = {} /\ broken' = FALSE
  /\ LET g == gen + 1 IN
     \/ Shared(k) /\ JoinFetch(g) /\ timer' = None
     \/ /\ ~Shared(k) /\ shouldSkipFilter(k)
        /\ timer' = schedulePollLoop(g)
        /\ UNCHANGED <<sent, active, since, suspend, slot, quiet>>
     \/ /\ ~Shared(k) /\ ~shouldSkipFilter(k)
        /\ StartFetch(g, k, k, FALSE) /\ timer' = None
  /\ UNCHANGED fails

\* The user picks another filter: the effect's clean-up, then the effect.
ChangeFilter(k) ==
  panelBound /\ k # binds[gen].key /\ Bind(k, binds[gen].inst)

\* The page is opened, a new instance of the panel with references of its own.
OpenPage(k) ==
  ~panelBound /\ Bind(k, IF gen = 0 THEN 1 ELSE binds[gen].inst + 1)

\* The page is left: unbind.
LeavePage ==
  /\ panelBound
  /\ panelBound' = FALSE /\ timer' = None /\ shown' = {}
  /\ UNCHANGED <<binds, active, since, suspend, slot, sent, fails, quiet, broken>>

\* filtersRef.current of the instance that a binding belongs to.
FiltersRef(g) ==
  LET same == {h \in 1..gen : binds[h].inst = binds[g].inst}
  IN  binds[CHOOSE h \in same : \A i \in same : i <= h].key

\* The timer of the poll loop fires, for the binding that set it last.
PollFires ==
  /\ timer # None /\ timer.left = 0
  /\ LET g == timer.for  k == binds[g].key IN
     \/ Shared(k) /\ JoinFetch(g) /\ timer' = None
     \/ /\ ~Shared(k) /\ shouldSkipPoll
        /\ timer' = schedulePollLoop(g)
        /\ UNCHANGED <<sent, active, since, suspend, slot, quiet>>
     \/ /\ ~Shared(k) /\ ~shouldSkipPoll
        /\ StartFetch(g, k, FiltersRef(g), TRUE) /\ timer' = None
  /\ UNCHANGED <<binds, panelBound, shown, fails, broken>>

\* ... while document.hidden: nothing is sent, and the next firing is due at once
\* when the interval is over.
PollFiresHidden ==
  /\ timer # None /\ timer.left = 0 /\ ~Shared(binds[timer.for].key)
  /\ timer' = schedulePollLoop(timer.for)
  /\ UNCHANGED <<binds, panelBound, shown, active, since, suspend, slot, sent, fails, quiet, broken>>

\* (mutant) whatever comes while the panel is bound is shown
anyGeneration(g) == panelBound

\* Rows of an answer reach the page only through the binding of the present
\* generation.  They join the rows that are there: mergeRealtimeOrderRows drops
\* none but those past the limit.
shouldApplyDashboardQueryGeneration(g) == panelBound /\ g = gen

Delivered(f) ==
  IF \E i \in DOMAIN sent[f].waiters : shouldApplyDashboardQueryGeneration(sent[f].waiters[i])
    THEN shown \cup {[filter |-> sent[f].asked, key |-> sent[f].key, stray |-> sent[f].stray]}
    ELSE shown

\* (mutant) the slot is not given free when its request settles
KeptSlot(f) == slot

Vacated(f) == IF slot = f THEN None ELSE slot

\* (mutant) a binding goes on polling only after a request of its own
OwnRescheduled(f) == IF panelBound /\ f = gen THEN schedulePollLoop(f) ELSE timer

Rescheduled(f) ==
  IF panelBound THEN schedulePollLoop(sent[f].waiters[Len(sent[f].waiters)]) ELSE timer

\* The answer comes.  Every continuation that awaited the promise delivers and
\* then schedules the loop for its own binding, the last one for good.
Answered(f) ==
  /\ sent[f] # None
  /\ slot' = Vacated(f)
  /\ shown' = Delivered(f)
  /\ timer' = Rescheduled(f)
  /\ sent' = [sent EXCEPT ![f] = None]
  /\ UNCHANGED <<binds, panelBound, active, since, suspend, fails, quiet, broken>>

\* The request is refused.  The continuations throw before they schedule
\* anything, and nobody catches it.
Rejected(f) ==
  /\ fails < MaxFails /\ fails' = fails + 1
  /\ sent[f] # None
  /\ slot' = Vacated(f)
  /\ sent' = [sent EXCEPT ![f] = None]
  /\ broken' = panelBound
  /\ UNCHANGED <<binds, panelBound, shown, active, since, suspend, timer, quiet>>

Tick ==
  /\ since' = Least(since + 1, Interval) /\ quiet' = Least(quiet + 1, Interval)
  /\ suspend' = Most(suspend - 1, 0)
  /\ timer' = IF timer = None THEN None ELSE [timer EXCEPT !.left = Most(@ - 1, 0)]
  /\ UNCHANGED <<binds, panelBound, shown, active, slot, sent, fails, broken>>

Next ==
  \/ \E k \in Filters : ChangeFilter(k) \/ OpenPage(k)
  \/ LeavePage \/ PollFires \/ PollFiresHidden
  \/ \E f \in Gens : Answered(f) \/ Rejected(f)
  \/ Tick

Spec == Init /\ [][Next]_vars

\* Timers fire, now and then with the page in view, and every request is
\* answered or refused; the user owes nothing.
FairSpec ==
  /\ Spec
  /\ WF_vars(Tick) /\ SF_vars(PollFires)
  /\ \A f \in Gens : WF_vars(Answered(f) \/ Rejected(f))

-----------------------------------------------------------------------------
\* Properties.

\* The list shows only answers to requests sent for the filter on the page, a
\* late poll of the present loop no more than a filter's own request, and rows
\* of that filter. The one way another filter's rows can get there is a poll
\* that the loop of a given-up binding sent: its key is that binding's filter,
\* its rows are those of the filter of that moment, and who returns to the key
\* while it is under way is given them.
ShownFits ==
  \A r \in shown : r.key = binds[gen].key /\ (r.filter = r.key \/ r.stray)

\* Without a change of filter the page sends at most one request per interval,
\* although loops of abandoned bindings go on beside the present one.
PollsAreSpaced ==
  [][\A g \in Gens : (sent[g] = None /\ sent'[g] # None /\ sent'[g].byPoll) => quiet >= Interval]_vars

\* Polling goes on as long as the panel is bound and no request has failed
\* since it was bound: whichever binding's continuation comes last,
\* one loop is left.
Resting == \A f \in Gens : sent[f] = None
PollGoesOn ==
  (panelBound /\ Resting) ~> (~panelBound \/ ~Resting \/ broken)

=============================================================================
