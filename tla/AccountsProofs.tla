---------------------------- MODULE AccountsProofs ----------------------------
(***************************************************************************)
(* Proofs about Accounts, for any users, tenants, plans and number of      *)
(* requests under way.                                                     *)
(***************************************************************************)
EXTENDS Accounts, FiniteSetTheorems, TLAPS

-----------------------------------------------------------------------------
(* The inductive invariant                                                   *)

PlanOps == {"create", "view", "patch"}
PlanPcs == {"start", "plan", "limit", "insert", "switchOff", "write"}

\* Where a request is, or goes once it has switched the plan off.
At(q) == IF q.pc = "switchOff" THEN q.next ELSE q.pc

\* Where a request of a kind can be, and what it names there.
PlaceOK(q) ==
  /\ q.op \in PlanOps => q.tenant \in DOMAIN tenants /\ q.pc \in PlanPcs
  /\ q.op \in {"enable", "disable"} => q.pc = "start"
  /\ q.op \in {"approve", "reject"} => q.pc \in {"start", "decide"}
  /\ q.op = "delete" => q.pc \in {"start", "remove", "commit"}
  /\ q.op \notin {"view", "patch"} => q.user \in Users
  /\ At(q) \in {"limit", "insert"} => q.op = "create"
  /\ q.pc = "switchOff" => q.next \in {"start", "plan", "limit", "write", "end"}
  /\ q.op = "create" /\ At(q) = "start" => q.plans <= 1
  /\ At(q) \in {"plan", "write"} => q.plans <= 2
  /\ q.op = "disable" => q.actor # q.user

\* Who is decided on or deleted was found: its row, while it is there, is of the
\* tenant that the request holds, and it is no platform administrator.
FoundOK(q) ==
  q.pc \in {"decide", "remove", "commit"} =>
    /\ q.user \in DOMAIN rows \ Roots /\ q.tenant \in DOMAIN tenants
    /\ rows[q.user] # None =>
         rows[q.user].tenant = q.tenant /\ rows[q.user].role # "super_admin"

ReqsOK == \A r \in Active : PlaceOK(reqs[r]) /\ FoundOK(reqs[r])

\* The administrators that were there first are never deleted.
RootsOK == \A u \in Roots : u \in DOMAIN rows /\ rows[u] # None /\ rows[u].role = "super_admin"

\* The platform's own tenant is never refused, marked or left to review.
HomeOK ==
  /\ tenants[Home].status = "active"
  /\ \A r \in Active :
       /\ reqs[r].op = "reject" /\ reqs[r].pc = "decide" => reqs[r].tenant # Home
       /\ reqs[r].pc = "commit" /\ reqs[r].warns => reqs[r].tenant # Home

IInv == TypeOK /\ ReqsOK /\ RootsOK /\ HomeOK

-----------------------------------------------------------------------------
(* What every step leaves of requests, rows and tenants                      *)

USE AccountsAssumption, NoneAssumption

SameButLate(a, b) ==
  /\ a # None /\ a.op = b.op /\ a.actor = b.actor /\ a.user = b.user /\ a.tenant = b.tenant
  /\ a.pc = b.pc /\ a.next = b.next /\ a.plans = b.plans /\ a.warns = b.warns /\ a.limit = b.limit
  /\ (b.late => a.late)

\* A step of slot r only makes other requests late.
OthersStay(r) ==
  \A q \in Slots \ {r} : IF q \in Active THEN SameButLate(reqs'[q], reqs[q]) ELSE reqs'[q] = None

ReqsType == reqs \in [Slots -> Requests \cup {None}]

\* Rows are added, change their status or are used up; tenants are added.
RowsKeep ==
  /\ DOMAIN rows \subseteq DOMAIN rows' /\ DOMAIN tenants \subseteq DOMAIN tenants'
  /\ \A u \in DOMAIN rows :
       rows'[u] # None => rows[u] # None /\ rows'[u].tenant = rows[u].tenant /\ rows'[u].role = rows[u].role

LEMMA LateKeeps ==
  ASSUME ReqsType, NEW r, NEW t, NEW pc, NEW q \in Slots
  PROVE  /\ Late(r, t, pc) \in [Slots -> Requests \cup {None}]
         /\ q \in Active => SameButLate(Late(r, t, pc)[q], reqs[q])
         /\ q \notin Active => Late(r, t, pc)[q] = None
         /\ q \in Active /\ q # r /\ reqs[q].tenant = t /\ reqs[q].pc = pc => Late(r, t, pc)[q].late
         /\ q = r => Late(r, t, pc)[q] = reqs[q]
<1>1. ASSUME NEW p \in Active PROVE [reqs[p] EXCEPT !.late = TRUE] \in Requests
  BY <1>1 DEF ReqsType, Active, Requests
<1>2. Late(r, t, pc) \in [Slots -> Requests \cup {None}]
  BY <1>1 DEF Late, ReqsType, Active
<1>3. CASE q \in Active /\ q # r /\ reqs[q].tenant = t /\ reqs[q].pc = pc
  <2>1. Late(r, t, pc)[q] = [reqs[q] EXCEPT !.late = TRUE]
    BY <1>3 DEF Late
  <2>2. reqs[q] \in Requests
    BY <1>3 DEF ReqsType, Active
  <2>3. Late(r, t, pc)[q] # None
    BY <1>1, <1>3, <2>1
  <2>q. QED  BY <1>2, <1>3, <2>1, <2>2, <2>3 DEF SameButLate, Requests
<1>4. CASE ~(q \in Active /\ q # r /\ reqs[q].tenant = t /\ reqs[q].pc = pc)
  <2>1. Late(r, t, pc)[q] = reqs[q]
    BY <1>4 DEF Late
  <2>q. QED  BY <1>2, <1>4, <2>1 DEF SameButLate, Active
<1>q. QED  BY <1>3, <1>4

\* The requests, or some of them made late, with another one in slot r.
Bases(r, b) == b = reqs \/ \E t, pc : b = Late(r, t, pc)

LEMMA AdminGoneIsABase == ASSUME NEW r, NEW u PROVE Bases(r, AdminGone(r, u))
BY DEF Bases, AdminGone

LEMMA BaseTypes ==
  ASSUME ReqsType, NEW r \in Active, NEW b, Bases(r, b)
  PROVE  b \in [Slots -> Requests \cup {None}] /\ b[r] = reqs[r]
BY LateKeeps DEF Bases, ReqsType, Active

LEMMA BaseStays ==
  ASSUME ReqsType, NEW r \in Active, NEW b, Bases(r, b), NEW v \in Requests \cup {None},
         reqs' = [b EXCEPT ![r] = v]
  PROVE  ReqsType' /\ OthersStay(r) /\ reqs'[r] = v
<1>1. b \in [Slots -> Requests \cup {None}]
  BY BaseTypes
<1>3. ReqsType' /\ reqs'[r] = v
  BY <1>1 DEF ReqsType, Active
<1>4. ASSUME NEW q \in Slots \ {r} PROVE reqs'[q] = b[q]
  BY <1>1, <1>4
<1>5. ASSUME NEW q \in Slots \ {r} PROVE IF q \in Active THEN SameButLate(b[q], reqs[q]) ELSE b[q] = None
  <2>1. CASE b = reqs
    BY <2>1 DEF SameButLate, Active
  <2>2. CASE b # reqs
    BY <2>2, LateKeeps DEF Bases
  <2>q. QED  BY <2>1, <2>2
<1>q. QED  BY <1>3, <1>4, <1>5 DEF OthersStay

LEMMA OwnStays ==
  ASSUME ReqsType, NEW r \in Slots, NEW v \in Requests \cup {None},
         reqs' = [reqs EXCEPT ![r] = v]
  PROVE  ReqsType' /\ OthersStay(r) /\ reqs'[r] = v
  BY DEF ReqsType, OthersStay, SameButLate, Active

\* What holds of a request that only may have become late still holds.
LEMMA OtherReqsOK ==
  ASSUME TypeOK, ReqsOK, RowsKeep, NEW q \in Active, SameButLate(reqs'[q], reqs[q])
  PROVE  PlaceOK(reqs[q])' /\ FoundOK(reqs[q])'
<1>1. PlaceOK(reqs[q]) /\ FoundOK(reqs[q])
  BY DEF ReqsOK
<1>2. PlaceOK(reqs[q])'
  BY <1>1 DEF PlaceOK, SameButLate, RowsKeep, At
<1>3. FoundOK(reqs[q])'
  BY <1>1 DEF FoundOK, SameButLate, RowsKeep
<1>q. QED  BY <1>2, <1>3

-----------------------------------------------------------------------------
(* One lemma for what all actions share                                      *)

StoreType ==
  /\ DOMAIN rows \subseteq Users /\ \A u \in DOMAIN rows : rows[u] \in Accounts \cup {None}
  /\ Home \in DOMAIN tenants /\ DOMAIN tenants \subseteq Tenants
  /\ \A t \in DOMAIN tenants : tenants[t] \in Plans
  /\ owners \subseteq Users /\ touched \subseteq Users /\ widened \subseteq Tenants /\ usurped \in BOOLEAN
  /\ \A u \in DOMAIN rows : rows[u] # None => rows[u].tenant \in DOMAIN tenants

\* The request in slot r is where it may be.
OwnOK(r) ==
  reqs[r] # None =>
    /\ PlaceOK(reqs[r]) /\ FoundOK(reqs[r])
    /\ reqs[r].op = "reject" /\ reqs[r].pc = "decide" => reqs[r].tenant # Home
    /\ reqs[r].pc = "commit" /\ reqs[r].warns => reqs[r].tenant # Home

\* The same of a request v that is about to take a slot.
Fits(v) ==
  v # None => /\ PlaceOK(v) /\ FoundOK(v)
              /\ v.op = "reject" /\ v.pc = "decide" => v.tenant # Home
              /\ v.pc = "commit" /\ v.warns => v.tenant # Home

StoreOK == StoreType /\ RootsOK /\ tenants[Home].status = "active"

LEMMA PartsOfIInv == IInv => StoreOK /\ ReqsType /\ \A r \in Active : OwnOK(r)
BY DEF IInv, TypeOK, ReqsOK, HomeOK, StoreOK, StoreType, ReqsType, OwnOK

\* What is proved of each step of a request.
StepIsOK(r) == IInv' /\ RowsKeep /\ OthersStay(r)

LEMMA StepKeeps ==
  ASSUME IInv, NEW r \in Slots, OthersStay(r), ReqsType', RowsKeep, StoreOK',
         asked' \in 0..MaxRequests, OwnOK(r)'
  PROVE  StepIsOK(r)
<1>1. ASSUME NEW q \in Slots, reqs'[q] # None PROVE OwnOK(q)'
  <2>1. CASE q = r
    BY <2>1
  <2>2. CASE q # r
    <3>1. q \in Active /\ SameButLate(reqs'[q], reqs[q])
      BY <1>1, <2>2 DEF OthersStay
    <3>2. PlaceOK(reqs[q])' /\ FoundOK(reqs[q])'
      BY <3>1, OtherReqsOK DEF IInv
    <3>q. QED  BY <3>1, <3>2 DEF OwnOK, IInv, HomeOK, SameButLate
  <2>q. QED  BY <2>1, <2>2
<1>2. Active' = {q \in Slots : reqs'[q] # None}
  BY DEF Active
<1>3. ReqsOK'
  BY <1>1, <1>2 DEF ReqsOK, OwnOK
<1>4. HomeOK'
  BY <1>1, <1>2 DEF HomeOK, OwnOK, StoreOK
<1>5. \A q \in Active' :
        reqs'[q].pc \in {"plan", "limit", "insert", "switchOff", "write", "decide"}
          => reqs'[q].tenant \in DOMAIN tenants'
  <2>1. SUFFICES ASSUME NEW q \in Active',
                        reqs'[q].pc \in {"plan", "limit", "insert", "switchOff", "write", "decide"}
                 PROVE  reqs'[q].tenant \in DOMAIN tenants'
    OBVIOUS
  <2>2. reqs'[q] \in Requests
    BY <1>2 DEF ReqsType
  <2>3. reqs'[q].op \in Ops
    BY <2>2 DEF Requests
  <2>q. QED  BY <1>3, <2>1, <2>3 DEF ReqsOK, PlaceOK, FoundOK, Ops, PlanOps, PlanPcs
<1>6. TypeOK'
  BY <1>5 DEF TypeOK, StoreOK, StoreType, ReqsType
<1>q. QED  BY <1>3, <1>4, <1>6 DEF IInv, StoreOK, StepIsOK

\* A request that ends is nowhere.
LEMMA EndedIsOK == ASSUME NEW r, reqs'[r] = None PROVE OwnOK(r)'
BY DEF OwnOK

\* Steps that write no table keep what the tables satisfy.
LEMMA ReadingKeeps ==
  ASSUME IInv, UNCHANGED <<rows, tenants, history>>
  PROVE  StoreOK' /\ RowsKeep
BY DEF IInv, TypeOK, HomeOK, StoreOK, StoreType, RootsOK, RowsKeep, history

LEMMA ActiveTypes ==
  ASSUME IInv, NEW r \in Active
  PROVE  r \in Slots /\ reqs[r] \in Requests /\ reqs[r] # None /\ OwnOK(r)
BY PartsOfIInv DEF ReqsType, Active

-----------------------------------------------------------------------------
(* The invariant, action by action                                           *)

LEMMA InitOK == Init => IInv
<1> SUFFICES ASSUME Init PROVE IInv
  OBVIOUS
<1>1. \A u \in Roots : rows[u] \in Accounts /\ rows[u].tenant = Home /\ rows[u].role = "super_admin"
  BY DEF Init, Accounts, Statuses
<1>2. tenants[Home] \in Plans /\ tenants[Home].status = "active"
  BY DEF Init, Plans, Statuses
<1>3. DOMAIN rows = Roots /\ DOMAIN tenants = {Home} /\ Active = {}
  BY DEF Init, Active
<1>4. StoreType
  BY <1>1, <1>2, <1>3 DEF StoreType, Init
<1>5. ReqsType /\ asked \in 0..MaxRequests
  BY DEF ReqsType, Init
<1>6. TypeOK
  BY <1>3, <1>4, <1>5 DEF TypeOK, StoreType, ReqsType
<1>q. QED  BY <1>1, <1>2, <1>3, <1>6 DEF IInv, ReqsOK, RootsOK, HomeOK

LEMMA ArriveOK ==
  ASSUME IInv, NEW op \in Ops, NEW a \in Users, NEW u \in Users \cup {None}, NEW t \in Tenants \cup {None},
         Arrive(op, a, u, t),
         op \in PlanOps => t \in DOMAIN tenants,
         op \notin {"view", "patch"} => u \in Users,
         op = "disable" => a # u
  PROVE  IInv'
<1> DEFINE pc == IF op \in {"view", "patch"} THEN "plan" ELSE "start"
           q == [op |-> op, actor |-> a, user |-> u, tenant |-> t, pc |-> pc, next |-> "end", plans |-> 0,
                 limit |-> 0, warns |-> FALSE, late |-> FALSE]
<1>1. PICK r \in Slots \ Active : reqs' = [reqs EXCEPT ![r] = q]
  BY DEF Arrive
<1>2. q \in Requests
  BY DEF Requests, Pcs
<1>3. ReqsType' /\ OthersStay(r) /\ reqs'[r] = q
  BY <1>1, <1>2, OwnStays, PartsOfIInv
<1>4. StoreOK' /\ RowsKeep /\ DOMAIN tenants' = DOMAIN tenants
  BY ReadingKeeps DEF Arrive
<1>5. asked' \in 0..MaxRequests
  BY DEF Arrive, IInv, TypeOK
<1>6. OwnOK(r)'
  BY <1>3, <1>4 DEF OwnOK, PlaceOK, FoundOK, PlanPcs, At
<1>q. QED  BY <1>3, <1>4, <1>5, <1>6, StepKeeps DEF StepIsOK

LEMMA AskOK == IInv /\ Ask => IInv'
<1> SUFFICES ASSUME IInv, Ask PROVE IInv'
  OBVIOUS
<1>1. DOMAIN rows \subseteq Users /\ DOMAIN tenants \subseteq Tenants
  BY DEF IInv, TypeOK
<1>2. ASSUME NEW a \in DOMAIN rows, NEW u \in Users, NEW t \in Tenants, AskCreate(a, u, t) PROVE IInv'
  BY <1>1, <1>2, ArriveOK DEF AskCreate, Ops
<1>3. ASSUME NEW a \in DOMAIN rows, NEW t \in Tenants, NEW op \in {"view", "patch"}, AskPlan(op, a, t)
      PROVE  IInv'
  BY <1>1, <1>3, ArriveOK DEF AskPlan, Ops
<1>4. ASSUME NEW a \in DOMAIN rows, NEW u \in DOMAIN rows, NEW op \in {"enable", "disable", "delete"},
             AskUser(op, a, u)
      PROVE  IInv'
  BY <1>1, <1>4, ArriveOK DEF AskUser, MayAddress, Ops, PlanOps
<1>5. ASSUME NEW a \in DOMAIN rows, NEW u \in DOMAIN rows, NEW op \in {"approve", "reject"},
             AskDecision(op, a, u)
      PROVE  IInv'
  BY <1>1, <1>5, ArriveOK DEF AskDecision, Ops, PlanOps
<1>q. QED  BY <1>2, <1>3, <1>4, <1>5 DEF Ask

\* A step that only moves its own request.
LEMMA MovesOnly ==
  ASSUME IInv, NEW r \in Active, UNCHANGED <<rows, tenants, history, asked>>,
         NEW v \in Requests \cup {None}, reqs' = [reqs EXCEPT ![r] = v], Fits(v)
  PROVE  StepIsOK(r) /\ reqs'[r] = v
<1>1. ReqsType' /\ OthersStay(r) /\ reqs'[r] = v /\ r \in Slots
  BY OwnStays, ActiveTypes, PartsOfIInv
<1>2. StoreOK' /\ RowsKeep /\ asked' \in 0..MaxRequests
  BY ReadingKeeps DEF IInv, TypeOK
<1>3. OwnOK(r)'
  BY <1>1 DEF OwnOK, Fits, PlaceOK, FoundOK, At
<1>q. QED  BY <1>1, <1>2, <1>3, StepKeeps

LEMMA NoneFits == Fits(None)
BY DEF Fits

LEMMA assertTenantActiveOK ==
  ASSUME IInv, NEW r \in Active, assertTenantActive(r), UNCHANGED asked PROVE StepIsOK(r)
<1>1. r \in Slots /\ reqs[r] \in Requests /\ OwnOK(r) /\ reqs[r] # None /\ reqs[r].op = "create" /\ reqs[r].pc = "start"
  BY ActiveTypes DEF assertTenantActive
<1> DEFINE off == [reqs[r] EXCEPT !.pc = "switchOff", !.next = "end", !.late = FALSE]
           on == [reqs[r] EXCEPT !.pc = "plan"]
<1>2. /\ off \in Requests /\ off.op = "create" /\ off.tenant = reqs[r].tenant /\ off.user = reqs[r].user
      /\ off.pc = "switchOff" /\ off.next = "end"
  BY <1>1 DEF Requests, Pcs
<1>3. /\ on \in Requests /\ on.op = "create" /\ on.tenant = reqs[r].tenant /\ on.user = reqs[r].user
      /\ on.pc = "plan" /\ on.plans = reqs[r].plans
  BY <1>1 DEF Requests, Pcs
<1>4. \/ reqs' = [reqs EXCEPT ![r] = off]
      \/ reqs' = [reqs EXCEPT ![r] = on]
      \/ reqs' = [reqs EXCEPT ![r] = None]
  BY <1>1 DEF assertTenantActive, Goes, Ends, Requests
<1>5. reqs[r].plans <= 1 /\ reqs[r].plans \in 0..3
  BY <1>1 DEF OwnOK, PlaceOK, At, Requests
<1> HIDE DEF off, on
<1>6. Fits(off)
  BY <1>1, <1>2 DEF Fits, OwnOK, PlaceOK, FoundOK, PlanOps, PlanPcs, At
<1>7. Fits(on)
  BY <1>1, <1>3, <1>5 DEF Fits, OwnOK, PlaceOK, FoundOK, PlanOps, PlanPcs, At
<1>8. UNCHANGED <<rows, tenants, history, asked>>
  BY DEF assertTenantActive
<1>9. CASE reqs' = [reqs EXCEPT ![r] = off]
  BY <1>2, <1>6, <1>8, <1>9, MovesOnly
<1>10. CASE reqs' = [reqs EXCEPT ![r] = on]
  BY <1>3, <1>7, <1>8, <1>10, MovesOnly
<1>11. CASE reqs' = [reqs EXCEPT ![r] = None]
  BY <1>8, <1>11, MovesOnly, NoneFits
<1>q. QED  BY <1>4, <1>9, <1>10, <1>11

\* Where AfterPlan leads.
LEMMA AfterPlanIs ==
  ASSUME NEW q, q.op \in PlanOps
  PROVE  /\ AfterPlan(q) \in {"start", "limit", "plan", "write", "end"}
         /\ AfterPlan(q) \in {"start", "limit"} => q.op = "create"
         /\ AfterPlan(q) \in {"plan", "write"} => q.op = "patch" /\ q.plans \in {0, 1}
         /\ AfterPlan(q) = "start" => q.plans = 0
BY DEF AfterPlan, PlanOps

\* What a reading of the plan leaves of its request.
PlanRead(q, v) ==
  /\ v.op = q.op /\ v.tenant = q.tenant /\ v.user = q.user /\ v.actor = q.actor /\ v.warns = q.warns
  /\ v.plans = q.plans + 1 /\ v.limit = tenants[q.tenant].limit /\ v.next = AfterPlan(q)
  /\ \/ v.pc = "switchOff" /\ tenants[q.tenant].expired
     \/ v.pc = AfterPlan(q) /\ v.pc # "end"

LEMMA ReadTypes ==
  ASSUME NEW q \in Requests, q.plans \in 0..2, NEW a \in Pcs, NEW n \in Nat
  PROVE  LET read == [q EXCEPT !.next = a, !.plans = q.plans + 1, !.limit = n] IN
         read \in Requests /\ read.next = a
<1>1. q.plans + 1 \in 0..3
  OBVIOUS
<1>q. QED  BY <1>1 DEF Requests

LEMMA PlanReadIs ==
  ASSUME IInv, NEW r \in Active, getTenantPlan(r)
  PROVE  /\ reqs[r].op \in PlanOps /\ reqs[r].plans \in 0..2 /\ reqs[r].tenant \in DOMAIN tenants
         /\ \E v \in Requests \cup {None} :
              reqs' = [reqs EXCEPT ![r] = v] /\ (v # None => PlanRead(reqs[r], v))
<1>1. r \in Slots /\ reqs[r] \in Requests /\ OwnOK(r) /\ reqs[r] # None /\ reqs[r].pc = "plan"
  BY ActiveTypes DEF getTenantPlan
<1>2. reqs[r].op \in PlanOps
  <2>1. reqs[r].op \in Ops
    BY <1>1 DEF Requests
  <2>q. QED  BY <1>1, <2>1 DEF OwnOK, PlaceOK, PlanOps, Ops
<1>3. reqs[r].plans \in 0..2 /\ reqs[r].tenant \in DOMAIN tenants
  BY <1>1, <1>2 DEF OwnOK, PlaceOK, At, Requests
<1>4. tenants[reqs[r].tenant].limit \in Nat
  BY <1>3 DEF IInv, TypeOK, Plans
<1> DEFINE q == reqs[r]
           p == tenants[q.tenant]
           a == AfterPlan(q)
           read == [q EXCEPT !.next = a, !.plans = q.plans + 1, !.limit = p.limit]
           off == [read EXCEPT !.pc = "switchOff", !.late = FALSE]
           on == [read EXCEPT !.pc = read.next]
<1>5. a \in Pcs
  BY <1>2, AfterPlanIs DEF Pcs
<1>6. off \in Requests /\ (p.expired => PlanRead(q, off))
  <2> HIDE DEF a
  <2>1. read \in Requests
    BY <1>1, <1>3, <1>4, <1>5, ReadTypes
  <2>2. off \in Requests
    BY <2>1 DEF Requests, Pcs
  <2>3. /\ off.op = q.op /\ off.tenant = q.tenant /\ off.user = q.user /\ off.actor = q.actor /\ off.warns = q.warns
        /\ off.plans = q.plans + 1 /\ off.limit = p.limit /\ off.next = a /\ off.pc = "switchOff"
    BY <1>1 DEF Requests
  <2> HIDE DEF off, read
  <2>q. QED  BY <2>2, <2>3 DEF PlanRead, a
<1>7. on \in Requests /\ (a # "end" => PlanRead(q, on))
  <2> HIDE DEF a
  <2>1. read \in Requests
    BY <1>1, <1>3, <1>4, <1>5, ReadTypes
  <2>0. read.next = a
    BY <1>1 DEF Requests
  <2>2. on \in Requests
    BY <1>5, <2>0, <2>1 DEF Requests
  <2>3. /\ on.op = q.op /\ on.tenant = q.tenant /\ on.user = q.user /\ on.actor = q.actor /\ on.warns = q.warns
        /\ on.plans = q.plans + 1 /\ on.limit = p.limit /\ on.next = a /\ on.pc = a
    BY <1>1, <2>0 DEF Requests
  <2> HIDE DEF on, read
  <2>q. QED  BY <2>2, <2>3 DEF PlanRead, a
<1>8. \/ p.expired /\ reqs' = [reqs EXCEPT ![r] = off]
      \/ a # "end" /\ reqs' = [reqs EXCEPT ![r] = on]
      \/ reqs' = [reqs EXCEPT ![r] = None]
  BY <1>5 DEF getTenantPlan, overdue, Ends
<1> HIDE DEF off, on
<1>q. QED  BY <1>2, <1>3, <1>6, <1>7, <1>8 DEF q

LEMMA getTenantPlanOK ==
  ASSUME IInv, NEW r \in Active, getTenantPlan(r), UNCHANGED asked PROVE StepIsOK(r)
<1>1. reqs[r] \in Requests /\ OwnOK(r) /\ reqs[r] # None
  BY ActiveTypes
<1>2. reqs[r].op \in PlanOps /\ reqs[r].plans \in 0..2 /\ reqs[r].tenant \in DOMAIN tenants /\ reqs[r].pc = "plan"
  BY PlanReadIs DEF getTenantPlan
<1>3. PICK v \in Requests \cup {None} : reqs' = [reqs EXCEPT ![r] = v] /\ (v # None => PlanRead(reqs[r], v))
  BY PlanReadIs
<1>4. ASSUME v # None PROVE PlaceOK(v) /\ FoundOK(v) /\ v.pc \notin {"decide", "commit"}
  <2> DEFINE a == AfterPlan(reqs[r])
  <2>1. /\ a \in {"start", "limit", "plan", "write", "end"}
        /\ a \in {"start", "limit"} => reqs[r].op = "create"
        /\ a \in {"plan", "write"} => reqs[r].op = "patch" /\ reqs[r].plans \in {0, 1}
        /\ a = "start" => reqs[r].plans = 0
    BY <1>2, AfterPlanIs
  <2>2. PlanRead(reqs[r], v)
    BY <1>3, <1>4
  <2>4. At(v) = a
    BY <2>1, <2>2 DEF PlanRead, At
  <2> HIDE DEF a
  <2>q. QED  BY <1>1, <1>2, <2>1, <2>2, <2>4 DEF PlanRead, OwnOK, PlaceOK, FoundOK, PlanOps, PlanPcs, At, a
<1>5. UNCHANGED <<rows, tenants, history, asked>>
  BY DEF getTenantPlan
<1>q. QED  BY <1>3, <1>4, <1>5, MovesOnly DEF Fits

LEMMA SwitchedTypes ==
  ASSUME NEW p \in Plans, NEW b \in BOOLEAN
  PROVE  LET q == [p EXCEPT !.on = b] IN q \in Plans /\ q.status = p.status
BY DEF Plans

LEMMA syncTenantExpiryOK == ASSUME IInv, NEW r \in Active, syncTenantExpiry(r), UNCHANGED asked PROVE StepIsOK(r)
<1>1. r \in Slots /\ reqs[r] \in Requests /\ OwnOK(r) /\ reqs[r] # None /\ reqs[r].pc = "switchOff"
  BY ActiveTypes DEF syncTenantExpiry
<1> DEFINE t == reqs[r].tenant
           on == [reqs[r] EXCEPT !.pc = reqs[r].next]
           v == IF reqs[r].next = "end" THEN None ELSE on
<1>2. /\ on \in Requests /\ on.op = reqs[r].op /\ on.tenant = t /\ on.pc = reqs[r].next
      /\ on.user = reqs[r].user /\ on.actor = reqs[r].actor /\ on.plans = reqs[r].plans
  BY <1>1 DEF Requests
<1>3. reqs' = [reqs EXCEPT ![r] = v]
  BY <1>1 DEF syncTenantExpiry, Goes, Ends, Requests
<1>4. v \in Requests \cup {None}
  BY <1>2
<1>5. ReqsType' /\ OthersStay(r) /\ reqs'[r] = v
  <2> HIDE DEF v, t
  <2>q. QED  BY <1>1, <1>3, <1>4, OwnStays, PartsOfIInv
<1>6. t \in DOMAIN tenants /\ reqs[r].op \in PlanOps
  <2>1. reqs[r].op \in Ops
    BY <1>1 DEF Requests
  <2>q. QED  BY <1>1, <2>1 DEF OwnOK, PlaceOK, PlanOps, Ops
<1>7. tenants' = [tenants EXCEPT ![t].on = FALSE] /\ rows' = rows /\ history' = history
  BY DEF syncTenantExpiry
<1>8. /\ DOMAIN tenants' = DOMAIN tenants
      /\ \A x \in DOMAIN tenants : tenants'[x] \in Plans /\ tenants'[x].status = tenants[x].status
  <2> DEFINE p == [tenants[t] EXCEPT !.on = FALSE]
  <2>1. \A x \in DOMAIN tenants : tenants[x] \in Plans
    BY DEF IInv, TypeOK
  <2>2. p \in Plans /\ p.status = tenants[t].status
    BY <1>6, <2>1, SwitchedTypes
  <2>3. tenants' = [tenants EXCEPT ![t] = p]
    BY <1>7
  <2> HIDE DEF p, t
  <2>q. QED  BY <1>6, <2>1, <2>2, <2>3
<1>9. StoreOK' /\ RowsKeep
  BY <1>7, <1>8, PartsOfIInv DEF StoreOK, StoreType, RootsOK, RowsKeep, history
<1>10. Fits(v)
  <2>1. on.pc \in PlanPcs \ {"switchOff"} \/ v = None
    BY <1>1, <1>2, <1>6 DEF OwnOK, PlaceOK, PlanPcs
  <2> HIDE DEF on
  <2>q. QED  BY <1>1, <1>2, <1>6, <2>1 DEF Fits, OwnOK, PlaceOK, FoundOK, PlanPcs, PlanOps, At
<1>11. OwnOK(r)'
  <2> HIDE DEF v, t
  <2>q. QED  BY <1>5, <1>7, <1>8, <1>10 DEF Fits, OwnOK, PlaceOK, FoundOK, At
<1>q. QED  BY <1>1, <1>5, <1>9, <1>11, StepKeeps DEF IInv, TypeOK

LEMMA PatchedTypes ==
  ASSUME NEW p \in Plans, NEW n \in Patched(p)
  PROVE  n \in Plans /\ n.status = p.status
<1>1. \A m \in Limits : [p EXCEPT !.limit = m] \in Plans /\ [p EXCEPT !.limit = m].status = p.status
  BY DEF Plans
<1>2. \A b \in BOOLEAN : [p EXCEPT !.on = b] \in Plans /\ [p EXCEPT !.on = b].status = p.status
  BY DEF Plans
<1>3. [p EXCEPT !.expired = FALSE] \in Plans /\ [p EXCEPT !.expired = FALSE].status = p.status
  BY DEF Plans
<1>4. /\ [p EXCEPT !.expired = FALSE, !.on = TRUE] \in Plans
      /\ [p EXCEPT !.expired = FALSE, !.on = TRUE].status = p.status
  BY DEF Plans
<1>q. QED  BY <1>1, <1>2, <1>3, <1>4 DEF Patched

LEMMA updateTenantPlanOK == ASSUME IInv, NEW r \in Active, updateTenantPlan(r), UNCHANGED asked PROVE StepIsOK(r)
<1>1. r \in Slots /\ reqs[r] \in Requests /\ OwnOK(r) /\ reqs[r] # None /\ reqs[r].op = "patch" /\ reqs[r].pc = "write"
  BY ActiveTypes DEF updateTenantPlan
<1> DEFINE t == reqs[r].tenant
           b == Late(r, t, "switchOff")
           v == [reqs[r] EXCEPT !.pc = "plan"]
<1>2. v \in Requests /\ v.op = "patch" /\ v.tenant = t /\ v.pc = "plan" /\ v.plans = reqs[r].plans
  BY <1>1 DEF Requests, Pcs
<1>3. Bases(r, b)
  BY DEF Bases
<1>4. reqs' = [b EXCEPT ![r] = v]
  <2>1. b[r] = reqs[r] /\ b \in [Slots -> Requests \cup {None}]
    BY <1>1, LateKeeps, PartsOfIInv
  <2>q. QED  BY <1>1, <2>1 DEF updateTenantPlan
<1>5. ReqsType' /\ OthersStay(r) /\ reqs'[r] = v
  <2>1. v \in Requests \cup {None} /\ ReqsType
    BY <1>2, PartsOfIInv
  <2> HIDE DEF v, b, t
  <2>q. QED  BY <1>3, <1>4, <2>1, BaseStays
<1>6. t \in DOMAIN tenants /\ reqs[r].plans <= 2
  BY <1>1 DEF OwnOK, PlaceOK, PlanOps, At
<1>7. /\ \E p \in Patched(tenants[t]) : tenants' = [tenants EXCEPT ![t] = p]
      /\ rows' = rows /\ UNCHANGED <<owners, touched, usurped>>
      /\ widened' \subseteq widened \cup {t}
  BY DEF updateTenantPlan
<1>8. /\ DOMAIN tenants' = DOMAIN tenants
      /\ \A x \in DOMAIN tenants : tenants'[x] \in Plans /\ tenants'[x].status = tenants[x].status
  BY <1>6, <1>7, PatchedTypes DEF IInv, TypeOK
<1>9. StoreOK' /\ RowsKeep
  BY <1>6, <1>7, <1>8, PartsOfIInv DEF StoreOK, StoreType, RootsOK, RowsKeep
<1>10. OwnOK(r)'
  <2> HIDE DEF v
  <2>q. QED  BY <1>2, <1>5, <1>6, <1>8 DEF OwnOK, PlaceOK, FoundOK, PlanPcs, PlanOps, At
<1>q. QED  BY <1>1, <1>5, <1>9, <1>10, StepKeeps DEF IInv, TypeOK

LEMMA assertUserLimitOK == ASSUME IInv, NEW r \in Active, assertUserLimit(r), UNCHANGED asked PROVE StepIsOK(r)
<1>1. r \in Slots /\ reqs[r] \in Requests /\ OwnOK(r) /\ reqs[r] # None /\ reqs[r].pc = "limit"
  BY ActiveTypes DEF assertUserLimit
<1> DEFINE v == [reqs[r] EXCEPT !.pc = "insert"]
<1>2. /\ v \in Requests /\ v.op = reqs[r].op /\ v.tenant = reqs[r].tenant /\ v.user = reqs[r].user
      /\ v.pc = "insert"
  BY <1>1 DEF Requests, Pcs
<1>3. reqs' = [reqs EXCEPT ![r] = None] \/ reqs' = [reqs EXCEPT ![r] = v]
  BY <1>1 DEF assertUserLimit, Ends, Goes
<1>4. UNCHANGED <<rows, tenants, history, asked>>
  BY DEF assertUserLimit
<1> HIDE DEF v
<1>5. Fits(v)
  BY <1>1, <1>2 DEF Fits, OwnOK, PlaceOK, FoundOK, PlanPcs, PlanOps, At
<1>q. QED  BY <1>2, <1>3, <1>4, <1>5, MovesOnly, NoneFits

LEMMA createUserByActorOK == ASSUME IInv, NEW r \in Active, createUserByActor(r), UNCHANGED asked PROVE StepIsOK(r)
<1>1. r \in Slots /\ reqs[r] \in Requests /\ OwnOK(r) /\ reqs[r] # None
  BY ActiveTypes
<1> DEFINE t == reqs[r].tenant
           u == reqs[r].user
           row == [tenant |-> t, ustat |-> "active", mstat |-> "active",
                   role |-> IF reqs[r].actor \in Roots THEN "admin" ELSE "viewer"]
<1>2. t \in DOMAIN tenants /\ u \in Users /\ t \in Tenants
  BY <1>1 DEF OwnOK, PlaceOK, PlanOps, createUserByActor, IInv, TypeOK, At
<1>3. row \in Accounts /\ row.tenant = t
  BY <1>2 DEF Accounts, Statuses
<1>4. reqs' = [reqs EXCEPT ![r] = None] /\ tenants' = tenants /\ history' = history
  BY DEF createUserByActor, Ends
<1>5. ReqsType' /\ OthersStay(r) /\ reqs'[r] = None
  BY <1>1, <1>4, OwnStays, PartsOfIInv
<1>6. CASE u \in DOMAIN rows
  BY <1>4, <1>6, MovesOnly, NoneFits DEF createUserByActor
<1>7. CASE u \notin DOMAIN rows
  <2>1. rows' = Inserted(rows, u, row)
    BY <1>7 DEF createUserByActor
  <2> HIDE DEF row
  <2>2. DOMAIN rows' = DOMAIN rows \cup {u} /\ rows'[u] = row /\ \A x \in DOMAIN rows : rows'[x] = rows[x]
    <3> HIDE DEF u
    <3>q. QED  BY <1>7, <2>1 DEF Inserted
  <2>3. StoreType'
    BY <1>2, <1>3, <1>4, <2>2, PartsOfIInv DEF StoreOK, StoreType, history
  <2>4. StoreOK' /\ RowsKeep
    BY <1>4, <2>2, <2>3, PartsOfIInv DEF StoreOK, RootsOK, RowsKeep
  <2>q. QED  BY <1>1, <1>5, <2>4, EndedIsOK, StepKeeps DEF IInv, TypeOK
<1>q. QED  BY <1>6, <1>7

\* What a step does to one row, and to the status of one tenant.
RowIs(u, a, b) ==
  /\ DOMAIN rows' = DOMAIN rows /\ \A x \in DOMAIN rows \ {u} : rows'[x] = rows[x]
  /\ rows'[u] # None /\ rows'[u] \in Accounts
  /\ rows'[u].tenant = rows[u].tenant /\ rows'[u].role = rows[u].role
  /\ rows'[u].ustat = a /\ rows'[u].mstat = b

LEMMA SetStatus ==
  ASSUME IInv, NEW u \in DOMAIN rows, rows[u] # None, NEW a \in Statuses, NEW b \in Statuses,
         rows' = [rows EXCEPT ![u].ustat = a, ![u].mstat = b]
  PROVE  RowIs(u, a, b)
<1>1. rows[u] \in Accounts
  BY DEF IInv, TypeOK
<1>2. rows' = [rows EXCEPT ![u] = [rows[u] EXCEPT !.ustat = a, !.mstat = b]]
  BY <1>1 DEF Accounts
<1> DEFINE o == [rows[u] EXCEPT !.ustat = a, !.mstat = b]
<1>3. rows'[u] = o /\ DOMAIN rows' = DOMAIN rows /\ \A x \in DOMAIN rows \ {u} : rows'[x] = rows[x]
  BY <1>2
<1>4. o \in Accounts /\ o.tenant = rows[u].tenant /\ o.role = rows[u].role /\ o.ustat = a /\ o.mstat = b
  BY <1>1 DEF Accounts
<1>5. o # None
  BY <1>4
<1> HIDE DEF o
<1>q. QED  BY <1>3, <1>4, <1>5 DEF RowIs

LEMMA RowIsKeeps ==
  ASSUME IInv, NEW u \in DOMAIN rows, rows[u] # None, NEW a, NEW b, RowIs(u, a, b),
         DOMAIN tenants' = DOMAIN tenants,
         \A x \in DOMAIN tenants : tenants'[x] \in Plans,
         tenants'[Home].status = "active", owners' = owners,
         touched' \subseteq Users, widened' \subseteq Tenants, usurped' \in BOOLEAN
  PROVE  StoreOK' /\ RowsKeep
<1>1. StoreType'
  BY PartsOfIInv DEF StoreOK, StoreType, RowIs
<1>q. QED  BY <1>1, PartsOfIInv DEF StoreOK, RootsOK, RowsKeep, RowIs

LEMMA setUserStatusByActorOK ==
  ASSUME IInv, NEW r \in Active, setUserStatusByActor(r), UNCHANGED asked PROVE StepIsOK(r)
<1>1. r \in Slots /\ reqs[r] \in Requests /\ OwnOK(r) /\ reqs[r] # None
  BY ActiveTypes
<1> DEFINE u == reqs[r].user
           st == IF reqs[r].op = "enable" THEN "active" ELSE "disabled"
           b == IF st = "disabled" THEN AdminGone(r, u) ELSE reqs
<1>2. CASE Row(u) = None
  BY <1>2, MovesOnly, NoneFits DEF setUserStatusByActor, Ends, history
<1>3. CASE Row(u) # None
  <2>1. /\ rows' = [rows EXCEPT ![u].ustat = st, ![u].mstat = st]
        /\ reqs' = [b EXCEPT ![r] = None]
        /\ tenants' = tenants /\ owners' = owners /\ touched' = touched \cup {u}
        /\ widened' \subseteq widened \cup {rows[u].tenant}
        /\ usurped' = (usurped \/ Usurps(reqs[r]))
    BY <1>3 DEF setUserStatusByActor
  <2>2. u \in DOMAIN rows /\ rows[u] # None /\ st \in Statuses
    BY <1>3 DEF Row, Statuses
  <2>3. ReqsType' /\ OthersStay(r) /\ reqs'[r] = None
    <3>1. Bases(r, b)
      BY AdminGoneIsABase DEF Bases
    <3> HIDE DEF b
    <3>q. QED  BY <2>1, <3>1, BaseStays, PartsOfIInv
  <2>4. RowIs(u, st, st)
    <3> HIDE DEF st, u
    <3>q. QED  BY <2>1, <2>2, SetStatus
  <2>5. usurped' \in BOOLEAN /\ touched' \subseteq Users /\ widened' \subseteq Tenants
    BY <2>1, <2>2 DEF Usurps, IInv, TypeOK
  <2>6. StoreOK' /\ RowsKeep
    <3> HIDE DEF st, u
    <3>q. QED  BY <2>1, <2>2, <2>4, <2>5, RowIsKeeps, PartsOfIInv DEF StoreOK, StoreType
  <2>q. QED  BY <1>1, <2>3, <2>6, EndedIsOK, StepKeeps DEF IInv, TypeOK
<1>q. QED  BY <1>2, <1>3

LEMMA ReadPendingOK == ASSUME IInv, NEW r \in Active, ReadPending(r), UNCHANGED asked PROVE StepIsOK(r)
<1>1. r \in Slots /\ reqs[r] \in Requests /\ OwnOK(r) /\ reqs[r] # None
  BY ActiveTypes
<1> DEFINE u == reqs[r].user
           v == [reqs[r] EXCEPT !.pc = "decide", !.tenant = rows[u].tenant]
           found == /\ Row(u) # None /\ rows[u].role = "admin" /\ rows[u].mstat = "pending_review"
                    /\ (reqs[r].op = "reject" => rows[u].tenant # Home)
<1>2. StoreOK' /\ RowsKeep /\ DOMAIN tenants' = DOMAIN tenants /\ asked' \in 0..MaxRequests
  BY ReadingKeeps DEF ReadPending, IInv, TypeOK
<1>3. CASE ~found
  <2>1. reqs' = [reqs EXCEPT ![r] = None]
    BY <1>3 DEF ReadPending, Ends
  <2>2. ReqsType' /\ OthersStay(r) /\ reqs'[r] = None
    BY <1>1, <2>1, OwnStays, PartsOfIInv
  <2>q. QED  BY <1>1, <1>2, <2>2, EndedIsOK, StepKeeps
<1>4. CASE found
  <2>1. u \in DOMAIN rows \ Roots /\ rows[u] # None /\ rows[u].tenant \in DOMAIN tenants
          /\ rows[u].tenant \in Tenants /\ rows[u].role # "super_admin"
    BY <1>4 DEF Row, IInv, TypeOK, RootsOK
  <2>2. v \in Requests /\ v.op = reqs[r].op /\ v.tenant = rows[u].tenant /\ v.pc = "decide" /\ v.user = u
          /\ v.actor = reqs[r].actor
    BY <1>1, <2>1 DEF Requests, Pcs
  <2>3. reqs' = [reqs EXCEPT ![r] = v]
    BY <1>4 DEF ReadPending
  <2>4. ReqsType' /\ OthersStay(r) /\ reqs'[r] = v
    <3> HIDE DEF v
    <3>q. QED  BY <1>1, <2>2, <2>3, OwnStays, PartsOfIInv
  <2>5. rows' = rows /\ tenants' = tenants /\ reqs[r].op \in {"approve", "reject"}
    BY DEF ReadPending
  <2>6. OwnOK(r)'
    <3> HIDE DEF v
    <3>1. PlaceOK(reqs[r])'
      BY <1>1, <2>2, <2>4, <2>5 DEF OwnOK, PlaceOK, PlanOps, At
    <3>2. FoundOK(reqs[r])'
      BY <2>1, <2>2, <2>4, <2>5 DEF FoundOK
    <3>q. QED  BY <1>4, <2>2, <2>4, <2>5, <3>1, <3>2 DEF OwnOK
  <2>q. QED  BY <1>1, <1>2, <2>4, <2>6, StepKeeps
<1>q. QED  BY <1>3, <1>4

\* A tenant's new status.
LEMMA TenantStatus ==
  ASSUME IInv, NEW t \in DOMAIN tenants, NEW st \in Statuses \cup {"warning"},
         t = Home => st = "active",
         tenants' = [tenants EXCEPT ![t].status = st]
  PROVE  /\ DOMAIN tenants' = DOMAIN tenants /\ tenants'[Home].status = "active"
         /\ \A x \in DOMAIN tenants : tenants'[x] \in Plans /\ (x # t => tenants'[x] = tenants[x])
         /\ tenants'[t].status = st /\ tenants'[t].on = tenants[t].on
         /\ tenants'[t].expired = tenants[t].expired /\ tenants'[t].limit = tenants[t].limit
<1> DEFINE p == [tenants[t] EXCEPT !.status = st]
<1>1. tenants[t] \in Plans /\ tenants[Home].status = "active"
  BY DEF IInv, TypeOK, HomeOK
<1>2. p \in Plans /\ p.status = st /\ p.on = tenants[t].on /\ p.expired = tenants[t].expired
        /\ p.limit = tenants[t].limit
  BY <1>1 DEF Plans
<1>3. tenants' = [tenants EXCEPT ![t] = p]
  OBVIOUS
<1> HIDE DEF p
<1>q. QED  BY <1>1, <1>2, <1>3 DEF IInv, TypeOK

\* What approving and rejecting share: one tenant's status, and one row.
LEMMA DecisionOK ==
  ASSUME IInv, NEW r \in Active, reqs[r].pc = "decide", UNCHANGED <<asked, history>>,
         NEW st \in Statuses \cup {"warning"}, reqs[r].tenant = Home => st = "active",
         tenants' = [tenants EXCEPT ![reqs[r].tenant].status = st],
         NEW a \in Statuses, NEW b \in Statuses,
         Row(reqs[r].user) = None => rows' = rows,
         Row(reqs[r].user) # None => rows' = [rows EXCEPT ![reqs[r].user].ustat = a, ![reqs[r].user].mstat = b],
         NEW base, Bases(r, base), reqs' = [base EXCEPT ![r] = None]
  PROVE  StepIsOK(r)
<1>1. r \in Slots /\ OwnOK(r)
  BY ActiveTypes
<1> DEFINE t == reqs[r].tenant
           u == reqs[r].user
<1>2. u \in DOMAIN rows \ Roots /\ t \in DOMAIN tenants
  BY <1>1 DEF OwnOK, FoundOK, Active
<1>3. ReqsType' /\ OthersStay(r) /\ reqs'[r] = None
  BY BaseStays, PartsOfIInv
<1>4. DOMAIN tenants' = DOMAIN tenants /\ tenants'[Home].status = "active"
        /\ \A x \in DOMAIN tenants : tenants'[x] \in Plans
  BY <1>2, TenantStatus
<1>5. StoreOK' /\ RowsKeep
  <2>1. CASE Row(u) = None
    BY <1>4, <2>1, PartsOfIInv DEF StoreOK, StoreType, RootsOK, RowsKeep, history
  <2>2. CASE Row(u) # None
    <3>1. rows[u] # None
      BY <1>2, <2>2 DEF Row
    <3>2. RowIs(u, a, b)
      BY <1>2, <2>2, <3>1, SetStatus
    <3>q. QED  BY <1>2, <1>4, <3>1, <3>2, RowIsKeeps DEF IInv, TypeOK, history
  <2>q. QED  BY <2>1, <2>2
<1>q. QED  BY <1>1, <1>3, <1>5, EndedIsOK, StepKeeps DEF IInv, TypeOK

LEMMA approveOK ==
  ASSUME IInv, NEW r \in Active, approvePendingTenantOwner(r), UNCHANGED asked PROVE StepIsOK(r)
<1>1. OwnOK(r) /\ reqs[r] # None
  BY ActiveTypes
<1> DEFINE t == reqs[r].tenant
           u == reqs[r].user
           settled(st) == IF st = "pending_review" THEN "active" ELSE st
<1>2. u \in DOMAIN rows \ Roots /\ t \in DOMAIN tenants /\ reqs[r].pc = "decide"
  BY <1>1 DEF OwnOK, FoundOK, approvePendingTenantOwner
<1>3. tenants' = [tenants EXCEPT ![t].status = Opened(tenants[t].status)]
  <2>1. tenants[t] \in Plans
    BY <1>2 DEF IInv, TypeOK
  <2>q. QED  BY <2>1 DEF approvePendingTenantOwner, OpenedTenant, Plans
<1>4. t = Home => Opened(tenants[t].status) = "active"
  BY DEF Opened, IInv, HomeOK
<1>5. Row(u) = None => rows' = rows
  BY DEF approvePendingTenantOwner
<1>6. Row(u) # None =>
        /\ rows' = [rows EXCEPT ![u].ustat = settled(rows[u].ustat), ![u].mstat = settled(rows[u].mstat)]
        /\ settled(rows[u].ustat) \in Statuses /\ settled(rows[u].mstat) \in Statuses
  <2>1. SUFFICES ASSUME Row(u) # None
        PROVE  /\ rows' = [rows EXCEPT ![u].ustat = settled(rows[u].ustat), ![u].mstat = settled(rows[u].mstat)]
               /\ settled(rows[u].ustat) \in Statuses /\ settled(rows[u].mstat) \in Statuses
    OBVIOUS
  <2>2. rows[u] \in Accounts
    BY <1>2, <2>1 DEF Row, IInv, TypeOK
  <2>3. rows' = [rows EXCEPT ![u].ustat = settled(rows[u].ustat), ![u].mstat = settled(rows[u].mstat)]
    BY <2>1, <2>2 DEF approvePendingTenantOwner, OpenedRow, Opened, Accounts
  <2>q. QED  BY <2>2, <2>3 DEF Accounts, Statuses
<1>7. /\ reqs' = [reqs EXCEPT ![r] = None] /\ Bases(r, reqs)
      /\ UNCHANGED <<asked, history>>
  BY DEF approvePendingTenantOwner, Ends, Bases
<1>8. Opened(tenants[t].status) \in Statuses \cup {"warning"}
  BY <1>2 DEF Opened, Plans, Statuses, IInv, TypeOK
<1>9. CASE Row(u) = None
  BY <1>2, <1>3, <1>4, <1>5, <1>7, <1>8, <1>9, DecisionOK DEF Statuses
<1>10. CASE Row(u) # None
  <2> HIDE DEF settled
  <2>q. QED  BY <1>2, <1>3, <1>4, <1>6, <1>7, <1>8, <1>10, DecisionOK
<1>q. QED  BY <1>9, <1>10

LEMMA rejectOK ==
  ASSUME IInv, NEW r \in Active, rejectPendingTenantOwner(r), UNCHANGED asked PROVE StepIsOK(r)
<1>1. reqs[r].pc = "decide" /\ reqs[r].op = "reject" /\ "disabled" \in Statuses
  BY DEF rejectPendingTenantOwner, Statuses
<1>2. reqs[r].tenant # Home
  BY <1>1 DEF IInv, HomeOK
<1> DEFINE base == IF Row(reqs[r].user) = None THEN reqs ELSE AdminGone(r, reqs[r].user)
<1>3. Bases(r, base) /\ reqs' = [base EXCEPT ![r] = None]
  BY AdminGoneIsABase DEF Bases, rejectPendingTenantOwner
<1> HIDE DEF base
<1>q. QED  BY <1>1, <1>2, <1>3, DecisionOK DEF rejectPendingTenantOwner

LEMMA CheckDeleteOK == ASSUME IInv, NEW r \in Active, CheckDelete(r), UNCHANGED asked PROVE StepIsOK(r)
<1>1. r \in Slots /\ reqs[r] \in Requests /\ OwnOK(r) /\ reqs[r] # None
  BY ActiveTypes
<1> DEFINE u == reqs[r].user
           warns == rows[u].role = "admin"
           v == [reqs[r] EXCEPT !.pc = "remove", !.tenant = rows[u].tenant, !.warns = warns]
           refused == Row(u) = None \/ rows[u].role = "super_admin"
<1>2. StoreOK' /\ RowsKeep /\ DOMAIN tenants' = DOMAIN tenants /\ asked' \in 0..MaxRequests
  BY ReadingKeeps DEF CheckDelete, IInv, TypeOK
<1>3. CASE refused
  <2>1. reqs' = [reqs EXCEPT ![r] = None]
    BY <1>3 DEF CheckDelete, Ends
  <2>2. ReqsType' /\ OthersStay(r) /\ reqs'[r] = None
    BY <1>1, <2>1, OwnStays, PartsOfIInv
  <2>q. QED  BY <1>1, <1>2, <2>2, EndedIsOK, StepKeeps
<1>4. CASE ~refused
  <2>1. u \in DOMAIN rows \ Roots /\ rows[u] # None /\ rows[u].tenant \in DOMAIN tenants
          /\ rows[u].tenant \in Tenants /\ rows[u].role # "super_admin"
    BY <1>4 DEF Row, IInv, TypeOK, RootsOK
  <2>2. v \in Requests /\ v.op = reqs[r].op /\ v.tenant = rows[u].tenant /\ v.pc = "remove" /\ v.user = u
    <3>1. warns \in BOOLEAN
      OBVIOUS
    <3> HIDE DEF warns
    <3>q. QED  BY <1>1, <2>1, <3>1 DEF Requests, Pcs
  <2>3. reqs' = [reqs EXCEPT ![r] = v]
    BY <1>4 DEF CheckDelete
  <2>4. ReqsType' /\ OthersStay(r) /\ reqs'[r] = v
    <3> HIDE DEF v
    <3>q. QED  BY <1>1, <2>2, <2>3, OwnStays, PartsOfIInv
  <2>5. rows' = rows /\ tenants' = tenants /\ reqs[r].op = "delete"
    BY DEF CheckDelete
  <2>6. OwnOK(r)'
    <3> HIDE DEF v
    <3>1. PlaceOK(reqs[r])'
      BY <1>1, <2>2, <2>4, <2>5 DEF OwnOK, PlaceOK, PlanOps, At
    <3>2. FoundOK(reqs[r])'
      BY <2>1, <2>2, <2>4, <2>5 DEF FoundOK
    <3>q. QED  BY <1>4, <2>2, <2>4, <2>5, <3>1, <3>2 DEF OwnOK
  <2>q. QED  BY <1>1, <1>2, <2>4, <2>6, StepKeeps
<1>q. QED  BY <1>3, <1>4

LEMMA RemoveRowsOK == ASSUME IInv, NEW r \in Active, RemoveRows(r), UNCHANGED asked PROVE StepIsOK(r)
<1>1. r \in Slots /\ reqs[r] \in Requests /\ OwnOK(r) /\ reqs[r] # None
  BY ActiveTypes
<1> DEFINE warns == reqs[r].warns /\ softDeleteTenantIfNoActiveAdmin(reqs[r].tenant, reqs[r].user)
           v == [reqs[r] EXCEPT !.pc = "commit", !.late = FALSE, !.warns = warns]
<1>2. StoreOK' /\ RowsKeep /\ UNCHANGED <<rows, tenants>> /\ asked' \in 0..MaxRequests
  BY ReadingKeeps DEF RemoveRows, IInv, TypeOK
<1>3. /\ v \in Requests /\ v.op = reqs[r].op /\ v.tenant = reqs[r].tenant /\ v.pc = "commit"
      /\ v.user = reqs[r].user /\ (v.warns => v.tenant # Home)
  <2>1. warns \in BOOLEAN /\ (warns => reqs[r].tenant # Home)
    BY <1>1 DEF Requests, softDeleteTenantIfNoActiveAdmin
  <2> HIDE DEF warns
  <2>q. QED  BY <1>1, <2>1 DEF Requests, Pcs
<1>4. reqs' = [reqs EXCEPT ![r] = v]
  BY <1>1 DEF RemoveRows, Requests
<1>5. ReqsType' /\ OthersStay(r) /\ reqs'[r] = v
  <2> HIDE DEF v
  <2>q. QED  BY <1>1, <1>3, <1>4, OwnStays, PartsOfIInv
<1>6. reqs[r].op = "delete" /\ reqs[r].pc = "remove"
  <2>1. reqs[r].op \in Ops
    BY <1>1 DEF Requests
  <2>q. QED  BY <1>1, <2>1 DEF OwnOK, PlaceOK, PlanOps, PlanPcs, Ops, RemoveRows
<1>7. OwnOK(r)'
  <2> HIDE DEF v
  <2>1. PlaceOK(reqs[r])'
    BY <1>1, <1>3, <1>5, <1>6 DEF OwnOK, PlaceOK, PlanOps, At
  <2>2. FoundOK(reqs[r])'
    BY <1>1, <1>2, <1>3, <1>5, <1>6 DEF OwnOK, FoundOK
  <2>q. QED  BY <1>3, <1>5, <2>1, <2>2 DEF OwnOK
<1>q. QED  BY <1>1, <1>2, <1>5, <1>7, StepKeeps

LEMMA CommitDeleteOK == ASSUME IInv, NEW r \in Active, CommitDelete(r), UNCHANGED asked PROVE StepIsOK(r)
<1>1. r \in Slots /\ reqs[r] \in Requests /\ OwnOK(r) /\ reqs[r] # None
  BY ActiveTypes
<1> DEFINE t == reqs[r].tenant
           u == reqs[r].user
<1>2. u \in DOMAIN rows \ Roots /\ t \in DOMAIN tenants /\ (reqs[r].warns => t # Home)
  BY <1>1 DEF OwnOK, FoundOK, CommitDelete
<1> DEFINE base == IF Row(u) = None THEN reqs ELSE AdminGone(r, u)
<1>3. /\ rows' = [rows EXCEPT ![u] = None] /\ UNCHANGED history
      /\ reqs' = [base EXCEPT ![r] = None] /\ Bases(r, base)
      /\ tenants' = tenants \/ (t # Home /\ tenants' = [tenants EXCEPT ![t].status = "warning"])
  BY <1>2, AdminGoneIsABase DEF CommitDelete, Bases
<1>4. ReqsType' /\ OthersStay(r) /\ reqs'[r] = None
  <2> HIDE DEF base
  <2>q. QED  BY <1>3, BaseStays, PartsOfIInv
<1>5. DOMAIN tenants' = DOMAIN tenants /\ tenants'[Home].status = "active"
        /\ \A x \in DOMAIN tenants : tenants'[x] \in Plans
  <2>1. CASE tenants' = tenants
    BY <2>1 DEF IInv, HomeOK, TypeOK
  <2>2. CASE tenants' # tenants
    BY <1>2, <1>3, <2>2, TenantStatus
  <2>q. QED  BY <2>1, <2>2
<1>6. StoreOK' /\ RowsKeep
  <2> HIDE DEF u, t
  <2>1. DOMAIN rows' = DOMAIN rows /\ rows'[u] = None /\ \A x \in DOMAIN rows \ {u} : rows'[x] = rows[x]
    BY <1>2, <1>3
  <2>2. StoreType'
    BY <1>2, <1>3, <1>5, <2>1, PartsOfIInv DEF StoreOK, StoreType, history
  <2>q. QED  BY <1>2, <1>5, <2>1, <2>2, PartsOfIInv DEF StoreOK, RootsOK, RowsKeep
<1>q. QED  BY <1>1, <1>4, <1>6, EndedIsOK, StepKeeps DEF IInv, TypeOK

\* Steps of nobody's request.
LEMMA OutsideKeeps ==
  ASSUME IInv, ReqsType', RowsKeep, StoreOK', UNCHANGED asked,
         \A q \in Slots : IF q \in Active THEN SameButLate(reqs'[q], reqs[q]) ELSE reqs'[q] = None
  PROVE  IInv'
<1>1. CASE Slots = {}
  <2>1. Active' = {}
    BY <1>1 DEF Active
  <2>q. QED  BY <2>1 DEF IInv, TypeOK, ReqsOK, HomeOK, StoreOK, StoreType, ReqsType
<1>2. CASE Slots # {}
  <2>1. PICK r \in Slots : TRUE
    BY <1>2
  <2>2. OthersStay(r)
    BY DEF OthersStay
  <2>3. OwnOK(r)'
    <3>1. CASE r \in Active
      <4>1. PlaceOK(reqs[r])' /\ FoundOK(reqs[r])'
        BY <3>1, OtherReqsOK DEF IInv
      <4>q. QED  BY <3>1, <4>1 DEF OwnOK, IInv, HomeOK, SameButLate
    <3>2. CASE r \notin Active
      BY <3>2 DEF OwnOK
    <3>q. QED  BY <3>1, <3>2
  <2>q. QED  BY <2>2, <2>3, StepKeeps DEF IInv, TypeOK, StepIsOK
<1>q. QED  BY <1>1, <1>2

LEMMA registerOK ==
  ASSUME IInv, NEW u \in Users, NEW t \in Tenants, registerPublicTenantOwner(u, t) PROVE IInv'
<1> DEFINE plan == [status |-> "pending_review", on |-> TRUE, expired |-> FALSE, limit |-> NewLimit]
           row == [tenant |-> t, role |-> "admin", ustat |-> "pending_review", mstat |-> "pending_review"]
<1>1. plan \in Plans /\ row \in Accounts /\ row.tenant = t
  BY DEF Plans, Accounts, Statuses
<1>2. /\ rows' = Inserted(rows, u, row) /\ tenants' = Inserted(tenants, t, plan)
      /\ u \notin DOMAIN rows /\ t \notin DOMAIN tenants
      /\ UNCHANGED <<reqs, asked, touched, widened, usurped>> /\ owners' = owners \cup {u}
  BY DEF registerPublicTenantOwner
<1> HIDE DEF plan, row
<1>3. /\ DOMAIN rows' = DOMAIN rows \cup {u} /\ rows'[u] = row /\ \A x \in DOMAIN rows : rows'[x] = rows[x]
      /\ DOMAIN tenants' = DOMAIN tenants \cup {t} /\ tenants'[t] = plan
      /\ \A x \in DOMAIN tenants : tenants'[x] = tenants[x]
  BY <1>2 DEF Inserted
<1>4. StoreType'
  BY <1>1, <1>2, <1>3, PartsOfIInv DEF StoreOK, StoreType
<1>5. StoreOK' /\ RowsKeep
  BY <1>3, <1>4, PartsOfIInv DEF StoreOK, StoreType, RootsOK, RowsKeep
<1>6. ReqsType'
  BY <1>2, PartsOfIInv DEF ReqsType
<1>7. \A q \in Slots : IF q \in Active THEN SameButLate(reqs'[q], reqs[q]) ELSE reqs'[q] = None
  BY <1>2 DEF SameButLate, Active
<1>q. QED  BY <1>2, <1>5, <1>6, <1>7, OutsideKeeps

LEMMA ExpiredTypes ==
  ASSUME IInv, NEW t \in DOMAIN tenants, tenants' = [tenants EXCEPT ![t].expired = TRUE]
  PROVE  /\ DOMAIN tenants' = DOMAIN tenants
         /\ \A x \in DOMAIN tenants : tenants'[x] \in Plans /\ tenants'[x].status = tenants[x].status
<1> DEFINE p == [tenants[t] EXCEPT !.expired = TRUE]
<1>1. \A x \in DOMAIN tenants : tenants[x] \in Plans
  BY DEF IInv, TypeOK
<1>2. \A x \in Plans : [x EXCEPT !.expired = TRUE] \in Plans /\ [x EXCEPT !.expired = TRUE].status = x.status
  BY DEF Plans
<1>3. p \in Plans /\ p.status = tenants[t].status
  BY <1>1, <1>2
<1>4. tenants' = [tenants EXCEPT ![t] = p]
  OBVIOUS
<1> HIDE DEF p
<1>q. QED  BY <1>1, <1>3, <1>4

LEMMA PlanExpiresOK == ASSUME IInv, NEW t \in Tenants, PlanExpires(t) PROVE IInv'
<1>1. /\ t \in DOMAIN tenants \ {Home} /\ tenants' = [tenants EXCEPT ![t].expired = TRUE]
      /\ UNCHANGED <<rows, reqs, asked, history>>
  BY DEF PlanExpires
<1>2. /\ DOMAIN tenants' = DOMAIN tenants
      /\ \A x \in DOMAIN tenants : tenants'[x] \in Plans /\ tenants'[x].status = tenants[x].status
  BY <1>1, ExpiredTypes
<1>3. StoreOK' /\ RowsKeep
  BY <1>1, <1>2, PartsOfIInv DEF StoreOK, StoreType, RootsOK, RowsKeep, history
<1>4. ReqsType' /\ \A q \in Slots : IF q \in Active THEN SameButLate(reqs'[q], reqs[q]) ELSE reqs'[q] = None
  BY <1>1, PartsOfIInv DEF ReqsType, SameButLate, Active
<1>q. QED  BY <1>1, <1>3, <1>4, OutsideKeeps

LEMMA StepOK == ASSUME IInv, NEW r \in Active, Step(r), UNCHANGED asked PROVE StepIsOK(r)
<1>0. CASE assertTenantActive(r)
  BY <1>0, assertTenantActiveOK
<1>1. CASE getTenantPlan(r)
  BY <1>1, getTenantPlanOK
<1>2. CASE syncTenantExpiry(r)
  BY <1>2, syncTenantExpiryOK
<1>3. CASE updateTenantPlan(r)
  BY <1>3, updateTenantPlanOK
<1>4. CASE assertUserLimit(r)
  BY <1>4, assertUserLimitOK
<1>5. CASE createUserByActor(r)
  BY <1>5, createUserByActorOK
<1>6. CASE setUserStatusByActor(r)
  BY <1>6, setUserStatusByActorOK
<1>7. CASE ReadPending(r)
  BY <1>7, ReadPendingOK
<1>8. CASE approvePendingTenantOwner(r)
  BY <1>8, approveOK
<1>9. CASE rejectPendingTenantOwner(r)
  BY <1>9, rejectOK
<1>10. CASE CheckDelete(r)
  BY <1>10, CheckDeleteOK
<1>11. CASE RemoveRows(r)
  BY <1>11, RemoveRowsOK
<1>12. CASE CommitDelete(r)
  BY <1>12, CommitDeleteOK
<1>q. QED  BY <1>0, <1>1, <1>2, <1>3, <1>4, <1>5, <1>6, <1>7, <1>8, <1>9, <1>10, <1>11, <1>12 DEF Step

LEMMA NextOK == IInv /\ [Next]_vars => IInv'
<1> SUFFICES ASSUME IInv, [Next]_vars PROVE IInv'
  OBVIOUS
<1>1. CASE Ask
  BY <1>1, AskOK
<1>2. ASSUME NEW u \in Users, NEW t \in Tenants, registerPublicTenantOwner(u, t) PROVE IInv'
  BY <1>2, registerOK
<1>3. ASSUME NEW t \in Tenants, PlanExpires(t) PROVE IInv'
  BY <1>3, PlanExpiresOK
<1>4. ASSUME NEW r \in Active, Step(r), UNCHANGED asked PROVE IInv'
  BY <1>4, StepOK DEF StepIsOK
<1>5. CASE UNCHANGED vars
  BY <1>5 DEF vars, history, IInv, TypeOK, ReqsOK, RootsOK, HomeOK, PlaceOK, FoundOK, Active, At
<1>q. QED  BY <1>1, <1>2, <1>3, <1>4, <1>5 DEF Next

\* Every request stands where its kind may stand and names rows and tenants that
\* are there; the first administrators and the platform's own tenant stay.
THEOREM InvariantHolds == Spec => []IInv
<1>1. Init => IInv
  BY InitOK
<1>2. IInv /\ [Next]_vars => IInv'
  BY NextOK
<1>q. QED  BY <1>1, <1>2, PTL DEF Spec

\* Users, tenants, plans and requests keep their types; a member's tenant
\* exists, and a statement that writes a tenant has one.
THEOREM TypeCorrect == Spec => []TypeOK
<1>1. IInv => TypeOK
  BY DEF IInv
<1>q. QED  BY <1>1, InvariantHolds, PTL

-----------------------------------------------------------------------------
(* An administrator is left                                                  *)

\* What a step on behalf of a request changes of the rows: one, or none.
OnlyRow(u) == DOMAIN rows' = DOMAIN rows /\ \A x \in DOMAIN rows \ {u} : rows'[x] = rows[x]

LEMMA OneRow ==
  ASSUME IInv, NEW r \in Active, Step(r)
  PROVE  \/ UNCHANGED rows
         \/ /\ createUserByActor(r) /\ reqs[r].user \notin DOMAIN rows
            /\ DOMAIN rows' = DOMAIN rows \cup {reqs[r].user}
            /\ \A x \in DOMAIN rows : rows'[x] = rows[x]
         \/ /\ OnlyRow(reqs[r].user)
            /\ \/ setUserStatusByActor(r) /\ Row(reqs[r].user) # None
               \/ reqs[r].pc \in {"decide", "commit"}
<1>1. CASE assertTenantActive(r) \/ getTenantPlan(r) \/ syncTenantExpiry(r) \/ updateTenantPlan(r) \/ assertUserLimit(r)
             \/ ReadPending(r) \/ CheckDelete(r) \/ RemoveRows(r)
  BY <1>1 DEF assertTenantActive, getTenantPlan, syncTenantExpiry, updateTenantPlan, assertUserLimit, ReadPending, CheckDelete, RemoveRows
<1>2. CASE createUserByActor(r)
  BY <1>2 DEF createUserByActor, Inserted
<1>3. CASE setUserStatusByActor(r)
  <2>1. CASE Row(reqs[r].user) = None
    BY <1>3, <2>1 DEF setUserStatusByActor
  <2>2. CASE Row(reqs[r].user) # None
    BY <1>3, <2>2 DEF setUserStatusByActor, OnlyRow
  <2>q. QED  BY <2>1, <2>2
<1>4. CASE approvePendingTenantOwner(r)
  BY <1>4 DEF approvePendingTenantOwner, OnlyRow
<1>5. CASE rejectPendingTenantOwner(r)
  BY <1>5 DEF rejectPendingTenantOwner, OnlyRow
<1>6. CASE CommitDelete(r)
  BY <1>6 DEF CommitDelete, OnlyRow
<1>q. QED  BY <1>1, <1>2, <1>3, <1>4, <1>5, <1>6 DEF Step

LEMMA AdminStays ==
  ASSUME NEW w \in ActivePlatformAdmins, w \in DOMAIN rows', rows'[w] = rows[w]
  PROVE  w \in ActivePlatformAdmins'
BY DEF ActivePlatformAdmins

LEMMA StepKeepsAdmins ==
  ASSUME IInv, SomePlatformAdmin, NEW r \in Active, Step(r)
  PROVE  SomePlatformAdmin'
<1> DEFINE u == reqs[r].user
<1>1. r \in Slots /\ reqs[r] \in Requests /\ OwnOK(r) /\ reqs[r] # None
  BY ActiveTypes
<1>2. usurped => usurped'
  BY DEF history, Step, assertTenantActive, getTenantPlan, syncTenantExpiry, updateTenantPlan, assertUserLimit, createUserByActor,
         setUserStatusByActor, ReadPending, approvePendingTenantOwner, rejectPendingTenantOwner,
         CheckDelete, RemoveRows, CommitDelete
<1>3. CASE usurped
  BY <1>2, <1>3 DEF SomePlatformAdmin
<1>4. CASE ~usurped
  <2>1. PICK w \in ActivePlatformAdmins : TRUE
    BY <1>4 DEF SomePlatformAdmin
  <2>2. w \in DOMAIN rows /\ rows[w] # None /\ rows[w].role = "super_admin"
    BY DEF ActivePlatformAdmins
  <2>3. CASE w \in DOMAIN rows' /\ rows'[w] = rows[w]
    BY <2>1, <2>3, AdminStays DEF SomePlatformAdmin
  <2>4. CASE ~(w \in DOMAIN rows' /\ rows'[w] = rows[w])
    <3>1. w = u /\ OnlyRow(u) /\ (setUserStatusByActor(r) \/ reqs[r].pc \in {"decide", "commit"})
      BY <2>2, <2>4, OneRow DEF OnlyRow
    <3>2. setUserStatusByActor(r)
      BY <1>1, <2>2, <3>1 DEF OwnOK, FoundOK
    <3>3. Row(u) # None
      BY <2>2, <3>1 DEF Row
    <3>4. CASE reqs[r].op = "enable"
      <4>1. rows' = [rows EXCEPT ![u].ustat = "active", ![u].mstat = "active"]
        BY <3>2, <3>3, <3>4 DEF setUserStatusByActor
      <4>2. RowIs(u, "active", "active")
        BY <2>2, <3>1, <4>1, SetStatus DEF Statuses
      <4>3. u \in ActivePlatformAdmins'
        BY <2>2, <3>1, <4>2 DEF RowIs, ActivePlatformAdmins
      <4>q. QED  BY <4>3 DEF SomePlatformAdmin
    <3>5. CASE reqs[r].op # "enable"
      <4> DEFINE a == reqs[r].actor
      <4>1. reqs[r].op = "disable" /\ a # u
        BY <1>1, <3>2, <3>5 DEF OwnOK, PlaceOK, setUserStatusByActor
      <4>2. usurped' = (usurped \/ Usurps(reqs[r]))
        BY <3>2, <3>3 DEF setUserStatusByActor
      <4>3. CASE a \notin ActivePlatformAdmins
        BY <2>2, <3>1, <4>2, <4>3 DEF Usurps, SomePlatformAdmin
      <4>4. CASE a \in ActivePlatformAdmins
        <5>1. a \in DOMAIN rows
          BY <4>4 DEF ActivePlatformAdmins
        <5>2. a \in DOMAIN rows' /\ rows'[a] = rows[a]
          BY <3>1, <4>1, <5>1 DEF OnlyRow
        <5>q. QED  BY <4>4, <5>2, AdminStays DEF SomePlatformAdmin
      <4>q. QED  BY <4>3, <4>4
    <3>q. QED  BY <3>4, <3>5
  <2>q. QED  BY <2>3, <2>4
<1>q. QED  BY <1>3, <1>4

\* However administrators disable and delete each other, one is left, unless a
\* request outlived its actor's own disabling.
THEOREM AnAdminIsLeft == Spec => []SomePlatformAdmin
<1>1. Init => SomePlatformAdmin
  <2> SUFFICES ASSUME Init PROVE ActivePlatformAdmins # {}
    BY DEF SomePlatformAdmin
  <2>1. PICK u \in Roots : TRUE
    OBVIOUS
  <2> DEFINE row == [tenant |-> Home, role |-> "super_admin", ustat |-> "active", mstat |-> "active"]
  <2>2. row \in Accounts
    BY DEF Accounts, Statuses
  <2>3. rows[u] = row /\ u \in DOMAIN rows /\ row # None
    BY <2>2 DEF Init
  <2>4. u \in ActivePlatformAdmins
    BY <2>3 DEF ActivePlatformAdmins
  <2>q. QED  BY <2>4
<1>2. IInv /\ SomePlatformAdmin /\ [Next]_vars => SomePlatformAdmin'
  <2> SUFFICES ASSUME IInv, SomePlatformAdmin, [Next]_vars PROVE SomePlatformAdmin'
    OBVIOUS
  <2>1. CASE UNCHANGED <<rows, usurped>>
    BY <2>1 DEF SomePlatformAdmin, ActivePlatformAdmins
  <2>2. ASSUME Ask PROVE UNCHANGED <<rows, usurped>>
    BY <2>2 DEF Ask, AskCreate, AskPlan, AskUser, AskDecision, Arrive, history
  <2>3. ASSUME NEW u \in Users, NEW t \in Tenants, registerPublicTenantOwner(u, t) PROVE SomePlatformAdmin'
    <3>1. usurped' = usurped /\ \A x \in DOMAIN rows : x \in DOMAIN rows' /\ rows'[x] = rows[x]
      BY <2>3 DEF registerPublicTenantOwner, Inserted
    <3>2. CASE usurped
      BY <3>1, <3>2 DEF SomePlatformAdmin
    <3>3. CASE ~usurped
      <4>1. PICK w \in ActivePlatformAdmins : w \in DOMAIN rows
        BY <3>3 DEF SomePlatformAdmin, ActivePlatformAdmins
      <4>q. QED  BY <3>1, <4>1, AdminStays DEF SomePlatformAdmin
    <3>q. QED  BY <3>2, <3>3
  <2>4. ASSUME NEW t \in Tenants, PlanExpires(t) PROVE UNCHANGED <<rows, usurped>>
    BY <2>4 DEF PlanExpires, history
  <2>5. ASSUME NEW r \in Active, Step(r) PROVE SomePlatformAdmin'
    BY <2>5, StepKeepsAdmins
  <2>q. QED  BY <2>1, <2>2, <2>3, <2>4, <2>5 DEF Next, vars, history
<1>q. QED  BY <1>1, <1>2, InvariantHolds, PTL DEF Spec

-----------------------------------------------------------------------------
(* What a step does to its request and to its user                           *)

\* Statements that are the last of their request.
LEMMA LastSteps ==
  ASSUME IInv, NEW r \in Active,
         \/ createUserByActor(r) \/ setUserStatusByActor(r) \/ approvePendingTenantOwner(r)
         \/ rejectPendingTenantOwner(r) \/ CommitDelete(r)
  PROVE  \E b : /\ Bases(r, b) /\ reqs' = [b EXCEPT ![r] = None] /\ reqs'[r] = None
                /\ \A q \in Slots \ {r} : reqs'[q] = b[q]
<1> DEFINE b == IF reqs' = [reqs EXCEPT ![r] = None] THEN reqs ELSE AdminGone(r, reqs[r].user)
<1>1. Bases(r, b)
  BY AdminGoneIsABase DEF Bases
<1>2. reqs' = [b EXCEPT ![r] = None]
  BY DEF createUserByActor, setUserStatusByActor, approvePendingTenantOwner, rejectPendingTenantOwner,
         CommitDelete, Ends
<1> HIDE DEF b
<1>3. b \in [Slots -> Requests \cup {None}] /\ r \in Slots
  BY <1>1, BaseTypes, PartsOfIInv DEF Active
<1>4. reqs'[r] = None /\ \A q \in Slots \ {r} : reqs'[q] = b[q]
  BY <1>2, <1>3
<1>q. QED  BY <1>1, <1>2, <1>4

\* Who leads a request where.
LEMMA StepGoes ==
  ASSUME IInv, NEW r \in Active, Step(r), reqs'[r] # None
  PROVE  /\ reqs'[r].pc = "insert" => assertUserLimit(r)
         /\ reqs'[r].pc = "decide" => ReadPending(r)
         /\ reqs'[r].pc = "remove" => CheckDelete(r)
         /\ reqs'[r].pc = "commit" => RemoveRows(r)
         /\ reqs'[r].pc = "switchOff" => assertTenantActive(r) \/ getTenantPlan(r)
         /\ At(reqs'[r]) = "limit" => getTenantPlan(r) \/ syncTenantExpiry(r)
<1>1. r \in Slots /\ reqs[r] \in Requests /\ OwnOK(r) /\ reqs[r] # None /\ reqs \in [Slots -> Requests \cup {None}]
  BY ActiveTypes DEF IInv, TypeOK
<1>2. CASE createUserByActor(r) \/ setUserStatusByActor(r) \/ approvePendingTenantOwner(r)
             \/ rejectPendingTenantOwner(r) \/ CommitDelete(r)
  BY <1>2, LastSteps
<1>3. CASE syncTenantExpiry(r)
  <2>1. reqs[r].pc = "switchOff" /\ reqs'[r].pc = reqs[r].next /\ reqs'[r].next = reqs[r].next
    BY <1>1, <1>3 DEF syncTenantExpiry, Ends, Goes, Requests
  <2>q. QED  BY <1>1, <1>3, <2>1 DEF OwnOK, PlaceOK
<1>4. CASE updateTenantPlan(r)
  <2>1. Late(r, reqs[r].tenant, "switchOff") \in [Slots -> Requests \cup {None}]
          /\ Late(r, reqs[r].tenant, "switchOff")[r] = reqs[r]
    BY <1>1, LateKeeps DEF ReqsType
  <2>2. reqs'[r].pc = "plan"
    BY <1>1, <1>4, <2>1 DEF updateTenantPlan, Requests
  <2>q. QED  BY <2>2 DEF At
<1>5. CASE assertTenantActive(r)
  <2>1. \/ reqs'[r].pc = "switchOff" /\ reqs'[r].next = "end"
        \/ reqs'[r].pc = "plan"
    BY <1>1, <1>5 DEF assertTenantActive, Goes, Ends, Requests
  <2>q. QED  BY <1>5, <2>1 DEF At
<1>6. CASE getTenantPlan(r)
  <2>1. PICK v : reqs'[r] = v /\ PlanRead(reqs[r], v)
    BY <1>1, <1>6, PlanReadIs
  <2>2. reqs[r].op \in PlanOps
    BY <1>6, PlanReadIs
  <2>q. QED  BY <1>6, <2>1, <2>2, AfterPlanIs DEF PlanRead
<1>7. CASE assertUserLimit(r)
  <2>1. reqs'[r].pc = "insert"
    BY <1>1, <1>7 DEF assertUserLimit, Ends, Goes, Requests
  <2>q. QED  BY <1>7, <2>1 DEF At
<1>8. CASE ReadPending(r)
  <2>1. reqs'[r].pc = "decide"
    BY <1>1, <1>8 DEF ReadPending, Ends, Requests
  <2>q. QED  BY <1>8, <2>1 DEF At
<1>9. CASE CheckDelete(r)
  <2>1. reqs'[r].pc = "remove"
    BY <1>1, <1>9 DEF CheckDelete, Ends, Requests
  <2>q. QED  BY <1>9, <2>1 DEF At
<1>10. CASE RemoveRows(r)
  <2>1. reqs'[r].pc = "commit"
    BY <1>1, <1>10 DEF RemoveRows, Requests
  <2>q. QED  BY <1>10, <2>1 DEF At
<1>q. QED  BY <1>2, <1>3, <1>4, <1>5, <1>6, <1>7, <1>8, <1>9, <1>10 DEF Step

\* What a step does to the rows.
LEMMA StepRow ==
  ASSUME IInv, NEW r \in Active, Step(r), NEW u, u = reqs[r].user
  PROVE  \/ UNCHANGED rows
         \/ /\ createUserByActor(r) /\ u \notin DOMAIN rows /\ DOMAIN rows' = DOMAIN rows \cup {u}
            /\ \A x \in DOMAIN rows : rows'[x] = rows[x]
            /\ rows'[u].tenant = reqs[r].tenant /\ rows'[u].mstat = "active"
         \/ /\ u \in DOMAIN rows /\ rows[u] # None
            /\ \/ /\ setUserStatusByActor(r) /\ u \in touched'
                  /\ \/ RowIs(u, "active", "active") /\ rows[u].tenant \in widened'
                     \/ RowIs(u, "disabled", "disabled") /\ reqs' = [AdminGone(r, u) EXCEPT ![r] = None]
               \/ approvePendingTenantOwner(r) /\ RowIs(u, Opened(rows[u].ustat), Opened(rows[u].mstat))
               \/ /\ rejectPendingTenantOwner(r) /\ RowIs(u, "disabled", "disabled")
                  /\ reqs' = [AdminGone(r, u) EXCEPT ![r] = None]
         \/ /\ CommitDelete(r) /\ OnlyRow(u) /\ u \in DOMAIN rows /\ rows'[u] = None
            /\ rows[u] # None => reqs' = [AdminGone(r, u) EXCEPT ![r] = None]
<1>1. r \in Slots /\ reqs[r] \in Requests /\ OwnOK(r) /\ \A x \in DOMAIN rows : rows[x] \in Accounts \cup {None}
  BY ActiveTypes DEF IInv, TypeOK
<1>2. CASE assertTenantActive(r) \/ getTenantPlan(r) \/ syncTenantExpiry(r) \/ updateTenantPlan(r)
             \/ assertUserLimit(r) \/ ReadPending(r) \/ CheckDelete(r) \/ RemoveRows(r)
  BY <1>2 DEF assertTenantActive, getTenantPlan, syncTenantExpiry, updateTenantPlan, assertUserLimit,
              ReadPending, CheckDelete, RemoveRows
<1>3. CASE createUserByActor(r)
  BY <1>3 DEF createUserByActor, Inserted
<1>4. CASE setUserStatusByActor(r)
  <2>1. CASE Row(u) = None
    BY <1>4, <2>1 DEF setUserStatusByActor
  <2>2. CASE Row(u) # None
    <3>1. u \in DOMAIN rows /\ rows[u] # None /\ u \in touched' /\ {"active", "disabled"} \subseteq Statuses
      BY <1>4, <2>2 DEF Row, setUserStatusByActor, Statuses
    <3>2. CASE reqs[r].op = "enable"
      <4>1. rows' = [rows EXCEPT ![u].ustat = "active", ![u].mstat = "active"] /\ rows[u].tenant \in widened'
        BY <1>4, <2>2, <3>2 DEF setUserStatusByActor
      <4>q. QED  BY <1>4, <3>1, <4>1, SetStatus
    <3>3. CASE reqs[r].op # "enable"
      <4>1. rows' = [rows EXCEPT ![u].ustat = "disabled", ![u].mstat = "disabled"]
              /\ reqs' = [AdminGone(r, u) EXCEPT ![r] = None]
        BY <1>4, <2>2, <3>3 DEF setUserStatusByActor
      <4>q. QED  BY <1>4, <3>1, <4>1, SetStatus
    <3>q. QED  BY <3>2, <3>3
  <2>q. QED  BY <2>1, <2>2
<1>5. CASE approvePendingTenantOwner(r)
  <2>1. CASE Row(u) = None
    BY <1>5, <2>1 DEF approvePendingTenantOwner
  <2>2. CASE Row(u) # None
    <3>1. u \in DOMAIN rows /\ rows[u] # None /\ rows[u] \in Accounts
      BY <1>1, <2>2 DEF Row
    <3>2. Opened(rows[u].ustat) \in Statuses /\ Opened(rows[u].mstat) \in Statuses
      BY <3>1 DEF Opened, Accounts, Statuses
    <3>3. rows' = [rows EXCEPT ![u].ustat = Opened(rows[u].ustat), ![u].mstat = Opened(rows[u].mstat)]
      BY <1>5, <2>2, <3>1 DEF approvePendingTenantOwner, OpenedRow, Accounts
    <3>q. QED  BY <1>5, <3>1, <3>2, <3>3, SetStatus
  <2>q. QED  BY <2>1, <2>2
<1>6. CASE rejectPendingTenantOwner(r)
  <2>1. CASE Row(u) = None
    BY <1>6, <2>1 DEF rejectPendingTenantOwner
  <2>2. CASE Row(u) # None
    <3>1. u \in DOMAIN rows /\ rows[u] # None /\ "disabled" \in Statuses
      BY <2>2 DEF Row, Statuses
    <3>2. rows' = [rows EXCEPT ![u].ustat = "disabled", ![u].mstat = "disabled"]
            /\ reqs' = [AdminGone(r, u) EXCEPT ![r] = None]
      BY <1>6, <2>2 DEF rejectPendingTenantOwner
    <3>q. QED  BY <1>6, <3>1, <3>2, SetStatus
  <2>q. QED  BY <2>1, <2>2
<1>7. CASE CommitDelete(r)
  <2>1. u \in DOMAIN rows
    BY <1>1, <1>7, ActiveTypes DEF OwnOK, FoundOK, CommitDelete
  <2>q. QED  BY <1>7, <2>1 DEF CommitDelete, OnlyRow, Row
<1>q. QED  BY <1>2, <1>3, <1>4, <1>5, <1>6, <1>7 DEF Step

-----------------------------------------------------------------------------
(* Places in a plan                                                          *)

Counted(t) == {x \in Members(t) : rows[x].ustat # "disabled" /\ rows[x].mstat # "disabled"}
Inserting(t) == {r \in Active : reqs[r].pc = "insert" /\ reqs[r].tenant = t}

\* Whoever is about to count holds the plan's limit.
LimitsRead ==
  \A r \in Active : At(reqs[r]) = "limit" /\ reqs[r].tenant \notin widened
                      => reqs[r].limit = tenants[reqs[r].tenant].limit

\* The members of a tenant, with those about to be inserted, exceed its limit by
\* one less than there are slots.
Bounded(t) ==
  Inserting(t) # {} =>
    Cardinality(Counted(t)) + Cardinality(Inserting(t)) <= tenants[t].limit + Cardinality(Slots) - 1

PlacesOK == LimitsRead /\ \A t \in DOMAIN tenants \ widened : Bounded(t)

LEMMA CountTypes ==
  ASSUME IInv, NEW t
  PROVE  /\ IsFiniteSet(Counted(t)) /\ Cardinality(Counted(t)) \in Nat
         /\ IsFiniteSet(Inserting(t)) /\ Cardinality(Inserting(t)) \in Nat
         /\ Cardinality(Slots) \in Nat /\ Cardinality(Inserting(t)) <= Cardinality(Slots)
         /\ countUsersForTenant(t) = Cardinality(Counted(t))
<1>1. Counted(t) \subseteq Users /\ Inserting(t) \subseteq Slots
  BY DEF IInv, TypeOK, Members, Counted, Inserting, Active
<1>2. IsFiniteSet(Counted(t)) /\ IsFiniteSet(Inserting(t)) /\ Cardinality(Inserting(t)) <= Cardinality(Slots)
  BY <1>1, FS_Subset
<1>q. QED  BY <1>2, FS_CardinalityType DEF countUsersForTenant, Counted

\* Limits are changed by patches only.
LEMMA StepLimits ==
  ASSUME IInv, NEW r \in Active, Step(r), NEW t \in DOMAIN tenants
  PROVE  /\ DOMAIN tenants' = DOMAIN tenants /\ widened \subseteq widened'
         /\ t \in widened' \/ tenants'[t].limit = tenants[t].limit
<1>1. tenants[t] \in Plans
  BY DEF IInv, TypeOK
<1>2. widened \subseteq widened'
  BY DEF Step, assertTenantActive, getTenantPlan, syncTenantExpiry, updateTenantPlan, assertUserLimit,
         createUserByActor, setUserStatusByActor, ReadPending, approvePendingTenantOwner,
         rejectPendingTenantOwner, CheckDelete, RemoveRows, CommitDelete, history
<1>7. DOMAIN tenants' = DOMAIN tenants
  BY DEF Step, assertTenantActive, getTenantPlan, syncTenantExpiry, updateTenantPlan, assertUserLimit,
         createUserByActor, setUserStatusByActor, ReadPending, approvePendingTenantOwner,
         rejectPendingTenantOwner, CheckDelete, RemoveRows, CommitDelete
<1>3. CASE UNCHANGED tenants
  BY <1>2, <1>3
<1>4. CASE updateTenantPlan(r)
  <2>1. PICK p \in Patched(tenants[reqs[r].tenant]) :
          /\ tenants' = [tenants EXCEPT ![reqs[r].tenant] = p]
          /\ p.limit # tenants[reqs[r].tenant].limit => reqs[r].tenant \in widened'
    BY <1>4 DEF updateTenantPlan
  <2>q. QED  BY <1>2, <2>1
<1>5. CASE syncTenantExpiry(r)
  <2>1. tenants' = [tenants EXCEPT ![reqs[r].tenant].on = FALSE]
    BY <1>5 DEF syncTenantExpiry
  <2>q. QED  BY <1>1, <1>2, <2>1 DEF Plans
<1>6. CASE approvePendingTenantOwner(r) \/ rejectPendingTenantOwner(r) \/ CommitDelete(r)
  <2>1. ASSUME NEW st, tenants' = [tenants EXCEPT ![reqs[r].tenant].status = st]
        PROVE  tenants'[t].limit = tenants[t].limit
    BY <1>1, <2>1 DEF Plans
  <2>q. QED  BY <1>2, <1>3, <1>6, <2>1 DEF approvePendingTenantOwner, rejectPendingTenantOwner, CommitDelete, OpenedTenant
<1>q. QED  BY <1>3, <1>4, <1>5, <1>6, <1>7 DEF Step, assertTenantActive, getTenantPlan, assertUserLimit,
              createUserByActor, setUserStatusByActor, ReadPending, CheckDelete, RemoveRows

\* Members are added by inserts only, as long as nobody is enabled by hand.
LEMMA StepCounted ==
  ASSUME IInv, NEW r \in Active, Step(r), NEW t, t \notin widened'
  PROVE  /\ Counted(t)' \subseteq Counted(t) \cup {reqs[r].user}
         /\ ~(createUserByActor(r) /\ reqs[r].tenant = t) => Counted(t)' \subseteq Counted(t)
<1> DEFINE u == reqs[r].user
<1>1. CASE UNCHANGED rows
  BY <1>1 DEF Counted, Members
<1>2. CASE /\ createUserByActor(r) /\ u \notin DOMAIN rows /\ DOMAIN rows' = DOMAIN rows \cup {u}
           /\ \A x \in DOMAIN rows : rows'[x] = rows[x]
           /\ rows'[u].tenant = reqs[r].tenant
  BY <1>2 DEF Counted, Members
<1>3. ASSUME u \in DOMAIN rows, rows[u] # None, NEW a, NEW b, RowIs(u, a, b),
             t # rows[u].tenant \/ "disabled" \in {a, b} \/ (a = Opened(rows[u].ustat) /\ b = Opened(rows[u].mstat))
      PROVE  Counted(t)' \subseteq Counted(t)
  <2>1. \A x \in DOMAIN rows \ {u} : rows'[x] = rows[x]
    BY <1>3 DEF RowIs
  <2>2. u \in Counted(t)' => u \in Counted(t)
    BY <1>3 DEF RowIs, Counted, Members, Opened
  <2>q. QED  BY <1>3, <2>1, <2>2 DEF Counted, Members, RowIs
<1>4. CASE CommitDelete(r) /\ OnlyRow(u) /\ rows'[u] = None
  BY <1>4 DEF OnlyRow, Counted, Members
<1>5. CASE \E a, b : /\ u \in DOMAIN rows /\ rows[u] # None /\ RowIs(u, a, b)
                     /\ t # rows[u].tenant \/ "disabled" \in {a, b}
                          \/ (a = Opened(rows[u].ustat) /\ b = Opened(rows[u].mstat))
  BY <1>3, <1>5
<1>q. QED  BY <1>1, <1>2, <1>4, <1>5, StepRow

\* Who is about to insert has counted, and inserts next.
LEMMA StepInserting ==
  ASSUME IInv, NEW r \in Active, Step(r), UNCHANGED asked, NEW t
  PROVE  /\ Inserting(t)' \ {r} = Inserting(t) \ {r}
         /\ r \in Inserting(t)' =>
              /\ assertUserLimit(r) /\ reqs[r].tenant = t
              /\ ~limitReached(countUsersForTenant(t), reqs[r].limit)
         /\ r \in Inserting(t) => createUserByActor(r) /\ r \notin Inserting(t)'
<1>1. OthersStay(r) /\ reqs[r] \in Requests /\ OwnOK(r) /\ reqs[r] # None /\ reqs \in [Slots -> Requests \cup {None}]
  BY StepOK, ActiveTypes DEF StepIsOK, IInv, TypeOK
<1>2. Inserting(t)' \ {r} = Inserting(t) \ {r}
  BY <1>1 DEF Inserting, Active, OthersStay, SameButLate
<1>3. ASSUME r \in Inserting(t)'
      PROVE  /\ assertUserLimit(r) /\ reqs[r].tenant = t
             /\ ~limitReached(countUsersForTenant(t), reqs[r].limit)
  <2>1. reqs'[r] # None /\ reqs'[r].pc = "insert" /\ reqs'[r].tenant = t
    BY <1>3 DEF Inserting, Active
  <2>2. assertUserLimit(r)
    BY <2>1, StepGoes
  <2>3. reqs'[r] # None => reqs'[r].tenant = reqs[r].tenant
    BY <1>1, <2>2 DEF assertUserLimit, Ends, Goes, Requests, Active
  <2>q. QED  BY <1>1, <2>1, <2>2, <2>3 DEF assertUserLimit, Ends, Active
<1>4. ASSUME r \in Inserting(t) PROVE createUserByActor(r) /\ r \notin Inserting(t)'
  <2>1. reqs[r].pc = "insert" /\ reqs[r].op = "create"
    BY <1>1, <1>4 DEF Inserting, OwnOK, PlaceOK, At
  <2>2. createUserByActor(r)
    BY <2>1 DEF Step, assertTenantActive, getTenantPlan, syncTenantExpiry, updateTenantPlan, assertUserLimit,
         setUserStatusByActor, ReadPending, approvePendingTenantOwner, rejectPendingTenantOwner,
         CheckDelete, RemoveRows, CommitDelete
  <2>q. QED  BY <2>2, LastSteps DEF Inserting, Active
<1>q. QED  BY <1>2, <1>3, <1>4

LEMMA OneMore ==
  ASSUME NEW S, IsFiniteSet(S), NEW x, NEW T \in SUBSET (S \cup {x})
  PROVE  IsFiniteSet(T) /\ Cardinality(T) \in Nat /\ Cardinality(T) <= Cardinality(S) + 1
<1>1. Cardinality(S) \in Nat
  BY FS_CardinalityType
<1>2. CASE x \in S
  <2>1. T \subseteq S
    BY <1>2
  <2>q. QED  BY <1>1, <2>1, FS_Subset, FS_CardinalityType
<1>3. CASE x \notin S
  <2>1. IsFiniteSet(S \cup {x}) /\ Cardinality(S \cup {x}) = Cardinality(S) + 1
    BY <1>3, FS_AddElement
  <2>2. T \subseteq S \cup {x}
    OBVIOUS
  <2>q. QED  BY <1>1, <2>1, <2>2, FS_Subset, FS_CardinalityType
<1>q. QED  BY <1>2, <1>3

LEMMA OneLess ==
  ASSUME NEW S, IsFiniteSet(S), NEW x \in S
  PROVE  Cardinality(S \ {x}) = Cardinality(S) - 1 /\ Cardinality(S) >= 1
<1>1. Cardinality(S) \in Nat /\ Cardinality(S \ {x}) \in Nat
  BY FS_CardinalityType, FS_Difference, FS_Subset
<1>2. Cardinality(S \ {x}) = Cardinality(S) - 1
  BY FS_RemoveElement
<1>q. QED  BY <1>1, <1>2

\* An insert, and the bound after it.
LEMMA StepBounded ==
  ASSUME IInv, PlacesOK, NEW r \in Active, Step(r), UNCHANGED asked, NEW t \in DOMAIN tenants \ widened'
  PROVE  /\ Bounded(t)'
         /\ createUserByActor(r) /\ reqs[r].tenant = t =>
              Cardinality(Counted(t)') <= tenants[t].limit + Cardinality(Slots) - 1
<1> DEFINE C == Counted(t)
           C1 == Counted(t)'
           I == Inserting(t)
           I1 == Inserting(t)'
           n == Cardinality(Slots)
           m == tenants[t].limit
<1>1. t \notin widened /\ tenants'[t].limit = m /\ m \in Nat
  BY StepLimits DEF IInv, TypeOK, Plans
<1>2. /\ IsFiniteSet(C) /\ Cardinality(C) \in Nat /\ IsFiniteSet(I) /\ Cardinality(I) \in Nat /\ n \in Nat
      /\ Cardinality(I) <= n /\ countUsersForTenant(t) = Cardinality(C)
  BY CountTypes
<1>3. IInv'
  BY StepOK DEF StepIsOK
<1>4. I1 \ {r} = I \ {r}
  BY StepInserting
<1>5. IsFiniteSet(I1) /\ Cardinality(I1) \in Nat /\ Cardinality(I1) <= n
  <2>1. I1 \subseteq Slots
    BY DEF Inserting, Active
  <2>q. QED  BY <2>1, FS_Subset, FS_CardinalityType
<1>6. I # {} => Cardinality(C) + Cardinality(I) <= m + n - 1
  BY <1>1 DEF PlacesOK, Bounded
<1>7. CASE r \in I
  <2>1. createUserByActor(r) /\ I1 = I \ {r} /\ C1 \subseteq C \cup {reqs[r].user}
    BY <1>4, <1>7, StepInserting, StepCounted
  <2> HIDE DEF C, C1, I, I1
  <2>2. Cardinality(I1) = Cardinality(I) - 1 /\ Cardinality(I) >= 1
    BY <1>2, <1>7, <2>1, OneLess
  <2>3. IsFiniteSet(C1) /\ Cardinality(C1) \in Nat /\ Cardinality(C1) <= Cardinality(C) + 1
    <3> DEFINE u == reqs[r].user
    <3>1. C1 \in SUBSET (C \cup {u})
      BY <2>1
    <3> HIDE DEF u
    <3>q. QED  BY <1>2, <3>1, OneMore
  <2>4. Cardinality(C1) + Cardinality(I1) <= m + n - 1 /\ Cardinality(C1) <= m + n - 1
    BY <1>1, <1>2, <1>5, <1>6, <1>7, <2>2, <2>3
  <2>q. QED  BY <1>1, <2>4 DEF Bounded, C, C1, I, I1
<1>8. CASE r \notin I
  <2>1. ~(createUserByActor(r) /\ reqs[r].tenant = t)
    BY <1>8 DEF createUserByActor, Inserting
  <2>2. C1 \subseteq C
    BY <2>1, StepCounted
  <2>3. IsFiniteSet(C1) /\ Cardinality(C1) \in Nat /\ Cardinality(C1) <= Cardinality(C)
    <3> HIDE DEF C, C1
    <3>q. QED  BY <1>2, <2>2, FS_Subset, FS_CardinalityType
  <2>4. CASE r \notin I1
    <3>1. I1 = I
      BY <1>4, <1>8, <2>4
    <3> HIDE DEF C, C1, I, I1
    <3>2. I1 # {} => Cardinality(C1) + Cardinality(I1) <= m + n - 1
      BY <1>1, <1>2, <1>6, <2>3, <3>1
    <3>q. QED  BY <1>1, <2>1, <3>2 DEF Bounded, C, C1, I, I1
  <2>5. CASE r \in I1
    <3>1. assertUserLimit(r) /\ reqs[r].tenant = t /\ ~limitReached(countUsersForTenant(t), reqs[r].limit)
      BY <2>5, StepInserting
    <3>2. At(reqs[r]) = "limit"
      BY <3>1 DEF assertUserLimit, At
    <3>3. reqs[r].limit = m
      BY <1>1, <3>1, <3>2 DEF PlacesOK, LimitsRead
    <3>4. Cardinality(C) < m
      BY <1>1, <1>2, <3>1, <3>3 DEF limitReached
    <3> HIDE DEF C, C1, I, I1
    <3>5. Cardinality(C1) + Cardinality(I1) <= m + n - 1
      BY <1>1, <1>2, <1>5, <2>3, <3>4
    <3>q. QED  BY <1>1, <2>1, <3>5 DEF Bounded, C, C1, I, I1
  <2>q. QED  BY <2>4, <2>5
<1>q. QED  BY <1>7, <1>8

\* The limit a request holds was read, and stays the plan's.
LEMMA StepLimitsRead ==
  ASSUME IInv, PlacesOK, NEW r \in Active, Step(r), UNCHANGED asked
  PROVE  LimitsRead'
<1> SUFFICES ASSUME NEW q \in Active', At(reqs'[q]) = "limit", reqs'[q].tenant \notin widened'
             PROVE  reqs'[q].limit = tenants'[reqs'[q].tenant].limit
  BY DEF LimitsRead, At
<1>1. OthersStay(r) /\ q \in Slots /\ reqs'[q] # None /\ reqs \in [Slots -> Requests \cup {None}]
  BY StepOK DEF StepIsOK, Active, IInv, TypeOK
<1>2. ASSUME NEW p \in Active, At(reqs[p]) = "limit" PROVE reqs[p].tenant \in DOMAIN tenants
  <2>1. reqs[p] \in Requests /\ OwnOK(p) /\ reqs[p] # None
    BY ActiveTypes
  <2>q. QED  BY <1>2, <2>1 DEF OwnOK, PlaceOK, PlanOps
<1>3. CASE q # r
  <2>1. q \in Active /\ At(reqs[q]) = "limit" /\ reqs'[q].tenant = reqs[q].tenant /\ reqs'[q].limit = reqs[q].limit
    BY <1>1, <1>3 DEF OthersStay, SameButLate, At
  <2>2. reqs[q].tenant \in DOMAIN tenants
    BY <1>2, <2>1
  <2>q. QED  BY <2>1, <2>2, StepLimits DEF PlacesOK, LimitsRead
<1>4. CASE q = r
  <2>1. getTenantPlan(r) \/ syncTenantExpiry(r)
    BY <1>1, <1>4, StepGoes
  <2>2. CASE getTenantPlan(r)
    <3>1. PICK v : reqs'[r] = v /\ PlanRead(reqs[r], v)
      BY <1>1, <1>4, <2>2, PlanReadIs
    <3>q. QED  BY <1>4, <2>2, <3>1 DEF PlanRead, getTenantPlan
  <2>3. CASE syncTenantExpiry(r)
    <3>1. reqs[r].pc = "switchOff" /\ reqs'[r] = [reqs[r] EXCEPT !.pc = reqs[r].next] /\ reqs[r] \in Requests
      BY <1>1, <1>4, <2>3, ActiveTypes DEF syncTenantExpiry, Ends, Goes
    <3>2. reqs'[r].next = reqs[r].next /\ reqs'[r].tenant = reqs[r].tenant /\ reqs'[r].limit = reqs[r].limit
            /\ reqs'[r].pc = reqs[r].next
      BY <3>1 DEF Requests
    <3>3. At(reqs[r]) = "limit"
      BY <1>4, <3>1, <3>2 DEF At
    <3>4. reqs[r].tenant \in DOMAIN tenants
      BY <1>2, <3>3
    <3>q. QED  BY <1>4, <3>2, <3>3, <3>4, StepLimits DEF PlacesOK, LimitsRead
  <2>q. QED  BY <2>1, <2>2, <2>3
<1>q. QED  BY <1>3, <1>4

\* Steps that are nobody's: the tenants that were there keep plan and members,
\* and nobody comes to be about to count or to insert.
LEMMA OutsidePlaces ==
  ASSUME IInv, PlacesOK, UNCHANGED widened,
         \A q \in Active' : At(reqs'[q]) = "limit" \/ reqs'[q].pc = "insert" => q \in Active /\ reqs'[q] = reqs[q],
         \A q \in Active : reqs[q].pc = "insert" => q \in Active' /\ reqs'[q] = reqs[q],
         \A t \in DOMAIN tenants : tenants'[t].limit = tenants[t].limit /\ Counted(t)' = Counted(t)
  PROVE  PlacesOK'
<1>1. ASSUME NEW q \in Active, At(reqs[q]) = "limit" \/ reqs[q].pc = "insert"
      PROVE  reqs[q].tenant \in DOMAIN tenants
  <2>1. reqs[q] \in Requests /\ OwnOK(q) /\ reqs[q] # None
    BY ActiveTypes
  <2>q. QED  BY <1>1, <2>1 DEF OwnOK, PlaceOK, PlanOps, At
<1>2. LimitsRead'
  <2> SUFFICES ASSUME NEW q \in Active', At(reqs'[q]) = "limit", reqs'[q].tenant \notin widened'
               PROVE  reqs'[q].limit = tenants'[reqs'[q].tenant].limit
    BY DEF LimitsRead, At
  <2>1. q \in Active /\ reqs'[q] = reqs[q] /\ At(reqs[q]) = "limit"
    BY DEF At
  <2>q. QED  BY <1>1, <2>1 DEF PlacesOK, LimitsRead
<1>3. ASSUME NEW t \in DOMAIN tenants' \ widened' PROVE Bounded(t)'
  <2>1. Inserting(t)' = Inserting(t)
    BY DEF Inserting
  <2>2. CASE t \in DOMAIN tenants
    <3>1. Bounded(t) /\ tenants'[t].limit = tenants[t].limit /\ Counted(t)' = Counted(t)
      BY <2>2 DEF PlacesOK
    <3>2. Cardinality(Counted(t)') = Cardinality(Counted(t)) /\ Cardinality(Inserting(t)') = Cardinality(Inserting(t))
      BY <2>1, <3>1
    <3>q. QED  BY <2>1, <3>1, <3>2 DEF Bounded
  <2>3. CASE t \notin DOMAIN tenants
    <3>1. Inserting(t)' = {}
      BY <1>1, <2>1, <2>3 DEF Inserting
    <3>q. QED  BY <3>1 DEF Bounded
  <2>q. QED  BY <2>2, <2>3
<1>q. QED  BY <1>2, <1>3 DEF PlacesOK

LEMMA NextPlaces == IInv /\ PlacesOK /\ [Next]_vars => PlacesOK'
<1> SUFFICES ASSUME IInv, PlacesOK, [Next]_vars PROVE PlacesOK'
  OBVIOUS
<1>1. reqs \in [Slots -> Requests \cup {None}] /\ \A t \in DOMAIN tenants : tenants[t] \in Plans
  BY DEF IInv, TypeOK
<1>2. CASE UNCHANGED vars
  BY <1>2, OutsidePlaces DEF vars, history, Active, Counted, Members
<1>3. CASE Ask
  <2>1. PICK op, a, u, t : Arrive(op, a, u, t)
    BY <1>3 DEF Ask, AskCreate, AskPlan, AskUser, AskDecision
  <2> DEFINE v == [op |-> op, actor |-> a, user |-> u, tenant |-> t,
                   pc |-> IF op \in {"view", "patch"} THEN "plan" ELSE "start",
                   next |-> "end", plans |-> 0, limit |-> 0, warns |-> FALSE, late |-> FALSE]
  <2>2. PICK r \in Slots \ Active : reqs' = [reqs EXCEPT ![r] = v]
    BY <2>1 DEF Arrive
  <2>3. v.pc \in {"start", "plan"} /\ UNCHANGED <<rows, tenants, widened>>
    BY <2>1 DEF Arrive, history
  <2> HIDE DEF v
  <2>4. reqs'[r] = v /\ \A q \in Slots \ {r} : reqs'[q] = reqs[q]
    BY <1>1, <2>2
  <2>5. At(v) \in {"start", "plan"}
    BY <2>3 DEF At
  <2>6. \A t1 \in DOMAIN tenants : tenants'[t1].limit = tenants[t1].limit /\ Counted(t1)' = Counted(t1)
    BY <2>3 DEF Counted, Members
  <2>7. \A q \in Active' : At(reqs'[q]) = "limit" \/ reqs'[q].pc = "insert" => q \in Active /\ reqs'[q] = reqs[q]
    BY <2>3, <2>4, <2>5 DEF Active
  <2>8. \A q \in Active : reqs[q].pc = "insert" => q \in Active' /\ reqs'[q] = reqs[q]
    BY <2>4 DEF Active
  <2>q. QED  BY <2>3, <2>6, <2>7, <2>8, OutsidePlaces
<1>4. ASSUME NEW u \in Users, NEW t \in Tenants, registerPublicTenantOwner(u, t) PROVE PlacesOK'
  <2> DEFINE plan == [status |-> "pending_review", on |-> TRUE, expired |-> FALSE, limit |-> NewLimit]
             row == [tenant |-> t, role |-> "admin", ustat |-> "pending_review", mstat |-> "pending_review"]
  <2>1. /\ rows' = Inserted(rows, u, row) /\ tenants' = Inserted(tenants, t, plan) /\ UNCHANGED <<reqs, widened>>
        /\ u \notin DOMAIN rows /\ t \notin DOMAIN tenants /\ row.tenant = t
    BY <1>4 DEF registerPublicTenantOwner
  <2> HIDE DEF plan, row
  <2>2. /\ DOMAIN rows' = DOMAIN rows \cup {u} /\ rows'[u] = row /\ \A x \in DOMAIN rows : rows'[x] = rows[x]
        /\ \A x \in DOMAIN tenants : tenants'[x] = tenants[x]
    BY <2>1 DEF Inserted
  <2>3. ASSUME NEW x \in DOMAIN tenants PROVE tenants'[x].limit = tenants[x].limit /\ Counted(x)' = Counted(x)
    BY <2>1, <2>2 DEF Counted, Members
  <2>q. QED  BY <2>1, <2>3, OutsidePlaces DEF Active
<1>5. ASSUME NEW t \in Tenants, PlanExpires(t) PROVE PlacesOK'
  <2>1. t \in DOMAIN tenants /\ tenants' = [tenants EXCEPT ![t].expired = TRUE] /\ UNCHANGED <<rows, reqs, widened>>
    BY <1>5 DEF PlanExpires, history
  <2>2. ASSUME NEW x \in DOMAIN tenants PROVE tenants'[x].limit = tenants[x].limit /\ Counted(x)' = Counted(x)
    BY <1>1, <2>1 DEF Plans, Counted, Members
  <2>q. QED  BY <2>1, <2>2, OutsidePlaces DEF Active
<1>6. ASSUME NEW r \in Active, Step(r), UNCHANGED asked PROVE PlacesOK'
  <2>1. LimitsRead'
    BY <1>6, StepLimitsRead
  <2>2. ASSUME NEW t \in DOMAIN tenants' \ widened' PROVE Bounded(t)'
    <3>1. Home \in DOMAIN tenants
      BY DEF IInv, TypeOK
    <3>2. t \in DOMAIN tenants \ widened'
      BY <1>6, <3>1, StepLimits
    <3>q. QED  BY <1>6, <3>2, StepBounded
  <2>q. QED  BY <2>1, <2>2 DEF PlacesOK
<1>q. QED  BY <1>2, <1>3, <1>4, <1>5, <1>6 DEF Next

\* Only its own step ends a request.
LEMMA EndsItself ==
  ASSUME IInv, [Next]_vars, NEW r \in Active, reqs'[r] = None
  PROVE  Step(r) /\ UNCHANGED asked
<1>1. r \in Slots /\ reqs[r] # None /\ reqs \in [Slots -> Requests \cup {None}]
  BY DEF IInv, TypeOK, Active
<1>2. ~UNCHANGED reqs
  BY <1>1
<1>3. CASE Ask
  <2>1. \E q \in Slots \ Active : \E v : reqs' = [reqs EXCEPT ![q] = v]
    BY <1>3 DEF Ask, AskCreate, AskPlan, AskUser, AskDecision, Arrive
  <2>q. QED  BY <1>1, <2>1
<1>4. ASSUME NEW q \in Active, Step(q), UNCHANGED asked PROVE Step(r) /\ UNCHANGED asked
  <2>1. q = r
    BY <1>1, <1>4, StepOK DEF StepIsOK, OthersStay, SameButLate
  <2>q. QED  BY <1>4, <2>1
<1>q. QED  BY <1>2, <1>3, <1>4 DEF Next, vars, registerPublicTenantOwner, PlanExpires

\* For any number of requests under way: additions that overlap exceed the plan
\* by their number less one at most, whoever is disabled, decided on or deleted
\* meanwhile.
THEOREM OverrunsAreBounded == Spec => OverrunIsBounded
<1>1. Init => PlacesOK
  <2> SUFFICES ASSUME Init PROVE PlacesOK
    OBVIOUS
  <2>1. Active = {}
    BY DEF Init, Active
  <2>q. QED  BY <2>1 DEF PlacesOK, LimitsRead, Bounded, Inserting
<1>2. IInv /\ PlacesOK /\ [Next]_vars => (IInv /\ PlacesOK)'
  BY NextOK, NextPlaces
<1>3. ASSUME IInv, PlacesOK, [Next]_vars, NEW r \in Active, NEW t \in DOMAIN tenants \ widened,
             reqs[r].pc = "insert", reqs[r].tenant = t, reqs'[r] = None
      PROVE  countUsersForTenant(t)' <= tenants[t].limit + Cardinality(Slots) - 1
  <2>1. Step(r) /\ UNCHANGED asked
    BY <1>3, EndsItself
  <2>2. r \in Inserting(t)
    BY <1>3 DEF Inserting
  <2>3. createUserByActor(r)
    BY <1>3, <2>1, <2>2, StepInserting
  <2>4. t \notin widened'
    BY <1>3, <2>3 DEF createUserByActor, history
  <2>5. Cardinality(Counted(t)') <= tenants[t].limit + Cardinality(Slots) - 1
    BY <1>3, <2>1, <2>3, <2>4, StepBounded
  <2>q. QED  BY <2>5 DEF countUsersForTenant, Counted
<1>4. IInv /\ PlacesOK /\ [Next]_vars =>
        [\A r \in Active, t \in DOMAIN tenants \ widened :
           (reqs[r].pc = "insert" /\ reqs[r].tenant = t /\ reqs'[r] = None)
              => countUsersForTenant(t)' <= tenants[t].limit + Cardinality(Slots) - 1]_vars
  BY <1>3
<1>q. QED  BY <1>1, <1>2, <1>4, InitOK, PTL DEF Spec, OverrunIsBounded

-----------------------------------------------------------------------------
(* Deletions                                                                 *)

AdminsLeft(t, u) ==
  {x \in Members(t) \ {u} : rows[x].role = "admin" /\ rows[x].mstat = "active" /\ rows[x].ustat # "disabled"}

\* A deletion that does not mark the tenant has seen another admin, who is still
\* there unless the deletion is late.
MarkOK(q) ==
  /\ q.pc = "remove" /\ Row(q.user) # None => (q.warns <=> rows[q.user].role = "admin")
  /\ q.pc = "commit" /\ ~q.late /\ Row(q.user) # None /\ rows[q.user].role = "admin" /\ ~q.warns =>
       q.tenant = Home \/ AdminsLeft(q.tenant, q.user) # {}

MarksOK == \A r \in Active : MarkOK(reqs[r])

LEMMA AdminCount ==
  ASSUME IInv, NEW t, NEW u
  PROVE  /\ countActiveTenantAdmins(t, u) \in Nat
         /\ countActiveTenantAdmins(t, u) = 0 <=> AdminsLeft(t, u) = {}
<1>1. AdminsLeft(t, u) \subseteq Users
  BY DEF IInv, TypeOK, Members, AdminsLeft
<1>2. IsFiniteSet(AdminsLeft(t, u))
  BY <1>1, FS_Subset
<1>q. QED  BY <1>2, FS_CardinalityType, FS_EmptySet DEF countActiveTenantAdmins, AdminsLeft

\* The other admin stays, or the deletion is late.
LEMMA AdminStaysOrLate ==
  ASSUME IInv, NEW r \in Active, Step(r), NEW q \in Active \ {r}, reqs[q].pc = "commit", ~reqs'[q].late,
         NEW t, t = reqs[q].tenant, NEW u, NEW x, x \in AdminsLeft(t, u)
  PROVE  x \in AdminsLeft(t, u)'
<1> DEFINE w == reqs[r].user
<1>1. /\ x \in DOMAIN rows /\ x # u /\ rows[x] # None /\ rows[x].tenant = t /\ rows[x].role = "admin"
      /\ rows[x].mstat = "active" /\ rows[x].ustat # "disabled"
  BY DEF AdminsLeft, Members
<1>2. r \in Slots /\ q \in Slots /\ ReqsType
  BY ActiveTypes, PartsOfIInv
<1>3. ASSUME x \in DOMAIN rows', rows'[x] = rows[x] PROVE x \in AdminsLeft(t, u)'
  BY <1>1, <1>3 DEF AdminsLeft, Members
<1>4. ASSUME reqs' = [AdminGone(r, x) EXCEPT ![r] = None] PROVE FALSE
  <2>1. AdminGone(r, x) = Late(r, t, "commit")
    BY <1>1 DEF AdminGone
  <2>2. Late(r, t, "commit") \in [Slots -> Requests \cup {None}] /\ Late(r, t, "commit")[q].late
    BY <1>2, LateKeeps
  <2>q. QED  BY <1>2, <1>4, <2>1, <2>2
<1>5. ASSUME NEW a \in {"active", "pending_review"}, RowIs(x, a, "active") PROVE x \in AdminsLeft(t, u)'
  BY <1>1, <1>5 DEF RowIs, AdminsLeft, Members
<1>6. CASE x # w
  <2>1. x \in DOMAIN rows' /\ rows'[x] = rows[x]
    <3>1. \A y \in DOMAIN rows \ {w} : y \in DOMAIN rows' /\ rows'[y] = rows[y]
      BY StepRow DEF RowIs, OnlyRow
    <3>q. QED  BY <1>1, <1>6, <3>1
  <2>q. QED  BY <1>3, <2>1
<1>7. CASE x = w
  <2>1. Opened(rows[x].mstat) = "active" /\ Opened(rows[x].ustat) = "active"
    <3>1. rows[x] \in Accounts
      BY <1>1 DEF IInv, TypeOK
    <3>q. QED  BY <1>1, <3>1 DEF Opened, Accounts, Statuses
  <2>q. QED  BY <1>1, <1>3, <1>4, <1>5, <1>7, <2>1, StepRow
<1>q. QED  BY <1>6, <1>7

LEMMA OtherMarks ==
  ASSUME IInv, MarksOK, NEW r \in Active, Step(r), UNCHANGED asked, NEW q \in Active \ {r}, reqs'[q] # None
  PROVE  MarkOK(reqs[q])'
<1> DEFINE t == reqs[q].tenant
           u == reqs[q].user
<1>1. RowsKeep /\ SameButLate(reqs'[q], reqs[q])
  BY StepOK DEF StepIsOK, OthersStay, Active
<1>2. MarkOK(reqs[q]) /\ OwnOK(q) /\ reqs[q] # None
  BY ActiveTypes DEF MarksOK
<1>3. reqs'[q].pc = reqs[q].pc /\ reqs'[q].user = u /\ reqs'[q].tenant = t /\ reqs'[q].warns = reqs[q].warns
        /\ (reqs[q].late => reqs'[q].late)
  BY <1>1 DEF SameButLate
<1>4. CASE reqs[q].pc \notin {"remove", "commit"}
  BY <1>3, <1>4 DEF MarkOK
<1>5. CASE reqs[q].pc \in {"remove", "commit"}
  <2>1. u \in DOMAIN rows /\ u \in DOMAIN rows'
    BY <1>1, <1>2, <1>5 DEF OwnOK, FoundOK, RowsKeep
  <2>2. rows'[u] # None => rows[u] # None /\ rows'[u].role = rows[u].role
    BY <1>1, <2>1 DEF RowsKeep
  <2>3. (Row(reqs[q].user))' = rows'[u] /\ Row(reqs[q].user) = rows[u]
    BY <1>3, <2>1 DEF Row
  <2>4. ASSUME reqs[q].pc = "commit", ~reqs'[q].late, rows'[u] # None, rows'[u].role = "admin", ~reqs[q].warns
        PROVE  t = Home \/ AdminsLeft(t, u)' # {}
    <3>1. t = Home \/ AdminsLeft(t, u) # {}
      BY <1>2, <1>3, <2>2, <2>3, <2>4 DEF MarkOK
    <3>2. \A t1, u1, x : t1 = t /\ x \in AdminsLeft(t1, u1) => x \in AdminsLeft(t1, u1)'
      BY <2>4, AdminStaysOrLate
    <3>3. AdminsLeft(t, u)' = AdminsLeft(reqs[q].tenant, reqs[q].user)'
      BY DEF AdminsLeft, Members
    <3>4. \A t1, u1 : t1 = t /\ u1 = u => AdminsLeft(t1, u1)' = AdminsLeft(reqs[q].tenant, reqs[q].user)'
      BY <1>3 DEF AdminsLeft, Members
    <3>q. QED  BY <3>1, <3>2, <3>3, <3>4
  <2>5. (AdminsLeft(reqs[q].tenant, reqs[q].user))' = AdminsLeft(t, u)'
    BY <1>3 DEF AdminsLeft, Members
  <2>6. /\ reqs'[q].pc = "remove" /\ rows'[u] # None => (reqs'[q].warns <=> rows'[reqs'[q].user].role = "admin")
        /\ reqs'[q].pc = "commit" /\ ~reqs'[q].late /\ rows'[u] # None /\ rows'[reqs'[q].user].role = "admin"
             /\ ~reqs'[q].warns => reqs'[q].tenant = Home \/ (AdminsLeft(reqs[q].tenant, reqs[q].user))' # {}
    BY <1>2, <1>3, <2>2, <2>3, <2>4, <2>5 DEF MarkOK
  <2>q. QED  BY <2>3, <2>6 DEF MarkOK
<1>q. QED  BY <1>4, <1>5

\* The step that counts leaves its own request with what it has seen.
LEMMA OwnMark ==
  ASSUME IInv, MarksOK, NEW r \in Active, Step(r), reqs'[r] # None
  PROVE  MarkOK(reqs[r])'
<1>1. r \in Slots /\ reqs[r] \in Requests /\ reqs[r] # None /\ reqs \in [Slots -> Requests \cup {None}]
  BY ActiveTypes DEF IInv, TypeOK
<1>2. CASE reqs'[r].pc \notin {"remove", "commit"}
  BY <1>2 DEF MarkOK
<1>3. CASE reqs'[r].pc = "remove"
  <2> DEFINE v == [reqs[r] EXCEPT !.pc = "remove", !.tenant = rows[reqs[r].user].tenant,
                                  !.warns = rows[reqs[r].user].role = "admin"]
  <2>1. CheckDelete(r)
    BY <1>3, StepGoes
  <2>2. reqs' = [reqs EXCEPT ![r] = v] /\ rows' = rows
    BY <1>1, <2>1 DEF CheckDelete, Ends
  <2>3. v.pc = "remove" /\ v.user = reqs[r].user /\ (v.warns <=> rows[reqs[r].user].role = "admin")
    BY <1>1 DEF Requests
  <2>4. reqs'[r] = v
    BY <1>1, <2>2
  <2> HIDE DEF v
  <2>q. QED  BY <2>2, <2>3, <2>4 DEF MarkOK
<1>4. CASE reqs'[r].pc = "commit"
  <2> DEFINE warns == reqs[r].warns /\ softDeleteTenantIfNoActiveAdmin(reqs[r].tenant, reqs[r].user)
             v == [reqs[r] EXCEPT !.pc = "commit", !.late = FALSE, !.warns = warns]
             t == reqs[r].tenant
             u == reqs[r].user
  <2>1. RemoveRows(r) /\ reqs[r].pc = "remove"
    BY <1>4, StepGoes DEF RemoveRows
  <2>2. reqs' = [reqs EXCEPT ![r] = v] /\ rows' = rows
    BY <1>1, <2>1 DEF RemoveRows, Requests
  <2>3. v.pc = "commit" /\ v.user = u /\ v.tenant = t /\ v.warns = warns
    BY <1>1 DEF Requests
  <2>4. reqs'[r] = v
    BY <1>1, <2>2
  <2>5. Row(u) # None /\ rows[u].role = "admin" => reqs[r].warns
    BY <2>1 DEF MarksOK, MarkOK
  <2>6. ~softDeleteTenantIfNoActiveAdmin(t, u) => t = Home \/ AdminsLeft(t, u) # {}
    BY AdminCount DEF softDeleteTenantIfNoActiveAdmin
  <2> HIDE DEF v
  <2>7. (AdminsLeft(reqs[r].tenant, reqs[r].user))' = AdminsLeft(t, u) /\ (Row(reqs[r].user))' = Row(u)
    BY <2>2, <2>3, <2>4 DEF AdminsLeft, Members, Row
  <2>q. QED  BY <2>2, <2>3, <2>4, <2>5, <2>6, <2>7 DEF MarkOK
<1>q. QED  BY <1>2, <1>3, <1>4

LEMMA NextMarks == IInv /\ MarksOK /\ [Next]_vars => MarksOK'
<1> SUFFICES ASSUME IInv, MarksOK, [Next]_vars, NEW q \in Active' PROVE MarkOK(reqs[q])'
  BY DEF MarksOK
<1>1. reqs \in [Slots -> Requests \cup {None}] /\ q \in Slots /\ reqs'[q] # None
  BY DEF IInv, TypeOK, Active
<1>2. ASSUME q \in Active, reqs'[q] = reqs[q],
             \A x \in DOMAIN rows : x \in DOMAIN rows' /\ rows'[x] = rows[x]
      PROVE  MarkOK(reqs[q])'
  <2>1. MarkOK(reqs[q]) /\ OwnOK(q) /\ reqs[q] # None
    BY <1>2, ActiveTypes DEF MarksOK
  <2>2. CASE reqs[q].pc \notin {"remove", "commit"}
    BY <1>2, <2>2 DEF MarkOK
  <2>3. CASE reqs[q].pc \in {"remove", "commit"}
    <3>1. reqs[q].user \in DOMAIN rows
      BY <2>1, <2>3 DEF OwnOK, FoundOK
    <3>2. (Row(reqs[q].user))' = Row(reqs[q].user)
      BY <1>2, <3>1 DEF Row
    <3>3. AdminsLeft(reqs[q].tenant, reqs[q].user) # {} => (AdminsLeft(reqs[q].tenant, reqs[q].user))' # {}
      BY <1>2 DEF AdminsLeft, Members
    <3>q. QED  BY <1>2, <2>1, <3>1, <3>2, <3>3 DEF MarkOK
  <2>q. QED  BY <2>2, <2>3
<1>3. CASE UNCHANGED <<rows, reqs>>
  BY <1>2, <1>3 DEF Active
<1>4. CASE Ask
  <2>1. PICK op, a, u, t : Arrive(op, a, u, t)
    BY <1>4 DEF Ask, AskCreate, AskPlan, AskUser, AskDecision
  <2>2. PICK r \in Slots \ Active :
          reqs' = [reqs EXCEPT ![r] = [op |-> op, actor |-> a, user |-> u, tenant |-> t,
                                       pc |-> IF op \in {"view", "patch"} THEN "plan" ELSE "start",
                                       next |-> "end", plans |-> 0, limit |-> 0, warns |-> FALSE, late |-> FALSE]]
    BY <2>1 DEF Arrive
  <2>3. rows' = rows
    BY <2>1 DEF Arrive
  <2>4. CASE q = r
    <3>1. reqs'[q].pc \in {"start", "plan"}
      BY <1>1, <2>2, <2>4
    <3>q. QED  BY <3>1 DEF MarkOK
  <2>5. CASE q # r
    <3>1. reqs'[q] = reqs[q]
      BY <1>1, <2>2, <2>5
    <3>q. QED  BY <1>1, <1>2, <2>3, <3>1 DEF Active
  <2>q. QED  BY <2>4, <2>5
<1>5. ASSUME NEW u \in Users, NEW t \in Tenants, registerPublicTenantOwner(u, t) PROVE MarkOK(reqs[q])'
  <2>1. reqs' = reqs /\ \A x \in DOMAIN rows : x \in DOMAIN rows' /\ rows'[x] = rows[x]
    BY <1>5 DEF registerPublicTenantOwner, Inserted
  <2>q. QED  BY <1>1, <1>2, <2>1 DEF Active
<1>6. ASSUME NEW t \in Tenants, PlanExpires(t) PROVE UNCHANGED <<rows, reqs>>
  BY <1>6 DEF PlanExpires
<1>7. ASSUME NEW r \in Active, Step(r), UNCHANGED asked PROVE MarkOK(reqs[q])'
  <2>1. CASE q = r
    BY <1>1, <1>7, <2>1, OwnMark
  <2>2. CASE q # r
    <3>1. q \in Active
      BY <1>1, <1>7, <2>2, StepOK DEF StepIsOK, OthersStay
    <3>q. QED  BY <1>1, <1>7, <2>2, <3>1, OtherMarks
  <2>q. QED  BY <2>1, <2>2
<1>q. QED  BY <1>3, <1>4, <1>5, <1>6, <1>7 DEF Next, vars

\* A deletion that leaves no admin marks the tenant.
LEMMA DeleteMarks ==
  ASSUME IInv, MarksOK, NEW r \in Active, Step(r), UNCHANGED asked, NEW t, reqs[r].tenant = t, ~reqs[r].late,
         CommitDelete(r),
         Row(reqs[r].user) # None, rows[reqs[r].user].role = "admin"
  PROVE  /\ countActiveTenantAdmins(t, None)' > 0 \/ t = Home \/ tenants'[t].status = "warning"
         /\ tenants'[Home].status = "active"
<1> DEFINE u == reqs[r].user
<1>1. reqs[r].pc = "commit" /\ rows' = [rows EXCEPT ![u] = None]
        /\ tenants' = IF reqs[r].warns THEN [tenants EXCEPT ![t].status = "warning"] ELSE tenants
  BY DEF CommitDelete
<1>2. t \in DOMAIN tenants /\ u \in DOMAIN rows /\ (reqs[r].warns => t # Home)
  BY <1>1, ActiveTypes DEF OwnOK, FoundOK
<1>3. tenants'[Home].status = "active" /\ (reqs[r].warns => tenants'[t].status = "warning")
  <2>1. CASE reqs[r].warns
    <3> DEFINE p == [tenants[t] EXCEPT !.status = "warning"]
    <3>1. tenants' = [tenants EXCEPT ![t] = p] /\ t # Home /\ t \in DOMAIN tenants
      BY <1>1, <1>2, <2>1
    <3>2. tenants[t] \in Plans /\ tenants[Home].status = "active"
      BY <1>2 DEF IInv, TypeOK, HomeOK
    <3>3. p.status = "warning"
      BY <3>2 DEF Plans
    <3> HIDE DEF p
    <3>q. QED  BY <3>1, <3>2, <3>3 DEF IInv, TypeOK
  <2>2. CASE ~reqs[r].warns
    BY <1>1, <2>2 DEF IInv, HomeOK
  <2>q. QED  BY <2>1, <2>2
<1>4. ~reqs[r].warns => t = Home \/ AdminsLeft(t, u) # {}
  BY <1>1 DEF MarksOK, MarkOK
<1>5. AdminsLeft(t, u) \subseteq AdminsLeft(t, None)'
  <2> HIDE DEF u
  <2>1. DOMAIN rows' = DOMAIN rows /\ \A x \in DOMAIN rows \ {u} : rows'[x] = rows[x]
    BY <1>1, <1>2
  <2>2. None \notin DOMAIN rows
    BY DEF IInv, TypeOK
  <2>q. QED  BY <2>1, <2>2 DEF AdminsLeft, Members
<1>6. IInv'
  BY StepOK DEF StepIsOK
<1>7. AdminsLeft(t, None)' # {} => countActiveTenantAdmins(t, None)' > 0
  <2>1. AdminsLeft(t, None)' \subseteq Users
    BY <1>6 DEF IInv, TypeOK, Members, AdminsLeft
  <2>2. IsFiniteSet(AdminsLeft(t, None)')
    BY <2>1, FS_Subset
  <2>3. countActiveTenantAdmins(t, None)' = Cardinality(AdminsLeft(t, None)')
    BY DEF countActiveTenantAdmins, AdminsLeft
  <2> DEFINE S == AdminsLeft(t, None)'
  <2>4. IsFiniteSet(S) /\ S # {} => Cardinality(S) > 0
    <3> HIDE DEF S
    <3>q. QED  BY FS_CardinalityType, FS_EmptySet
  <2>q. QED  BY <2>2, <2>3, <2>4
<1>q. QED  BY <1>3, <1>4, <1>5, <1>7

\* For any number of requests under way: a deletion that takes a tenant's last
\* active admin marks the tenant, unless another admin was deleted, disabled or
\* refused between its count and its commit; the default tenant keeps its status.
THEOREM AdminlessTenantsAreMarked == Spec => AdminlessIsFlagged
<1>1. Init => MarksOK
  BY DEF Init, MarksOK, Active
<1>2. IInv /\ MarksOK /\ [Next]_vars => (IInv /\ MarksOK)'
  BY NextOK, NextMarks
<1>3. ASSUME IInv, MarksOK, [Next]_vars, NEW r \in Active, NEW t \in DOMAIN tenants,
             reqs[r].pc = "commit", reqs[r].tenant = t, ~reqs[r].late, reqs'[r] = None,
             Row(reqs[r].user) # None, rows[reqs[r].user].role = "admin"
      PROVE  /\ countActiveTenantAdmins(t, None)' > 0 \/ t = Home \/ tenants'[t].status = "warning"
             /\ tenants'[Home].status = "active"
  <2>1. Step(r) /\ UNCHANGED asked
    BY <1>3, EndsItself
  <2>2. CommitDelete(r)
    <3>1. reqs[r].op = "delete"
      <4>1. reqs[r] \in Requests /\ OwnOK(r) /\ reqs[r] # None
        BY <1>3, ActiveTypes
      <4>2. reqs[r].op \in Ops
        BY <4>1 DEF Requests
      <4>q. QED  BY <1>3, <4>1, <4>2 DEF OwnOK, PlaceOK, PlanOps, PlanPcs, Ops
    <3>q. QED  BY <1>3, <2>1, <3>1 DEF Step, assertTenantActive, getTenantPlan, syncTenantExpiry, updateTenantPlan,
         assertUserLimit, createUserByActor, setUserStatusByActor, ReadPending, approvePendingTenantOwner,
         rejectPendingTenantOwner, CheckDelete, RemoveRows
  <2>q. QED  BY <1>3, <2>1, <2>2, DeleteMarks
<1>4. IInv /\ MarksOK /\ [Next]_vars =>
        [\A r \in Active, t \in DOMAIN tenants :
           (reqs[r].pc = "commit" /\ reqs[r].tenant = t /\ ~reqs[r].late /\ reqs'[r] = None
              /\ Row(reqs[r].user) # None /\ rows[reqs[r].user].role = "admin")
              => /\ countActiveTenantAdmins(t, None)' > 0 \/ t = Home \/ tenants'[t].status = "warning"
                 /\ tenants'[Home].status = "active"]_vars
  BY <1>3
<1>q. QED  BY <1>1, <1>2, <1>4, InitOK, PTL DEF Spec, AdminlessIsFlagged

-----------------------------------------------------------------------------
(* Who switches plans off                                                    *)

\* A request about to switch a plan off found it expired, and so it is, unless
\* a patch has come between.
SwitchOK == \A r \in Active : reqs[r].pc = "switchOff" /\ ~reqs[r].late => tenants[reqs[r].tenant].expired

\* What a step of a request leaves of a plan: its switch changes by the clean-up
\* or a patch only, its expiry by a patch only.
LEMMA StepLeavesPlan ==
  ASSUME IInv, NEW r \in Active, Step(r), NEW t \in DOMAIN tenants
  PROVE  /\ tenants'[t].expired = tenants[t].expired \/ (updateTenantPlan(r) /\ t = reqs[r].tenant)
         /\ tenants'[t].on = tenants[t].on \/ (updateTenantPlan(r) /\ t = reqs[r].tenant)
              \/ (syncTenantExpiry(r) /\ t = reqs[r].tenant)
<1>1. tenants[t] \in Plans
  BY DEF IInv, TypeOK
<1>2. CASE UNCHANGED tenants
  BY <1>2
<1>3. CASE updateTenantPlan(r)
  BY <1>3 DEF updateTenantPlan
<1>4. CASE syncTenantExpiry(r)
  <2>1. tenants' = [tenants EXCEPT ![reqs[r].tenant].on = FALSE]
    BY <1>4 DEF syncTenantExpiry
  <2>q. QED  BY <1>1, <1>4, <2>1 DEF Plans
<1>5. CASE approvePendingTenantOwner(r) \/ rejectPendingTenantOwner(r) \/ CommitDelete(r)
  <2>1. CASE UNCHANGED tenants
    BY <2>1
  <2>2. ASSUME NEW st, tenants' = [tenants EXCEPT ![reqs[r].tenant].status = st]
        PROVE  tenants'[t].expired = tenants[t].expired /\ tenants'[t].on = tenants[t].on
    BY <1>1, <2>2 DEF Plans
  <2>q. QED  BY <1>5, <2>1, <2>2 DEF approvePendingTenantOwner, rejectPendingTenantOwner, CommitDelete, OpenedTenant
<1>q. QED  BY <1>2, <1>3, <1>4, <1>5 DEF Step, assertTenantActive, getTenantPlan, assertUserLimit, createUserByActor, setUserStatusByActor,
              ReadPending, CheckDelete, RemoveRows

\* Only a reading that finds the plan expired leads to the clean-up.
LEMMA SwitchersLook ==
  ASSUME IInv, NEW r \in Active, Step(r), reqs'[r] # None, reqs'[r].pc = "switchOff"
  PROVE  reqs'[r].tenant = reqs[r].tenant /\ tenants'[reqs[r].tenant].expired
<1>1. r \in Slots /\ reqs[r] \in Requests /\ reqs \in [Slots -> Requests \cup {None}]
  BY ActiveTypes DEF IInv, TypeOK
<1>2. CASE assertTenantActive(r)
  BY <1>1, <1>2 DEF assertTenantActive, Goes, Ends, Requests, overdue
<1>3. CASE getTenantPlan(r)
  <2>1. PICK v : reqs'[r] = v /\ PlanRead(reqs[r], v)
    BY <1>1, <1>3, PlanReadIs
  <2>2. reqs[r].op \in PlanOps
    BY <1>3, PlanReadIs
  <2>q. QED  BY <1>3, <2>1, <2>2, AfterPlanIs DEF PlanRead, getTenantPlan
<1>q. QED  BY <1>2, <1>3, StepGoes

\* The reading of another request is still true, or it is late.
LEMMA OtherSwitches ==
  ASSUME IInv, SwitchOK, NEW r \in Active, Step(r), NEW q \in Active \ {r}, SameButLate(reqs'[q], reqs[q]),
         reqs[q].pc = "switchOff", ~reqs'[q].late
  PROVE  tenants'[reqs[q].tenant].expired
<1>1. r \in Slots /\ reqs[r] \in Requests /\ ReqsType /\ q \in Slots
  BY ActiveTypes, PartsOfIInv
<1>2. reqs[q].tenant \in DOMAIN tenants
  BY DEF IInv, TypeOK
<1>3. tenants[reqs[q].tenant].expired
  <2>1. ~reqs[q].late
    BY DEF SameButLate
  <2>q. QED  BY <2>1 DEF SwitchOK
<1>4. ASSUME updateTenantPlan(r), reqs[q].tenant = reqs[r].tenant PROVE FALSE
  <2> DEFINE b == Late(r, reqs[r].tenant, "switchOff")
  <2>1. b \in [Slots -> Requests \cup {None}] /\ b[q].late
    BY <1>1, <1>4, LateKeeps
  <2>2. reqs'[q] = b[q]
    BY <1>1, <1>4, <2>1 DEF updateTenantPlan
  <2>q. QED  BY <2>1, <2>2
<1>q. QED  BY <1>2, <1>3, <1>4, StepLeavesPlan

LEMMA NextSwitch == IInv /\ SwitchOK /\ [Next]_vars => SwitchOK'
<1> SUFFICES ASSUME IInv, SwitchOK, [Next]_vars,
                    NEW q \in Active', reqs'[q].pc = "switchOff", ~reqs'[q].late
             PROVE  tenants'[reqs'[q].tenant].expired
  BY DEF SwitchOK
<1>1. reqs \in [Slots -> Requests \cup {None}] /\ q \in Slots /\ reqs'[q] # None
  BY DEF IInv, TypeOK, Active
<1>2. CASE UNCHANGED <<tenants, reqs>>
  BY <1>2 DEF SwitchOK, Active
<1>3. CASE Ask
  <2>1. PICK op, a, u, t : Arrive(op, a, u, t)
    BY <1>3 DEF Ask, AskCreate, AskPlan, AskUser, AskDecision
  <2>2. PICK r \in Slots \ Active :
          reqs' = [reqs EXCEPT ![r] = [op |-> op, actor |-> a, user |-> u, tenant |-> t,
                                       pc |-> IF op \in {"view", "patch"} THEN "plan" ELSE "start",
                                       next |-> "end", plans |-> 0, limit |-> 0, warns |-> FALSE, late |-> FALSE]]
    BY <2>1 DEF Arrive
  <2>3. q # r /\ reqs'[q] = reqs[q] /\ tenants' = tenants
    BY <1>1, <2>1, <2>2 DEF Arrive
  <2>q. QED  BY <1>1, <2>3 DEF SwitchOK, Active
<1>4. ASSUME NEW u \in Users, NEW t \in Tenants, registerPublicTenantOwner(u, t)
      PROVE  tenants'[reqs'[q].tenant].expired
  <2>1. reqs' = reqs /\ q \in Active
    BY <1>1, <1>4 DEF registerPublicTenantOwner, Active
  <2>2. reqs[q].tenant \in DOMAIN tenants
    BY <2>1 DEF IInv, TypeOK
  <2>3. tenants'[reqs[q].tenant] = tenants[reqs[q].tenant]
    BY <1>4, <2>2 DEF registerPublicTenantOwner, Inserted
  <2>q. QED  BY <2>1, <2>3 DEF SwitchOK
<1>5. ASSUME NEW t \in Tenants, PlanExpires(t) PROVE tenants'[reqs'[q].tenant].expired
  <2>1. t \in DOMAIN tenants /\ tenants' = [tenants EXCEPT ![t].expired = TRUE] /\ reqs' = reqs /\ q \in Active
    BY <1>1, <1>5 DEF PlanExpires, Active
  <2>2. reqs[q].tenant \in DOMAIN tenants /\ tenants[reqs[q].tenant].expired /\ tenants[t] \in Plans
    BY <2>1 DEF IInv, TypeOK, SwitchOK
  <2>q. QED  BY <2>1, <2>2 DEF Plans
<1>6. ASSUME NEW r \in Active, Step(r), UNCHANGED asked PROVE tenants'[reqs'[q].tenant].expired
  <2>1. CASE q = r
    BY <1>1, <1>6, <2>1, SwitchersLook
  <2>2. CASE q # r
    <3>1. q \in Active /\ SameButLate(reqs'[q], reqs[q])
      BY <1>1, <1>6, <2>2, StepOK DEF StepIsOK, OthersStay
    <3>q. QED  BY <1>6, <2>2, <3>1, OtherSwitches DEF SameButLate
  <2>q. QED  BY <2>1, <2>2
<1>q. QED  BY <1>2, <1>3, <1>4, <1>5, <1>6 DEF Next, vars

\* Who switches off a plan that runs.
LEMMA SwitchedByWhom ==
  ASSUME IInv, SwitchOK, [Next]_vars, NEW t \in DOMAIN tenants,
         tenants[t].on, ~tenants[t].expired, ~tenants'[t].on
  PROVE  \E r \in Active : /\ reqs[r].tenant = t /\ (reqs'[r] = None \/ reqs'[r].pc # reqs[r].pc)
                           /\ reqs[r].pc = "write" \/ (reqs[r].pc = "switchOff" /\ reqs[r].late)
<1>1. ~UNCHANGED tenants /\ ~Ask
  BY DEF Ask, AskCreate, AskPlan, AskUser, AskDecision, Arrive
<1>2. ASSUME NEW u \in Users, NEW x \in Tenants, registerPublicTenantOwner(u, x) PROVE FALSE
  BY <1>2 DEF registerPublicTenantOwner, Inserted
<1>3. ASSUME NEW x \in Tenants, PlanExpires(x) PROVE FALSE
  <2>1. tenants[t] \in Plans /\ x \in DOMAIN tenants /\ tenants' = [tenants EXCEPT ![x].expired = TRUE]
    BY <1>3 DEF IInv, TypeOK, PlanExpires
  <2>q. QED  BY <2>1 DEF Plans
<1>4. PICK r \in Active : Step(r)
  BY <1>1, <1>2, <1>3 DEF Next, vars
<1>5. r \in Slots /\ reqs[r] \in Requests /\ reqs[r] # None /\ OwnOK(r) /\ reqs \in [Slots -> Requests \cup {None}]
  BY ActiveTypes DEF IInv, TypeOK
<1>6. reqs[r].tenant = t /\ (updateTenantPlan(r) \/ syncTenantExpiry(r))
  BY <1>4, StepLeavesPlan
<1>7. CASE updateTenantPlan(r)
  <2> DEFINE b == Late(r, reqs[r].tenant, "switchOff")
  <2>1. b \in [Slots -> Requests \cup {None}] /\ b[r] = reqs[r]
    BY <1>5, LateKeeps DEF ReqsType
  <2>2. reqs'[r].pc = "plan" /\ reqs[r].pc = "write"
    BY <1>5, <1>7, <2>1 DEF updateTenantPlan, Requests
  <2>q. QED  BY <1>6, <2>2
<1>8. CASE syncTenantExpiry(r)
  <2>1. reqs[r].pc = "switchOff" /\ (reqs'[r] = None \/ reqs'[r].pc = reqs[r].next)
    BY <1>5, <1>8 DEF syncTenantExpiry, Goes, Ends, Requests
  <2>2. reqs[r].next # "switchOff"
    BY <1>5, <2>1 DEF OwnOK, PlaceOK
  <2>3. reqs[r].late
    BY <1>6, <2>1 DEF SwitchOK
  <2>q. QED  BY <1>6, <2>1, <2>2, <2>3
<1>q. QED  BY <1>6, <1>7, <1>8

\* For any number of requests under way: a plan that is on and has not expired
\* is switched off by an administrator's patch only, or by a request that a patch
\* has overtaken since it read the plan as expired.
THEOREM RenewedPlansStayOn == Spec => RenewedStaysOn
<1>1. Init => SwitchOK
  BY DEF Init, SwitchOK, Active
<1>2. IInv /\ SwitchOK /\ [Next]_vars => (IInv /\ SwitchOK)'
  BY NextOK, NextSwitch
<1>3. IInv /\ SwitchOK /\ [Next]_vars =>
        [\A t \in DOMAIN tenants :
           (tenants[t].on /\ ~tenants[t].expired /\ ~tenants'[t].on)
              => \E r \in Active : /\ reqs[r].tenant = t /\ (reqs'[r] = None \/ reqs'[r].pc # reqs[r].pc)
                                   /\ reqs[r].pc = "write" \/ (reqs[r].pc = "switchOff" /\ reqs[r].late)]_vars
  BY SwitchedByWhom
<1>q. QED  BY <1>1, <1>2, <1>3, InitOK, PTL DEF Spec, RenewedStaysOn

-----------------------------------------------------------------------------
(* Owners and their tenants                                                  *)

\* A tenant has one registered owner; only owners are pending; and who is decided
\* on is the owner of the tenant that the request holds.
OwnersKnown ==
  /\ owners \subseteq DOMAIN rows \ Roots
  /\ \A u1, u2 \in owners :
       rows[u1] # None /\ rows[u2] # None /\ rows[u1].tenant = rows[u2].tenant => u1 = u2
  /\ \A u \in DOMAIN rows : rows[u] # None /\ rows[u].mstat = "pending_review" => u \in owners

Decides(q, u) == q.pc = "decide" /\ rows[u] # None /\ rows[u].tenant = q.tenant => u = q.user

OwnersOK == OwnersKnown /\ (\A r \in Active : \A u \in owners : Decides(reqs[r], u)) /\ OwnerAndTenantAgree

\* Whose status is whose: one owner and its tenant.
AgreeOne(u) ==
  rows[u] # None => /\ rows[u].mstat = rows[u].ustat
                    /\ tenants[rows[u].tenant].status \in {rows[u].ustat, "warning"}

\* A step leaves the owners' rows to their tenants, and makes nobody pending.
LEMMA StepKnown ==
  ASSUME IInv, OwnersOK, NEW r \in Active, Step(r), UNCHANGED asked
  PROVE  owners' = owners /\ OwnersKnown' /\ \A q \in Active' : \A u \in owners : Decides(reqs[q], u)'
<1>1. owners' = owners
  BY DEF Step, assertTenantActive, getTenantPlan, syncTenantExpiry, updateTenantPlan, assertUserLimit,
         createUserByActor, setUserStatusByActor, ReadPending, approvePendingTenantOwner,
         rejectPendingTenantOwner, CheckDelete, RemoveRows, CommitDelete, history
<1>2. RowsKeep /\ OthersStay(r) /\ IInv'
  BY StepOK DEF StepIsOK
<1>3. ASSUME NEW x \in DOMAIN rows', rows'[x] # None, rows'[x].mstat = "pending_review" PROVE x \in owners
  <2>1. PICK u : u = reqs[r].user
    OBVIOUS
  <2>2. ASSUME NEW a, NEW b, RowIs(u, a, b), b # "pending_review" PROVE x \in DOMAIN rows /\ rows'[x] = rows[x]
    BY <1>3, <2>2 DEF RowIs
  <2>3. CASE UNCHANGED rows
    BY <1>3, <2>3 DEF OwnersOK, OwnersKnown
  <2>4. CASE createUserByActor(r) /\ u \notin DOMAIN rows
    <3>1. x # u /\ x \in DOMAIN rows /\ rows'[x] = rows[x]
      BY <1>3, <2>1, <2>4, StepRow DEF createUserByActor, Inserted
    <3>q. QED  BY <1>3, <3>1 DEF OwnersOK, OwnersKnown
  <2>5. CASE \E a, b : RowIs(u, a, b) /\ b # "pending_review"
    BY <1>3, <2>2, <2>5 DEF OwnersOK, OwnersKnown
  <2>6. CASE OnlyRow(u) /\ rows'[u] = None
    BY <1>3, <2>6 DEF OwnersOK, OwnersKnown, OnlyRow
  <2>7. Opened(rows[u].mstat) # "pending_review"
    BY DEF Opened
  <2>8. \/ UNCHANGED rows
        \/ createUserByActor(r) /\ u \notin DOMAIN rows
        \/ RowIs(u, "active", "active") \/ RowIs(u, "disabled", "disabled")
        \/ RowIs(u, Opened(rows[u].ustat), Opened(rows[u].mstat))
        \/ OnlyRow(u) /\ rows'[u] = None
    BY <2>1, StepRow
  <2>9. CASE RowIs(u, "active", "active") \/ RowIs(u, "disabled", "disabled")
    BY <2>5, <2>9
  <2>10. CASE RowIs(u, Opened(rows[u].ustat), Opened(rows[u].mstat))
    BY <2>5, <2>7, <2>10
  <2>q. QED  BY <2>3, <2>4, <2>6, <2>8, <2>9, <2>10
<1>4. OwnersKnown'
  BY <1>1, <1>2, <1>3 DEF OwnersOK, OwnersKnown, RowsKeep
<1>5. ASSUME NEW q \in Active', NEW u \in owners, reqs'[q].pc = "decide", rows'[u] # None,
             rows'[u].tenant = reqs'[q].tenant
      PROVE  u = reqs'[q].user
  <2>1. u \in DOMAIN rows /\ rows[u] # None /\ rows[u].tenant = rows'[u].tenant /\ q \in Slots /\ reqs'[q] # None
    BY <1>2, <1>5 DEF OwnersOK, OwnersKnown, RowsKeep, Active
  <2>2. CASE q # r
    <3>1. q \in Active /\ SameButLate(reqs'[q], reqs[q])
      BY <1>2, <2>1, <2>2 DEF OthersStay
    <3>q. QED  BY <1>5, <2>1, <3>1 DEF OwnersOK, Decides, SameButLate
  <2>3. CASE q = r
    <3>1. ReadPending(r) /\ reqs \in [Slots -> Requests \cup {None}] /\ reqs[r] \in Requests
      BY <1>5, <2>1, <2>3, StepGoes, ActiveTypes DEF IInv, TypeOK
    <3>2. /\ Row(reqs[r].user) # None /\ rows[reqs[r].user].mstat = "pending_review"
          /\ reqs'[r].user = reqs[r].user /\ reqs'[r].tenant = rows[reqs[r].user].tenant
      BY <2>1, <2>3, <3>1 DEF ReadPending, Ends, Requests
    <3>q. QED  BY <1>5, <2>1, <2>3, <3>2 DEF OwnersOK, OwnersKnown, Row
  <2>q. QED  BY <2>2, <2>3
<1>q. QED  BY <1>1, <1>4, <1>5 DEF Decides

\* A step that decides nothing keeps the statuses, or marks the tenant.
LEMMA StepMarks ==
  ASSUME IInv, NEW r \in Active, Step(r), ~approvePendingTenantOwner(r), ~rejectPendingTenantOwner(r),
         NEW t \in DOMAIN tenants
  PROVE  tenants'[t].status \in {tenants[t].status, "warning"}
<1>1. tenants[t] \in Plans
  BY DEF IInv, TypeOK
<1>2. CASE syncTenantExpiry(r)
  <2>1. tenants' = [tenants EXCEPT ![reqs[r].tenant].on = FALSE]
    BY <1>2 DEF syncTenantExpiry
  <2>q. QED  BY <1>1, <2>1 DEF Plans
<1>3. CASE updateTenantPlan(r)
  <2>1. PICK p \in Patched(tenants[reqs[r].tenant]) : tenants' = [tenants EXCEPT ![reqs[r].tenant] = p]
    BY <1>3 DEF updateTenantPlan
  <2>2. CASE t = reqs[r].tenant
    BY <1>1, <2>1, <2>2, PatchedTypes
  <2>3. CASE t # reqs[r].tenant
    BY <2>1, <2>3
  <2>q. QED  BY <2>2, <2>3
<1>4. CASE CommitDelete(r)
  <2>1. tenants' = tenants \/ tenants' = [tenants EXCEPT ![reqs[r].tenant].status = "warning"]
    BY <1>4 DEF CommitDelete
  <2>q. QED  BY <1>1, <2>1 DEF Plans
<1>5. CASE UNCHANGED tenants
  BY <1>5
<1>q. QED  BY <1>2, <1>3, <1>4, <1>5 DEF Step, assertTenantActive, getTenantPlan, assertUserLimit,
              createUserByActor, setUserStatusByActor, ReadPending, CheckDelete, RemoveRows

\* The two statements of a decision move the owner and its tenant together.
LEMMA DecisionAgrees ==
  ASSUME IInv, OwnersOK, NEW r \in Active, Step(r), approvePendingTenantOwner(r) \/ rejectPendingTenantOwner(r),
         NEW x \in owners \ touched
  PROVE  AgreeOne(x)'
<1> DEFINE t == reqs[r].tenant
           u == reqs[r].user
<1>1. /\ x \in DOMAIN rows /\ AgreeOne(x) /\ reqs[r].pc = "decide" /\ Decides(reqs[r], x)
      /\ \A y \in DOMAIN tenants : tenants[y] \in Plans
      /\ rows[x] # None => rows[x].tenant \in DOMAIN tenants
  BY DEF OwnersOK, OwnersKnown, OwnerAndTenantAgree, AgreeOne, IInv, TypeOK,
         approvePendingTenantOwner, rejectPendingTenantOwner
<1>2. u \in DOMAIN rows /\ t \in DOMAIN tenants /\ (rows[u] # None => rows[u].tenant = t)
  BY <1>1, ActiveTypes DEF OwnOK, FoundOK
<1>3. /\ \A y \in DOMAIN tenants \ {t} : tenants'[y] = tenants[y]
      /\ approvePendingTenantOwner(r) => tenants'[t].status = Opened(tenants[t].status)
      /\ rejectPendingTenantOwner(r) => tenants'[t].status = "disabled"
  <2>1. CASE approvePendingTenantOwner(r)
    <3>1. tenants' = [tenants EXCEPT ![t] = [tenants[t] EXCEPT !.status = Opened(tenants[t].status)]]
            /\ reqs[r].op = "approve"
      BY <1>1, <1>2, <2>1 DEF approvePendingTenantOwner, OpenedTenant, Plans
    <3>2. [tenants[t] EXCEPT !.status = Opened(tenants[t].status)].status = Opened(tenants[t].status)
      BY <1>1, <1>2 DEF Plans
    <3>q. QED  BY <1>2, <3>1, <3>2 DEF rejectPendingTenantOwner
  <2>2. CASE rejectPendingTenantOwner(r)
    <3>1. tenants' = [tenants EXCEPT ![t] = [tenants[t] EXCEPT !.status = "disabled"]] /\ reqs[r].op = "reject"
      BY <2>2 DEF rejectPendingTenantOwner
    <3>2. [tenants[t] EXCEPT !.status = "disabled"].status = "disabled"
      BY <1>1, <1>2 DEF Plans
    <3>q. QED  BY <1>2, <3>1, <3>2 DEF approvePendingTenantOwner
  <2>q. QED  BY <2>1, <2>2
<1>4. CASE x # u \/ rows[u] = None
  <2>1. rows'[x] = rows[x]
    <3>1. CASE rows[u] = None
      BY <1>2, <3>1 DEF approvePendingTenantOwner, rejectPendingTenantOwner, Row
    <3>2. CASE rows[u] # None
      BY <1>1, <1>2, <1>4, <3>2 DEF approvePendingTenantOwner, rejectPendingTenantOwner, Row
    <3>q. QED  BY <3>1, <3>2
  <2>2. rows[x] # None => rows[x].tenant # t
    BY <1>1, <1>4 DEF Decides
  <2>q. QED  BY <1>1, <1>3, <2>1, <2>2 DEF AgreeOne
<1>5. CASE x = u /\ rows[u] # None
  <2>1. rows[u] \in Accounts
    BY <1>2, <1>5 DEF IInv, TypeOK
  <2>2. CASE approvePendingTenantOwner(r)
    <3>1. rows' = [rows EXCEPT ![u].ustat = Opened(rows[u].ustat), ![u].mstat = Opened(rows[u].mstat)]
      BY <1>2, <1>5, <2>1, <2>2 DEF approvePendingTenantOwner, OpenedRow, Row, Accounts
    <3>2. Opened(rows[u].ustat) \in Statuses /\ Opened(rows[u].mstat) \in Statuses
      BY <2>1 DEF Opened, Accounts, Statuses
    <3>3. RowIs(u, Opened(rows[u].ustat), Opened(rows[u].mstat))
      BY <1>2, <1>5, <3>1, <3>2, SetStatus
    <3>q. QED  BY <1>1, <1>2, <1>3, <1>5, <2>2, <3>3 DEF AgreeOne, RowIs, Opened
  <2>3. CASE rejectPendingTenantOwner(r)
    <3>1. rows' = [rows EXCEPT ![u].ustat = "disabled", ![u].mstat = "disabled"] /\ "disabled" \in Statuses
      BY <1>2, <1>5, <2>3 DEF rejectPendingTenantOwner, Row, Statuses
    <3>2. RowIs(u, "disabled", "disabled")
      BY <1>2, <1>5, <3>1, SetStatus
    <3>q. QED  BY <1>1, <1>2, <1>3, <1>5, <2>3, <3>2 DEF AgreeOne, RowIs
  <2>q. QED  BY <2>2, <2>3
<1>q. QED  BY <1>4, <1>5

LEMMA StepOwners ==
  ASSUME IInv, OwnersOK, NEW r \in Active, Step(r), UNCHANGED asked
  PROVE  OwnersOK'
<1>1. owners' = owners /\ OwnersKnown' /\ \A q \in Active' : \A u \in owners : Decides(reqs[q], u)'
  BY StepKnown
<1>2. touched \subseteq touched'
  BY DEF Step, assertTenantActive, getTenantPlan, syncTenantExpiry, updateTenantPlan, assertUserLimit,
         createUserByActor, setUserStatusByActor, ReadPending, approvePendingTenantOwner,
         rejectPendingTenantOwner, CheckDelete, RemoveRows, CommitDelete, history
<1>3. ASSUME NEW x \in owners \ touched' PROVE AgreeOne(x)'
  <2>1. x \in owners \ touched /\ x \in DOMAIN rows /\ AgreeOne(x)
    BY <1>2, <1>3 DEF OwnersOK, OwnersKnown, OwnerAndTenantAgree, AgreeOne
  <2>2. CASE approvePendingTenantOwner(r) \/ rejectPendingTenantOwner(r)
    BY <2>1, <2>2, DecisionAgrees
  <2>3. CASE ~approvePendingTenantOwner(r) /\ ~rejectPendingTenantOwner(r)
    <3>1. rows'[x] = rows[x] \/ rows'[x] = None
      BY <1>3, <2>1, <2>3, StepRow DEF RowIs, OnlyRow
    <3>2. rows[x] # None => rows[x].tenant \in DOMAIN tenants
      BY <2>1 DEF IInv, TypeOK
    <3>q. QED  BY <2>1, <2>3, <3>1, <3>2, StepMarks DEF AgreeOne
  <2>q. QED  BY <2>2, <2>3
<1>q. QED  BY <1>1, <1>3 DEF OwnersOK, OwnerAndTenantAgree, AgreeOne

LEMMA registerOwners ==
  ASSUME IInv, OwnersOK, NEW u \in Users, NEW t \in Tenants, registerPublicTenantOwner(u, t)
  PROVE  OwnersOK'
<1> DEFINE plan == [status |-> "pending_review", on |-> TRUE, expired |-> FALSE, limit |-> NewLimit]
           row == [tenant |-> t, role |-> "admin", ustat |-> "pending_review", mstat |-> "pending_review"]
<1>1. /\ rows' = Inserted(rows, u, row) /\ tenants' = Inserted(tenants, t, plan)
      /\ u \notin DOMAIN rows /\ t \notin DOMAIN tenants /\ UNCHANGED <<reqs, touched>> /\ owners' = owners \cup {u}
      /\ row.tenant = t /\ row.ustat = "pending_review" /\ row.mstat = "pending_review"
      /\ plan.status = "pending_review"
  BY DEF registerPublicTenantOwner
<1> HIDE DEF plan, row
<1>2. /\ DOMAIN rows' = DOMAIN rows \cup {u} /\ rows'[u] = row /\ \A x \in DOMAIN rows : rows'[x] = rows[x]
      /\ DOMAIN tenants' = DOMAIN tenants \cup {t} /\ tenants'[t] = plan
      /\ \A x \in DOMAIN tenants : tenants'[x] = tenants[x]
  BY <1>1 DEF Inserted
<1>3. \A q \in Active : reqs[q].pc = "decide" => reqs[q].tenant \in DOMAIN tenants
  BY DEF IInv, TypeOK
<1>4. /\ Active' = Active /\ u \notin Roots
      /\ \A x \in DOMAIN rows : rows[x] # None => rows[x].tenant \in DOMAIN tenants
  BY <1>1 DEF IInv, TypeOK, RootsOK, Active
<1>5. OwnersKnown'
  BY <1>1, <1>2, <1>4 DEF OwnersOK, OwnersKnown
<1>6. ASSUME NEW q \in Active', NEW x \in owners' PROVE Decides(reqs[q], x)'
  BY <1>1, <1>2, <1>3, <1>4, <1>6 DEF OwnersOK, OwnersKnown, Decides
<1>7. ASSUME NEW x \in owners' \ touched' PROVE AgreeOne(x)'
  <2>1. CASE x = u
    BY <1>1, <1>2, <2>1 DEF AgreeOne
  <2>2. CASE x # u
    <3>1. x \in owners \ touched /\ x \in DOMAIN rows /\ AgreeOne(x)
      BY <1>1, <1>7, <2>2 DEF OwnersOK, OwnersKnown, OwnerAndTenantAgree, AgreeOne
    <3>q. QED  BY <1>2, <1>4, <3>1 DEF AgreeOne
  <2>q. QED  BY <2>1, <2>2
<1>q. QED  BY <1>5, <1>6, <1>7 DEF OwnersOK, OwnerAndTenantAgree, AgreeOne

LEMMA NextOwners == IInv /\ OwnersOK /\ [Next]_vars => OwnersOK'
<1> SUFFICES ASSUME IInv, OwnersOK, [Next]_vars PROVE OwnersOK'
  OBVIOUS
<1>1. reqs \in [Slots -> Requests \cup {None}] /\ \A t \in DOMAIN tenants : tenants[t] \in Plans
  BY DEF IInv, TypeOK
<1>2. ASSUME UNCHANGED <<rows, owners, touched>>, \A x \in DOMAIN tenants : tenants'[x].status = tenants[x].status,
             \A q \in Active' : reqs'[q].pc = "decide" => q \in Active /\ reqs'[q] = reqs[q]
      PROVE  OwnersOK'
  <2>1. OwnersKnown'
    BY <1>2 DEF OwnersOK, OwnersKnown
  <2>2. ASSUME NEW q \in Active', NEW x \in owners' PROVE Decides(reqs[q], x)'
    BY <1>2, <2>2 DEF OwnersOK, Decides
  <2>3. OwnerAndTenantAgree'
    <3>1. \A x \in DOMAIN rows : rows[x] # None => rows[x].tenant \in DOMAIN tenants
      BY DEF IInv, TypeOK
    <3>q. QED  BY <1>2, <3>1 DEF OwnersOK, OwnersKnown, OwnerAndTenantAgree
  <2>q. QED  BY <2>1, <2>2, <2>3 DEF OwnersOK
<1>3. CASE UNCHANGED vars
  BY <1>2, <1>3 DEF vars, history, Active
<1>4. CASE Ask
  <2>1. PICK op, a, u, t : Arrive(op, a, u, t)
    BY <1>4 DEF Ask, AskCreate, AskPlan, AskUser, AskDecision
  <2> DEFINE v == [op |-> op, actor |-> a, user |-> u, tenant |-> t,
                   pc |-> IF op \in {"view", "patch"} THEN "plan" ELSE "start",
                   next |-> "end", plans |-> 0, limit |-> 0, warns |-> FALSE, late |-> FALSE]
  <2>2. PICK r \in Slots \ Active : reqs' = [reqs EXCEPT ![r] = v]
    BY <2>1 DEF Arrive
  <2>3. v.pc # "decide" /\ UNCHANGED <<rows, tenants, owners, touched>>
    BY <2>1 DEF Arrive, history
  <2> HIDE DEF v
  <2>4. reqs'[r] = v /\ \A q \in Slots \ {r} : reqs'[q] = reqs[q]
    BY <1>1, <2>2
  <2>q. QED  BY <1>2, <2>3, <2>4 DEF Active
<1>5. ASSUME NEW u \in Users, NEW t \in Tenants, registerPublicTenantOwner(u, t) PROVE OwnersOK'
  BY <1>5, registerOwners
<1>6. ASSUME NEW t \in Tenants, PlanExpires(t) PROVE OwnersOK'
  <2>1. /\ t \in DOMAIN tenants /\ tenants' = [tenants EXCEPT ![t].expired = TRUE]
        /\ UNCHANGED <<rows, reqs, owners, touched>>
    BY <1>6 DEF PlanExpires, history
  <2>2. \A x \in DOMAIN tenants : tenants'[x].status = tenants[x].status
    BY <2>1, ExpiredTypes
  <2>q. QED  BY <1>2, <2>1, <2>2 DEF Active
<1>7. ASSUME NEW r \in Active, Step(r), UNCHANGED asked PROVE OwnersOK'
  BY <1>7, StepOwners
<1>q. QED  BY <1>3, <1>4, <1>5, <1>6, <1>7 DEF Next

\* For any number of registrations and of clicks on them: a registered owner, its
\* membership and its tenant are pending, open or refused together, in both
\* directions, unless an administrator sets the owner's status by hand or the
\* tenant has been marked.
THEOREM OwnersAgree == Spec => []OwnerAndTenantAgree
<1>1. Init => OwnersOK
  <2> SUFFICES ASSUME Init PROVE OwnersOK
    OBVIOUS
  <2>1. owners = {} /\ DOMAIN rows = Roots /\ \A u \in Roots : rows[u].mstat = "active"
    BY DEF Init
  <2>q. QED  BY <2>1 DEF OwnersOK, OwnersKnown, OwnerAndTenantAgree
<1>2. IInv /\ OwnersOK /\ [Next]_vars => OwnersOK'
  BY NextOwners
<1>3. OwnersOK => OwnerAndTenantAgree
  BY DEF OwnersOK
<1>q. QED  BY <1>1, <1>2, <1>3, InvariantHolds, PTL DEF Spec
=============================================================================
