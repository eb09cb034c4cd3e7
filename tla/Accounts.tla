------------------------------ MODULE Accounts ------------------------------
(***************************************************************************)
(* Accounts, tenants and plans: the admin requests of modules/users and    *)
(* modules/tenants and the public registration, each a chain of awaits on  *)
(* a pool of connections, none of which holds a lock from its check to its *)
(* write.                                                                  *)
(*                                                                         *)
(* A user has one membership (createUserByActor and                        *)
(* registerPublicTenantOwner insert one of each), so users and             *)
(* user_tenants are one row here with both status columns.  Roles do not   *)
(* change; super_admin stands for users.scope = platform too.              *)
(***************************************************************************)
EXTENDS Integers, FiniteSets

CONSTANTS
  Users, Tenants,
  Roots,          \* platform administrators that seed and migrations left
  Home,           \* the default tenant, which is protected
  Limits,         \* values a patch gives max_users
  HomeLimit, NewLimit,
  Slots,          \* bound: requests under way at a time
  MaxRequests,    \* bound: requests in all
  None

ASSUME AccountsAssumption ==
  /\ IsFiniteSet(Users) /\ Roots \subseteq Users /\ Roots # {} /\ Home \in Tenants
  /\ Limits \cup {HomeLimit, NewLimit} \subseteq Nat \ {0} /\ MaxRequests \in Nat
  /\ None \notin Users /\ None \notin Tenants /\ IsFiniteSet(Slots)

VARIABLES
  rows,      \* users, user_tenants
  tenants,
  reqs,      \* the request in each slot
  asked,     \* requests so far
  \* history, read by the properties only
  owners,    \* users that registered with a tenant of their own
  touched,   \* users whose status an administrator set by hand
  widened,   \* tenants whose plan was given another limit, or whose members an
             \* administrator enabled: neither asks how many members there are
  usurped    \* a status was set on a platform administrator after the request's
             \* own actor had been disabled

history == <<owners, touched, widened, usurped>>
vars == <<rows, tenants, reqs, asked, history>>

Statuses == {"active", "disabled", "pending_review"}
Accounts == [tenant : Tenants, role : {"super_admin", "admin", "viewer"}, ustat : Statuses, mstat : Statuses]
Plans == [status : Statuses \cup {"warning"}, on : BOOLEAN, expired : BOOLEAN, limit : Nat \ {0}]
Ops == {"create", "view", "patch", "enable", "disable", "approve", "reject", "delete"}
Pcs == {"start", "plan", "limit", "insert", "switchOff", "write", "decide", "remove", "commit", "end"}
\* plans counts the getTenantPlan calls made, next is where a request that
\* switches a plan off goes on, limit is max_users as it was read last.
Requests == [op : Ops, actor : Users, user : Users \cup {None}, tenant : Tenants \cup {None},
             pc : Pcs, next : Pcs, plans : 0..3, limit : Nat, warns : BOOLEAN, late : BOOLEAN]

ASSUME NoneAssumption == None \notin Accounts \cup Requests \cup Slots

Active == {r \in Slots : reqs[r] # None}

TypeOK ==
  /\ DOMAIN rows \subseteq Users /\ \A u \in DOMAIN rows : rows[u] \in Accounts \cup {None}
  /\ Home \in DOMAIN tenants /\ DOMAIN tenants \subseteq Tenants
  /\ \A t \in DOMAIN tenants : tenants[t] \in Plans
  /\ reqs \in [Slots -> Requests \cup {None}] /\ asked \in 0..MaxRequests
  /\ owners \subseteq Users /\ touched \subseteq Users /\ widened \subseteq Tenants /\ usurped \in BOOLEAN
  \* a member's tenant exists, and a statement that writes a tenant has one
  /\ \A u \in DOMAIN rows : rows[u] # None => rows[u].tenant \in DOMAIN tenants
  /\ \A r \in Active :
       reqs[r].pc \in {"plan", "limit", "insert", "switchOff", "write", "decide"}
         => reqs[r].tenant \in DOMAIN tenants

Init ==
  /\ rows = [u \in Roots |-> [tenant |-> Home, role |-> "super_admin", ustat |-> "active", mstat |-> "active"]]
  /\ tenants = [t \in {Home} |-> [status |-> "active", on |-> TRUE, expired |-> FALSE, limit |-> HomeLimit]]
  /\ reqs = [r \in Slots |-> None] /\ asked = 0
  /\ owners = {} /\ touched = {} /\ widened = {} /\ usurped = FALSE

-----------------------------------------------------------------------------
\* What the statements read.

\* A deleted user's id is used up: it stays in DOMAIN rows as None.
Row(u) == IF u \in DOMAIN rows THEN rows[u] ELSE None
Members(t) == {u \in DOMAIN rows : rows[u] # None /\ rows[u].tenant = t}

\* countUsersForTenant in quota mode: whoever is not disabled, viewers and those
\* pending included.
countUsersForTenant(t) ==
  Cardinality({u \in Members(t) : rows[u].ustat # "disabled" /\ rows[u].mstat # "disabled"})

countActiveTenantAdmins(t, but) ==
  Cardinality({u \in Members(t) \ {but} :
                 rows[u].role = "admin" /\ rows[u].mstat = "active" /\ rows[u].ustat # "disabled"})

ActivePlatformAdmins ==
  {u \in DOMAIN rows : rows[u] # None /\ rows[u].role = "super_admin"
                         /\ rows[u].mstat = "active" /\ rows[u].ustat # "disabled"}

\* requireFullAccess: the actor, its membership and its tenant are active.
requireFullAccess(u) ==
  /\ Row(u) # None /\ rows[u].ustat = "active" /\ rows[u].mstat = "active"
  /\ tenants[rows[u].tenant].status = "active"

\* What assertTenantActive asks of the row it reads.  (The statuses deleted and
\* orphaned, which it refuses too, are set by what is not modelled.)
isTenantPlanWritable(p) == ~p.expired /\ p.on /\ p.status # "disabled"

\* An INSERT of a row under a new id.
Inserted(table, id, row) == [i \in DOMAIN table \cup {id} |-> IF i = id THEN row ELSE table[i]]

\* A commit in tenant t makes late the other requests at pc that read it before.
Late(r, t, pc) ==
  [q \in Slots |-> IF q \in Active \ {r} /\ reqs[q].tenant = t /\ reqs[q].pc = pc
                     THEN [reqs[q] EXCEPT !.late = TRUE] ELSE reqs[q]]

\* An admin of a tenant is gone: whoever deletes another one may have counted it.
AdminGone(r, u) == IF rows[u].role = "admin" THEN Late(r, rows[u].tenant, "commit") ELSE reqs

Goes(r, pc) == [reqs EXCEPT ![r].pc = pc]
Ends(r) == [reqs EXCEPT ![r] = None]

\* Row locks of a deletion that has not committed: other writers wait for them.
UserIsLocked(u) == \E r \in Active : reqs[r].pc = "commit" /\ reqs[r].user = u
TenantIsLocked(t) == \E r \in Active : reqs[r].pc = "commit" /\ reqs[r].warns /\ reqs[r].tenant = t

-----------------------------------------------------------------------------
\* Arrivals: the checks of the route, before the handler runs.

Arrive(op, a, u, t) ==
  /\ asked < MaxRequests /\ asked' = asked + 1
  /\ \E r \in Slots \ Active :
       reqs' = [reqs EXCEPT ![r] = [op |-> op, actor |-> a, user |-> u, tenant |-> t,
                                    pc |-> IF op \in {"view", "patch"} THEN "plan" ELSE "start",
                                    next |-> "end", plans |-> 0, limit |-> 0, warns |-> FALSE, late |-> FALSE]]
  /\ UNCHANGED <<rows, tenants, history>>

\* A platform administrator adds an admin to any tenant, an admin a viewer to
\* its own.
AskCreate(a, u, t) ==
  /\ requireFullAccess(a) /\ u \notin DOMAIN rows /\ t \in DOMAIN tenants
  /\ rows[a].role = "super_admin" \/ (rows[a].role = "admin" /\ t = rows[a].tenant)
  /\ Arrive("create", a, u, t)

\* Any admin looks at its plan; platform administrators patch plans.
AskPlan(op, a, t) ==
  /\ requireFullAccess(a) /\ t \in DOMAIN tenants
  /\ rows[a].role = "super_admin" \/ (op = "view" /\ rows[a].role = "admin" /\ t = rows[a].tenant)
  /\ Arrive(op, a, None, t)

\* (mutant) the account in use may be disabled or deleted
MayAddressItself(op, a, u) ==
  /\ Row(u) # None
  /\ \/ rows[a].role = "super_admin"
     \/ rows[a].role = "admin" /\ rows[u].role = "viewer" /\ rows[u].tenant = rows[a].tenant

\* Nobody disables or deletes the account in use.  An admin may only address
\* viewers of its own tenant.
MayAddress(op, a, u) ==
  /\ op = "enable" \/ u # a
  /\ Row(u) # None
  /\ \/ rows[a].role = "super_admin"
     \/ rows[a].role = "admin" /\ rows[u].role = "viewer" /\ rows[u].tenant = rows[a].tenant

AskUser(op, a, u) ==
  /\ requireFullAccess(a) /\ rows[a].role # "viewer" /\ MayAddress(op, a, u)
  /\ Arrive(op, a, u, None)

\* Deciding on a registration asks the role of the token only.
AskDecision(op, a, u) ==
  /\ a \in Roots /\ Row(u) # None
  /\ Arrive(op, a, u, None)

\* registerPublicTenantOwner: tenant, owner and membership, in one transaction.
registerPublicTenantOwner(u, t) ==
  /\ u \notin DOMAIN rows /\ t \notin DOMAIN tenants
  /\ tenants' = Inserted(tenants, t, [status |-> "pending_review", on |-> TRUE, expired |-> FALSE, limit |-> NewLimit])
  /\ rows' = Inserted(rows, u, [tenant |-> t, role |-> "admin", ustat |-> "pending_review", mstat |-> "pending_review"])
  /\ owners' = owners \cup {u}
  /\ UNCHANGED <<reqs, asked, touched, widened, usurped>>

\* The expiry date of a plan passes.
PlanExpires(t) ==
  /\ t \in DOMAIN tenants \ {Home} /\ ~tenants[t].expired
  /\ tenants' = [tenants EXCEPT ![t].expired = TRUE]
  /\ UNCHANGED <<rows, reqs, asked, history>>

-----------------------------------------------------------------------------
\* Plans.

\* (mutant) whatever may not be written to is switched off
unwritable(p) == ~isTenantPlanWritable(p) /\ p.on

\* syncTenantExpiry has something to do.
overdue(p) == p.expired /\ p.on

\* Where a request goes after its next getTenantPlan.  createUserByActor asks
\* assertTenantActive, then assertUserLimit, which asks it again; patchTenant
\* reads the plan for the audit, then updateTenantPlan reads it before and after.
AfterPlan(q) ==
  CASE q.op = "create" /\ q.plans = 0 -> "start"
    [] q.op = "create" /\ q.plans # 0 -> "limit"
    [] q.op = "patch" /\ q.plans = 0  -> "plan"
    [] q.op = "patch" /\ q.plans = 1  -> "write"
    [] OTHER                          -> "end"

\* assertTenantActive reads the row, switches an expired plan off, and throws
\* unless the plan may be written to.
assertTenantActive(r) ==
  LET q == reqs[r]  p == tenants[q.tenant] IN
  /\ q.op = "create" /\ q.pc = "start"
  /\ reqs' = IF overdue(p)
               THEN [reqs EXCEPT ![r].pc = "switchOff", ![r].next = "end", ![r].late = FALSE]
               ELSE IF isTenantPlanWritable(p) THEN Goes(r, "plan") ELSE Ends(r)
  /\ UNCHANGED <<rows, tenants, history>>

\* getTenantPlan, at the end of assertTenantActive too, reads the row once more,
\* switches it off if it has expired by now, and throws nothing: a creation goes
\* on with the limit of that row.
getTenantPlan(r) ==
  LET q == reqs[r]  p == tenants[q.tenant]
      read == [q EXCEPT !.next = AfterPlan(q), !.plans = @ + 1, !.limit = p.limit] IN
  /\ q.pc = "plan"
  /\ reqs' = IF overdue(p) THEN [reqs EXCEPT ![r] = [read EXCEPT !.pc = "switchOff", !.late = FALSE]]
             ELSE IF read.next = "end" THEN Ends(r)
             ELSE [reqs EXCEPT ![r] = [read EXCEPT !.pc = read.next]]
  /\ UNCHANGED <<rows, tenants, history>>

\* syncTenantExpiry writes what the row it holds asks for, whatever the row is
\* now.
syncTenantExpiry(r) ==
  /\ reqs[r].pc = "switchOff" /\ ~TenantIsLocked(reqs[r].tenant)
  /\ tenants' = [tenants EXCEPT ![reqs[r].tenant].on = FALSE]
  /\ reqs' = IF reqs[r].next = "end" THEN Ends(r) ELSE Goes(r, reqs[r].next)
  /\ UNCHANGED <<rows, history>>

\* updateTenantPlan: the fields that the body names, then the plan is read again.
Patched(p) ==
  {[p EXCEPT !.limit = n] : n \in Limits}
    \cup {[p EXCEPT !.on = b] : b \in BOOLEAN}
    \cup {[p EXCEPT !.expired = FALSE], [p EXCEPT !.expired = FALSE, !.on = TRUE]}

updateTenantPlan(r) ==
  /\ reqs[r].op = "patch" /\ reqs[r].pc = "write" /\ ~TenantIsLocked(reqs[r].tenant)
  /\ \E p \in Patched(tenants[reqs[r].tenant]) :
       /\ tenants' = [tenants EXCEPT ![reqs[r].tenant] = p]
       /\ widened' = IF p.limit # tenants[reqs[r].tenant].limit THEN widened \cup {reqs[r].tenant} ELSE widened
  /\ reqs' = [Late(r, reqs[r].tenant, "switchOff") EXCEPT ![r].pc = "plan"]
  /\ UNCHANGED <<rows, owners, touched, usurped>>

-----------------------------------------------------------------------------
\* Users.

\* (mutant) one place more than the plan has
userLimitReached(n, limit) == n > limit

\* What assertUserLimit compares.
limitReached(n, limit) == n >= limit

\* assertUserLimit counts the members and compares them with the plan it read.
assertUserLimit(r) ==
  /\ reqs[r].pc = "limit"
  /\ reqs' = IF limitReached(countUsersForTenant(reqs[r].tenant), reqs[r].limit) THEN Ends(r) ELSE Goes(r, "insert")
  /\ UNCHANGED <<rows, tenants, history>>

\* createUserByActor, once bcrypt is through: both rows in one transaction,
\* unless the name has been taken meanwhile.
createUserByActor(r) ==
  LET q == reqs[r] IN
  /\ q.pc = "insert" /\ ~TenantIsLocked(q.tenant)
  /\ rows' = IF q.user \in DOMAIN rows THEN rows
             ELSE Inserted(rows, q.user, [tenant |-> q.tenant, ustat |-> "active", mstat |-> "active",
                                          role |-> IF q.actor \in Roots THEN "admin" ELSE "viewer"])
  /\ reqs' = Ends(r)
  /\ UNCHANGED <<tenants, history>>

\* An actor that is itself out by now and touches a platform administrator.
Usurps(q) == rows[q.user].role = "super_admin" /\ q.actor \notin ActivePlatformAdmins

\* setUserStatusByActor writes both status columns in one transaction; an id that
\* is gone is not found.
setUserStatusByActor(r) ==
  LET q == reqs[r]  st == IF q.op = "enable" THEN "active" ELSE "disabled" IN
  /\ q.op \in {"enable", "disable"} /\ q.pc = "start" /\ ~UserIsLocked(q.user)
  /\ IF Row(q.user) = None
       THEN reqs' = Ends(r) /\ UNCHANGED <<rows, touched, widened, usurped>>
       ELSE /\ rows' = [rows EXCEPT ![q.user].ustat = st, ![q.user].mstat = st]
            /\ reqs' = [(IF st = "disabled" THEN AdminGone(r, q.user) ELSE reqs) EXCEPT ![r] = None]
            /\ touched' = touched \cup {q.user}
            /\ widened' = IF st = "active" THEN widened \cup {rows[q.user].tenant} ELSE widened
            /\ usurped' = (usurped \/ Usurps(q))
  /\ UNCHANGED <<tenants, owners>>

\* (mutant) the tenant of the membership is not kept
PendingWithoutTenant(r) ==
  LET q == reqs[r]  u == q.user IN
  /\ q.op \in {"approve", "reject"} /\ q.pc = "start"
  /\ reqs' = IF Row(u) # None /\ rows[u].mstat = "pending_review" THEN Goes(r, "decide") ELSE Ends(r)
  /\ UNCHANGED <<rows, tenants, history>>

\* approve and reject look for a pending membership first ...
ReadPending(r) ==
  LET q == reqs[r]  u == q.user IN
  /\ q.op \in {"approve", "reject"} /\ q.pc = "start"
  /\ reqs' = IF Row(u) # None /\ rows[u].role = "admin" /\ rows[u].mstat = "pending_review"
                  /\ (q.op = "reject" => rows[u].tenant # Home)
               THEN [reqs EXCEPT ![r].pc = "decide", ![r].tenant = rows[u].tenant]
               ELSE Ends(r)
  /\ UNCHANGED <<rows, tenants, history>>

\* ... and then approve turns what is still pending to active, row by row,
Opened(st) == IF st = "pending_review" THEN "active" ELSE st

\* (mutant) the tenant is opened whatever has happened to it
TenantOpenedAnyway(p) == [p EXCEPT !.status = "active"]

OpenedTenant(p) == [p EXCEPT !.status = Opened(@)]

\* (mutant) the user is opened whatever has happened to it
UserOpenedAnyway(row) == [row EXCEPT !.ustat = "active", !.mstat = Opened(@)]

OpenedRow(row) == [row EXCEPT !.ustat = Opened(@), !.mstat = Opened(@)]

approvePendingTenantOwner(r) ==
  LET q == reqs[r] IN
  /\ q.op = "approve" /\ q.pc = "decide" /\ ~UserIsLocked(q.user) /\ ~TenantIsLocked(q.tenant)
  /\ tenants' = [tenants EXCEPT ![q.tenant] = OpenedTenant(@)]
  /\ rows' = IF Row(q.user) = None THEN rows ELSE [rows EXCEPT ![q.user] = OpenedRow(@)]
  /\ reqs' = Ends(r)
  /\ UNCHANGED history

\* while reject disables all three without looking again.
rejectPendingTenantOwner(r) ==
  LET q == reqs[r] IN
  /\ q.op = "reject" /\ q.pc = "decide" /\ ~UserIsLocked(q.user) /\ ~TenantIsLocked(q.tenant)
  /\ tenants' = [tenants EXCEPT ![q.tenant].status = "disabled"]
  /\ rows' = IF Row(q.user) = None THEN rows
             ELSE [rows EXCEPT ![q.user].ustat = "disabled", ![q.user].mstat = "disabled"]
  /\ reqs' = [(IF Row(q.user) = None THEN reqs ELSE AdminGone(r, q.user)) EXCEPT ![r] = None]
  /\ UNCHANGED history

\* deleteUserByActor refuses every platform administrator: the last one by a
\* count, the others because they are neither admin nor viewer.
CheckDelete(r) ==
  LET u == reqs[r].user IN
  /\ reqs[r].op = "delete" /\ reqs[r].pc = "start"
  /\ reqs' = IF Row(u) = None \/ rows[u].role = "super_admin"
               THEN Ends(r)
               ELSE [reqs EXCEPT ![r].pc = "remove", ![r].tenant = rows[u].tenant,
                                 ![r].warns = rows[u].role = "admin"]
  /\ UNCHANGED <<rows, tenants, history>>

\* (mutant) the tenant of an admin is left as it is
neverWarns(t, u) == FALSE

\* softDeleteTenantIfNoActiveAdmin: a tenant that loses its last active admin is
\* marked, unless it is the protected one.
softDeleteTenantIfNoActiveAdmin(t, u) == countActiveTenantAdmins(t, u) = 0 /\ t # Home

\* Inside the transaction: the rows are deleted, then the admins that are left
\* are counted.  The count is a snapshot: it sees this transaction's deletes and
\* what others have committed.
RemoveRows(r) ==
  LET q == reqs[r] IN
  /\ q.pc = "remove" /\ ~UserIsLocked(q.user)
  /\ reqs' = [reqs EXCEPT ![r].pc = "commit", ![r].late = FALSE,
                          ![r].warns = @ /\ softDeleteTenantIfNoActiveAdmin(q.tenant, q.user)]
  /\ UNCHANGED <<rows, tenants, history>>

CommitDelete(r) ==
  LET q == reqs[r] IN
  /\ q.pc = "commit"
  /\ rows' = [rows EXCEPT ![q.user] = None]
  /\ tenants' = IF q.warns THEN [tenants EXCEPT ![q.tenant].status = "warning"] ELSE tenants
  /\ reqs' = [(IF Row(q.user) = None THEN reqs ELSE AdminGone(r, q.user)) EXCEPT ![r] = None]
  /\ UNCHANGED history

-----------------------------------------------------------------------------
Step(r) ==
  \/ assertTenantActive(r) \/ getTenantPlan(r) \/ syncTenantExpiry(r) \/ updateTenantPlan(r)
  \/ assertUserLimit(r) \/ createUserByActor(r)
  \/ setUserStatusByActor(r)
  \/ ReadPending(r) \/ approvePendingTenantOwner(r) \/ rejectPendingTenantOwner(r)
  \/ CheckDelete(r) \/ RemoveRows(r) \/ CommitDelete(r)

Ask ==
  \/ \E a \in DOMAIN rows, u \in Users, t \in Tenants : AskCreate(a, u, t)
  \/ \E a \in DOMAIN rows, t \in Tenants, op \in {"view", "patch"} : AskPlan(op, a, t)
  \/ \E a, u \in DOMAIN rows, op \in {"enable", "disable", "delete"} : AskUser(op, a, u)
  \/ \E a, u \in DOMAIN rows, op \in {"approve", "reject"} : AskDecision(op, a, u)

Next ==
  \/ Ask
  \/ \E u \in Users, t \in Tenants : registerPublicTenantOwner(u, t)
  \/ \E t \in Tenants : PlanExpires(t)
  \/ \E r \in Active : Step(r) /\ UNCHANGED asked

Spec == Init /\ [][Next]_vars

-----------------------------------------------------------------------------
\* Properties.

\* Additions that overlap exceed the plan by their number less one and never by
\* more: each was let through below the limit, whatever the others did between
\* its count and its insert.  (A limit patched and a member enabled by hand do
\* not ask for the number of members.)
OverrunIsBounded ==
  [][\A r \in Active, t \in DOMAIN tenants \ widened :
       (reqs[r].pc = "insert" /\ reqs[r].tenant = t /\ reqs'[r] = None)
          => countUsersForTenant(t)' <= tenants[t].limit + Cardinality(Slots) - 1]_vars

\* A registered owner, its membership and its tenant are pending, opened and
\* refused as one, however approvals, refusals and second clicks overlap; except
\* that an administrator's own status change goes its own way, and that a tenant
\* that has lost all admins is marked.
OwnerAndTenantAgree ==
  \A u \in owners \ touched :
    rows[u] # None => /\ rows[u].mstat = rows[u].ustat
                      /\ tenants[rows[u].tenant].status \in {rows[u].ustat, "warning"}

\* The platform keeps an active administrator.  Disabling counts nobody: what
\* saves the last one is that nobody disables himself and that deleting refuses
\* platform administrators.  Only a request whose actor was shut out while it
\* was under way can take the last one.
SomePlatformAdmin == usurped \/ ActivePlatformAdmins # {}

\* Deleting the last active admin of a customer's tenant never leaves the tenant
\* looking normal, unless another admin was deleted, disabled or refused between
\* this request's count and its commit; the default tenant is never marked.  The
\* mark is the status "warning": two documents promise status "deleted" with the
\* shops, jobs and users shut, which the code has given up (see the README).
AdminlessIsFlagged ==
  [][\A r \in Active, t \in DOMAIN tenants :
       (reqs[r].pc = "commit" /\ reqs[r].tenant = t /\ ~reqs[r].late /\ reqs'[r] = None
          /\ Row(reqs[r].user) # None /\ rows[reqs[r].user].role = "admin")
          => /\ countActiveTenantAdmins(t, None)' > 0 \/ t = Home \/ tenants'[t].status = "warning"
             /\ tenants'[Home].status = "active"]_vars

\* A plan that is on and has not expired is switched off by an administrator's
\* patch only, or by a request that read it as expired and has been overtaken by
\* a patch since: the renewal.  Nothing switches it on again then,
\* since the clean-up of expiries only ever writes 0.
RenewedStaysOn ==
  [][\A t \in DOMAIN tenants :
       (tenants[t].on /\ ~tenants[t].expired /\ ~tenants'[t].on)
          => \E r \in Active : /\ reqs[r].tenant = t /\ (reqs'[r] = None \/ reqs'[r].pc # reqs[r].pc)
                               /\ reqs[r].pc = "write" \/ (reqs[r].pc = "switchOff" /\ reqs[r].late)]_vars
=============================================================================
