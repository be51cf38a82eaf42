------------------------------ MODULE Dispatch ------------------------------
(***************************************************************************)
(* Orders, route plans and routing jobs of one service date, and the       *)
(* transactions of the dispatch services on them: run_dispatch_job,        *)
(* publish, unassign, move, assign, insert and the order endpoints.        *)
(*                                                                         *)
(* PostgreSQL runs at READ COMMITTED.  A service method is split where it  *)
(* reads a row it does not hold: `Begin' steps are the reads and the locks *)
(* taken first, the `Commit' step takes the remaining locks, writes and    *)
(* commits.  A row that a session has read without FOR UPDATE stays in its *)
(* identity map: transition_order locks the row later but goes on with the *)
(* status read before.  The fields `seen' and `snap' hold such statuses;   *)
(* where the code locks before it reads, the model reads the committed     *)
(* status.  A transaction that fails or is killed leaves no trace but the  *)
(* locks it gives back (Rollback).                                         *)
(***************************************************************************)
EXTENDS OrderStates, RoutingJobs

CONSTANTS
    Orders,
    Drivers,
    Region,         \* Region[d]: the district of a driver, a member of Scopes
    NoDriver,       \* no assignment row
    PlanIds,        \* 1..n: bound on the route_plans rows
    NoPlan,
    NoJob,          \* routing_job_id of a plan no job wrote
    Requests,       \* HTTP requests served at the same time
    NoSnap,         \* a job that holds no orders in memory
    ManualTargets,  \* bound: the statuses dispatchers set by hand
    MaxOpen         \* bound: transactions on orders and plans open at once

ASSUME DispatchAssumption ==
    /\ Region \in [Drivers -> Scopes]
    /\ NoDriver \notin Drivers
    /\ PlanIds \subseteq Nat \ {0}
    /\ IsFiniteSet(PlanIds) /\ IsFiniteSet(Jobs) /\ IsFiniteSet(Requests)
    /\ NoPlan \notin PlanIds
    /\ NoJob \notin Jobs
    /\ ManualTargets \subseteq OrderStatus
    /\ MaxOpen \in Nat

VARIABLES
    status,   \* status[o]: orders.status, committed
    located,  \* the orders whose coordinates are usable
    plan,     \* plan[p]: a route_plans row with its route_assignments
    req,      \* req[r]: what the open transaction of a request holds
    snap      \* snap[j]: the orders a job has read and not yet written

dispatchVars == <<status, located, plan, req, snap>>
vars == <<dispatchVars, jobVars>>

-----------------------------------------------------------------------------
(* Rows and the queries on them.                                             *)

PlanStatus == {"absent", "draft", "published", "archived"}

(* route[o] is the driver whose route_assignments row lists o.  job is       *)
(* routing_job_id, immediate is stats.contains_immediate_assignments, pub    *)
(* ranks published_at.                                                       *)
PlanRow(st, s, j, imm, pub, route) ==
    [status |-> st, district |-> s, job |-> j, immediate |-> imm, pub |-> pub,
     route |-> route]

EmptyRoute == [o \in Orders |-> NoDriver]
AbsentPlan == PlanRow("absent", NoScope, NoJob, FALSE, 0, EmptyRoute)

DriversOf(s) == {d \in Drivers : Region[d] = s}
Routed(p) == {o \in Orders : plan[p].route[o] # NoDriver}
WithStatus(st) == {p \in PlanIds : plan[p].status = st}
Published == WithStatus("published")
PublishedIn(s) == {p \in Published : plan[p].district = s}

(* published_for_date: the latest of a set of published plans.               *)
Latest(S) == CHOOSE p \in S : \A q \in S : plan[q].pub <= plan[p].pub
LatestOrNone(S) == IF S = {} THEN NoPlan ELSE Latest(S)

(* published_at of a plan published now.                                     *)
NextPub == Cardinality({p \in PlanIds : plan[p].pub # 0}) + 1

(* The id of a plan row inserted now.                                        *)
FreshPlan(p) == /\ plan[p].status = "absent"
                /\ \A q \in PlanIds : q < p => plan[q].status # "absent"

(* get_assigned_driver_id finds a row.                                       *)
HasPublishedDriver(o) == \E p \in Published : o \in Routed(p)

(* list_for_dispatch: pending orders no other district has planned.          *)
Dispatchable(s) ==
    {o \in Orders :
        /\ status[o] \in Pending
        /\ ~ \E p \in WithStatus("draft") \cup Published :
                plan[p].district # s /\ o \in Routed(p)}

(* Rows of routes rebuilt by the engine lose orders it cannot place on a map.*)
Rebuilt(route, rebuiltDrivers) ==
    [o \in Orders |->
        IF route[o] \in rebuiltDrivers /\ o \notin located THEN NoDriver ELSE route[o]]

-----------------------------------------------------------------------------
(* Open transactions and the row locks they hold.                            *)

Ops == {"idle", "archiving", "publishing", "unassign", "assign", "insert", "patch"}

Idle == [op |-> "idle", plan |-> NoPlan, order |-> {}, driver |-> NoDriver,
         seen |-> <<>>, previous |-> {}]

IsIdle(r) == req[r].op = "idle"
Computing(j) == snap[j] # NoSnap

OpenCount == Cardinality({r \in Requests : ~ IsIdle(r)})
             + Cardinality({j \in Jobs : Computing(j)})

(* Bound: at most MaxOpen transactions on orders and plans overlap.          *)
CanOpen == OpenCount < MaxOpen

(* publish, unassign: the plan row first, then the plans being archived;     *)
(* assign, insert: the order row first.                                      *)
LocksPlan(r, p) ==
    \/ req[r].op \in {"archiving", "publishing", "unassign"} /\ req[r].plan = p
    \/ req[r].op = "publishing" /\ p \in req[r].previous

(* Mutant of LocksOrder: assign reads the order without FOR UPDATE.          *)
LocksOrderToInsert(r, o) == req[r].op = "insert" /\ o \in req[r].order

LocksOrder(r, o) == req[r].op \in {"assign", "insert"} /\ o \in req[r].order

(* Mutants of PlanFree and OrderFree: rows are read without waiting.         *)
PlanUnlocked(p) == p \in PlanIds
PlanFree(p) == \A r \in Requests : ~ LocksPlan(r, p)
OrderFree(o) == \A r \in Requests : ~ LocksOrder(r, o)
PlanFreeFor(r, p) == \A x \in Requests \ {r} : ~ LocksPlan(x, p)

Open(r, rec) == IsIdle(r) /\ CanOpen /\ req' = [req EXCEPT ![r] = rec]
Close(r) == req' = [req EXCEPT ![r] = Idle]

(* Orders of S are written with status to.                                   *)
Write(S, to) == status' = [o \in Orders |-> IF o \in S THEN to ELSE status[o]]

-----------------------------------------------------------------------------
DispatchInit ==
    /\ JobsInit
    /\ status = [o \in Orders |-> "created"]
    /\ located \in SUBSET Orders
    /\ plan = [p \in PlanIds |-> AbsentPlan]
    /\ req = [r \in Requests |-> Idle]
    /\ snap = [j \in Jobs |-> NoSnap]

(***************************************************************************)
(* run_dispatch_job after its claim.                                       *)
(***************************************************************************)

(* The orders are loaded and stay in the session while solve runs.           *)
ReadOrders(j) ==
    /\ j \in computing
    /\ ~ Computing(j)
    /\ CanOpen
    /\ snap' = [snap EXCEPT ![j] =
            [o \in Dispatchable(job[j].scope) |->
                [status |-> status[o], placeable |-> o \in located]]]
    /\ UNCHANGED <<status, located, plan, req, jobVars>>

(* What solve may answer: each order on a route of an online driver of the   *)
(* district, or unassigned; an order without coordinates is rejected.        *)
Solutions(j) ==
    {sol \in [DOMAIN snap[j] -> DriversOf(job[j].scope) \cup {NoDriver}] :
        \A o \in DOMAIN snap[j] : ~ snap[j][o].placeable => sol[o] = NoDriver}

(* _scheduled does nothing for an order it remembers as scheduled; every     *)
(* unassigned order is moved to exception.                                   *)
ScheduledBy(j, sol) ==
    {o \in DOMAIN sol : sol[o] # NoDriver /\ snap[j][o].status # "scheduled"}
RejectedBy(sol) == {o \in DOMAIN sol : sol[o] = NoDriver}

(* The second transaction: the draft, its routes, the statuses and done.     *)
DraftPlan(j) ==
    /\ Computing(j)
    /\ \E p \in PlanIds, sol \in Solutions(j) :
        /\ FreshPlan(p)
        /\ FinishJob(j)
        /\ \A o \in ScheduledBy(j, sol) \cup RejectedBy(sol) : OrderFree(o)
        /\ plan' = [plan EXCEPT ![p] = PlanRow("draft", job[j].scope, j, FALSE, 0,
                [o \in Orders |-> IF o \in DOMAIN sol THEN sol[o] ELSE NoDriver])]
        /\ status' = [o \in Orders |->
                IF o \in RejectedBy(sol) THEN "exception"
                ELSE IF o \in ScheduledBy(j, sol) THEN "scheduled" ELSE status[o]]
        /\ snap' = [snap EXCEPT ![j] = NoSnap]
        /\ UNCHANGED <<located, req>>

(* The computation, or the announcement of its plan, raises.                 *)
AbandonPlan(j) ==
    /\ FailJob(j)
    /\ snap' = [snap EXCEPT ![j] = NoSnap]
    /\ UNCHANGED <<status, located, plan, req>>

(* The worker dies: rolled back, still running.                              *)
LosePlan(j) ==
    /\ \E kept \in BOOLEAN : KillJob(j, kept)
    /\ snap' = [snap EXCEPT ![j] = NoSnap]
    /\ UNCHANGED <<status, located, plan, req>>

(***************************************************************************)
(* PlansService.publish                                                    *)
(***************************************************************************)

(* Mutant of PublishBegin: the plan published before is not looked up.       *)
PublishBeside(r, p) ==
    /\ plan[p].status = "draft"
    /\ PlanFree(p)
    /\ Open(r, [Idle EXCEPT !.op = "archiving", !.plan = p])
    /\ UNCHANGED <<status, located, plan, snap, jobVars>>

(* The draft is locked, the plans it replaces are read without a lock.       *)
PublishBegin(r, p) ==
    /\ plan[p].status = "draft"
    /\ PlanFree(p)
    /\ Open(r, [Idle EXCEPT !.op = "archiving", !.plan = p,
            !.previous = {q \in PublishedIn(plan[p].district) : ~ plan[q].immediate}])
    /\ UNCHANGED <<status, located, plan, snap, jobVars>>

(* Reading the assignments flushes the archived plans, which locks them;     *)
(* the orders are then read without a lock.                                  *)
PublishRead(r) ==
    /\ req[r].op = "archiving"
    /\ \A q \in req[r].previous : PlanFreeFor(r, q)
    /\ req' = [req EXCEPT ![r].op = "publishing",
                          ![r].seen = [o \in Routed(req[r].plan) |-> status[o]]]
    /\ UNCHANGED <<status, located, plan, snap, jobVars>>

(* Mutants of PublishedOrders: every order of the plan is moved; or only     *)
(* those that are scheduled.                                                 *)
AllOfThePlan(r) == DOMAIN req[r].seen
OnlyScheduled(r) == {o \in DOMAIN req[r].seen : req[r].seen[o] = "scheduled"}

(* The orders remembered as pending, which publish moves to assigned.        *)
PublishedOrders(r) == {o \in DOMAIN req[r].seen : req[r].seen[o] \in Pending}

PublishCommit(r) ==
    /\ req[r].op = "publishing"
    /\ \A o \in PublishedOrders(r) : OrderFree(o)
    /\ Write(PublishedOrders(r), "assigned")
    /\ plan' = [p \in PlanIds |->
            IF p = req[r].plan THEN [plan[p] EXCEPT !.status = "published", !.pub = NextPub]
            ELSE IF p \in req[r].previous THEN [plan[p] EXCEPT !.status = "archived"]
            ELSE plan[p]]
    /\ Close(r)
    /\ UNCHANGED <<located, snap, jobVars>>

(***************************************************************************)
(* PlansService.unassign and move: only on a locked draft.                 *)
(***************************************************************************)

(* Mutant of UnassignBegin: the draft is read without a lock.                *)
UnassignUnlocked(r, p, o) ==
    /\ plan[p].status = "draft"
    /\ o \in Routed(p)
    /\ Open(r, [Idle EXCEPT !.op = "unassign", !.plan = p, !.seen = [x \in {o} |-> status[x]]])
    /\ UNCHANGED <<status, located, plan, snap, jobVars>>

UnassignBegin(r, p, o) ==
    /\ plan[p].status = "draft"
    /\ PlanFree(p)
    /\ o \in Routed(p)
    /\ Open(r, [Idle EXCEPT !.op = "unassign", !.plan = p, !.seen = [x \in {o} |-> status[x]]])
    /\ UNCHANGED <<status, located, plan, snap, jobVars>>

(* The order, as remembered, is one that _transition_to_exception moves.     *)
RejectedOrders(r) ==
    {o \in DOMAIN req[r].seen : req[r].seen[o] \in {"created", "scheduled", "assigned"}}

UnassignCommit(r) ==
    /\ req[r].op = "unassign"
    /\ \A o \in RejectedOrders(r) : OrderFree(o)
    /\ Write(RejectedOrders(r), "exception")
    /\ plan' = [plan EXCEPT ![req[r].plan].route =
            [o \in Orders |-> IF o \in DOMAIN req[r].seen THEN NoDriver ELSE @[o]]]
    /\ Close(r)
    /\ UNCHANGED <<located, snap, jobVars>>

(* One step: nothing it decides on is read without the plan's lock.          *)
MoveOrder(p, o, d) ==
    /\ CanOpen
    /\ plan[p].status = "draft"
    /\ PlanFree(p)
    /\ o \in Routed(p) \cap located
    /\ Region[d] = plan[p].district
    /\ plan' = [plan EXCEPT ![p].route =
            [Rebuilt(@, {d, @[o]}) EXCEPT ![o] = d]]
    /\ UNCHANGED <<status, located, req, snap, jobVars>>

(***************************************************************************)
(* AssignmentService.assign                                                *)
(***************************************************************************)

(* The order is locked and checked; the plan it will join is read without a  *)
(* lock.  Any active driver with enough seats may be named.                  *)
AssignBegin(r, o, d) ==
    /\ OrderFree(o)
    /\ status[o] \in Pending
    /\ ~ HasPublishedDriver(o)
    /\ o \in located
    /\ Open(r, [Idle EXCEPT !.op = "assign", !.order = {o}, !.driver = d,
            !.plan = LatestOrNone(PublishedIn(Region[d]))])
    /\ UNCHANGED <<status, located, plan, snap, jobVars>>

(* The day has no plan in that district: one is created, published.          *)
AssignToNewPlan(r, p) ==
    /\ req[r].op = "assign"
    /\ req[r].plan = NoPlan
    /\ FreshPlan(p)
    /\ plan' = [plan EXCEPT ![p] = PlanRow("published", Region[req[r].driver], NoJob,
            TRUE, NextPub, [o \in Orders |-> IF o \in req[r].order THEN req[r].driver ELSE NoDriver])]
    /\ Write(req[r].order, "assigned")
    /\ Close(r)
    /\ UNCHANGED <<located, snap, jobVars>>

(* The plan found is locked and gets one more row; its status is not read    *)
(* again.                                                                    *)
AssignToPlan(r) ==
    /\ req[r].op = "assign"
    /\ req[r].plan # NoPlan
    /\ PlanFree(req[r].plan)
    /\ plan' = [plan EXCEPT
            ![req[r].plan].immediate = TRUE,
            ![req[r].plan].route =
                [o \in Orders |-> IF o \in req[r].order THEN req[r].driver ELSE @[o]]]
    /\ Write(req[r].order, "assigned")
    /\ Close(r)
    /\ UNCHANGED <<located, snap, jobVars>>

(***************************************************************************)
(* DispatchService.insert                                                  *)
(***************************************************************************)

(* The order is locked; the latest published plan of the day, of whatever    *)
(* district, is read without a lock.                                         *)
InsertBegin(r, o) ==
    /\ OrderFree(o)
    /\ Published # {}
    /\ Open(r, [Idle EXCEPT !.op = "insert", !.order = {o}, !.plan = Latest(Published)])
    /\ UNCHANGED <<status, located, plan, snap, jobVars>>

(* The plan is locked and its rows are read: the order must not be there.    *)
InsertAllowed(r) ==
    /\ req[r].op = "insert"
    /\ PlanFree(req[r].plan)
    /\ req[r].order \cap Routed(req[r].plan) = {}

(* online_insert finds a driver of the plan; the routes are written anew.    *)
InsertPlaced(r, d) ==
    /\ InsertAllowed(r)
    /\ req[r].order \subseteq located
    /\ \A o \in req[r].order : status[o] \in Pending
    /\ LET old == plan[req[r].plan].route
           used == {old[o] : o \in Routed(req[r].plan)}
       IN  /\ d \in used \cup DriversOf(plan[req[r].plan].district)
           /\ plan' = [plan EXCEPT ![req[r].plan].route =
                  [o \in Orders |-> IF o \in req[r].order THEN d ELSE Rebuilt(old, used)[o]]]
    /\ Write(req[r].order, "assigned")
    /\ Close(r)
    /\ UNCHANGED <<located, snap, jobVars>>

(* No route takes the order, or it has no coordinates: _exception.           *)
InsertRejected(r) ==
    /\ InsertAllowed(r)
    /\ Write({o \in req[r].order : status[o] \in Pending}, "exception")
    /\ Close(r)
    /\ UNCHANGED <<located, plan, snap, jobVars>>

(* A request ends without writing: an error answer, a deadlock victim, a     *)
(* lost connection or process.                                               *)
Rollback(r) ==
    /\ ~ IsIdle(r)
    /\ Close(r)
    /\ UNCHANGED <<status, located, plan, snap, jobVars>>

(***************************************************************************)
(* OrdersService.patch: the address of an order.                           *)
(***************************************************************************)

Editable == {"created", "scheduled"}
Correctable == {"assigned", "driver_en_route", "picked_up"}

(* get_visible reads the order without a lock.  Its client and dispatchers   *)
(* may edit it before it is assigned, a driver of it may correct it later;   *)
(* the check made after the lock sees the status of this read.               *)
PatchBegin(r, o) ==
    /\ \/ status[o] \in Editable
       \/ status[o] \in Correctable /\ HasPublishedDriver(o)
    /\ Open(r, [Idle EXCEPT !.op = "patch", !.order = {o}])
    /\ UNCHANGED <<status, located, plan, snap, jobVars>>

(* The order is locked and written: its coordinates are given or cleared.    *)
PatchCommit(r) ==
    /\ req[r].op = "patch"
    /\ \A o \in req[r].order : OrderFree(o)
    /\ located' \in {located \cup req[r].order, located \ req[r].order}
    /\ Close(r)
    /\ UNCHANGED <<status, plan, snap, jobVars>>

(***************************************************************************)
(* Endpoints that lock one order, read it and commit: single steps.  The   *)
(* order that get_visible reads first is dropped by the session before the *)
(* locked read, which therefore sees the committed status.                 *)
(***************************************************************************)

TransitionOrder(o, to) ==
    /\ CanOpen
    /\ OrderFree(o)
    /\ CanMove(status[o], to)
    /\ Write({o}, to)
    /\ UNCHANGED <<located, plan, req, snap, jobVars>>

(* POST /orders/{id}/cancel, by the client or a dispatcher.                  *)
CancelOrder(o) == TransitionOrder(o, "cancelled")

(* POST /orders/{id}/transition, by a dispatcher.                            *)
ManualTransition(o, to) == to \in ManualTargets /\ TransitionOrder(o, to)

(* POST /orders/{id}/driver-transition, by a driver of a published plan.     *)
DriverTransition(o, to) ==
    /\ to \in {"driver_en_route", "picked_up", "completed"}
    /\ HasPublishedDriver(o)
    /\ TransitionOrder(o, to)

(* DELETE /auth/me of the order's client erases the coordinates.             *)
EraseOrder(o) ==
    /\ CanOpen
    /\ o \in located
    /\ OrderFree(o)
    /\ located' = located \ {o}
    /\ UNCHANGED <<status, plan, req, snap, jobVars>>

-----------------------------------------------------------------------------
JobStep(j) == ReadOrders(j) \/ DraftPlan(j) \/ AbandonPlan(j) \/ LosePlan(j)

PublishStep(r) ==
    (\E p \in PlanIds : PublishBegin(r, p)) \/ PublishRead(r) \/ PublishCommit(r)

UnassignStep(r) ==
    (\E p \in PlanIds, o \in Orders : UnassignBegin(r, p, o)) \/ UnassignCommit(r)

AssignStep(r) ==
    \/ \E o \in Orders, d \in Drivers : AssignBegin(r, o, d)
    \/ \E p \in PlanIds : AssignToNewPlan(r, p)
    \/ AssignToPlan(r)

InsertStep(r) ==
    \/ \E o \in Orders : InsertBegin(r, o)
    \/ \E d \in Drivers : InsertPlaced(r, d)
    \/ InsertRejected(r)

PatchStep(r) == (\E o \in Orders : PatchBegin(r, o)) \/ PatchCommit(r)

RequestStep(r) ==
    \/ PublishStep(r)
    \/ UnassignStep(r)
    \/ AssignStep(r)
    \/ InsertStep(r)
    \/ PatchStep(r)
    \/ Rollback(r)

OrderStep(o) ==
    \/ CancelOrder(o)
    \/ \E to \in OrderStatus : ManualTransition(o, to) \/ DriverTransition(o, to)
    \/ EraseOrder(o)
    \/ \E p \in PlanIds, d \in Drivers : MoveOrder(p, o, d)

DispatchNext ==
    \/ JobsOnlyStep /\ UNCHANGED dispatchVars
    \/ \E j \in Jobs : JobStep(j)
    \/ \E r \in Requests : RequestStep(r)
    \/ \E o \in Orders : OrderStep(o)

DispatchSpec == DispatchInit /\ [][DispatchNext]_vars

-----------------------------------------------------------------------------
(* Statuses remembered for some of the orders.                               *)
Seen == UNION {[S -> OrderStatus] : S \in SUBSET Orders}

Routes == [Orders -> Drivers \cup {NoDriver}]
PlanRows ==
    [status : PlanStatus, district : Scopes \cup {NoScope}, job : Jobs \cup {NoJob},
     immediate : BOOLEAN, pub : Nat, route : Routes]
Transactions ==
    {t \in [op : Ops, plan : PlanIds \cup {NoPlan}, order : SUBSET Orders,
            driver : Drivers \cup {NoDriver}, seen : Seen, previous : SUBSET PlanIds] :
        t.op = "assign" => t.driver \in Drivers}

PlansTypeOK == plan \in [PlanIds -> PlanRows]
RequestsTypeOK == req \in [Requests -> Transactions]
StatusesTypeOK == status \in [Orders -> OrderStatus]

DispatchTypeOK ==
    /\ JobsTypeOK
    /\ StatusesTypeOK
    /\ located \subseteq Orders
    /\ PlansTypeOK
    /\ RequestsTypeOK
    /\ DOMAIN snap = Jobs

(* A plan that left draft: drivers may have been told about it.              *)
Issued(p) == plan[p].status \in {"published", "archived"}

(* What an open transaction read under a lock, or before taking one, is      *)
(* still so when it commits: a draft being published or edited is a draft    *)
(* (HeldDrafts), plans to be archived or extended were issued (HeldIssued),  *)
(* an order being assigned is on no route of the plan it joins (NotRouted)   *)
(* and no two transactions share a row (LocksExclusive).                     *)
HeldDrafts ==
    \A r \in Requests :
        req[r].op \in {"archiving", "publishing", "unassign"} =>
            req[r].plan \in WithStatus("draft")

HeldIssued ==
    \A r \in Requests :
        /\ \A p \in req[r].previous : Issued(p)
        /\ req[r].op \in {"assign", "insert"} /\ req[r].plan # NoPlan => Issued(req[r].plan)
        /\ req[r].op = "insert" => req[r].plan # NoPlan

NotRouted ==
    \A r \in Requests :
        req[r].op = "assign" /\ req[r].plan # NoPlan =>
            req[r].order \cap Routed(req[r].plan) = {}

LocksExclusive ==
    \A r, x \in Requests : r # x =>
        /\ \A p \in PlanIds : ~ (LocksPlan(r, p) /\ LocksPlan(x, p))
        /\ \A o \in Orders : ~ (LocksOrder(r, o) /\ LocksOrder(x, o))

OpenTransactionsSound == HeldDrafts /\ HeldIssued /\ NotRouted /\ LocksExclusive

Lifecycle == INSTANCE OrderLifecycle WITH Orders <- Orders, status <- status

(* Each committed transaction moves orders by the machine of order_state.py. *)
ImplementsLifecycle == Lifecycle!LifecycleSpec

(* A plan that was issued keeps each of its orders with the same driver as   *)
(* long as the order can be placed on a map ...                              *)
IssuedRoutesStay ==
    \A p \in PlanIds : Issued(p) =>
        \A o \in Routed(p) \cap located : plan'[p].route[o] = plan[p].route[o]

(* ... and plans only move from draft to published to archived.              *)
PlansAdvance ==
    \A p \in PlanIds : <<plan[p].status, plan'[p].status>> \in
            {<<s, s>> : s \in PlanStatus} \cup
            {<<"absent", "draft">>, <<"absent", "published">>,
             <<"draft", "published">>, <<"published", "archived">>}

(* What drivers were told stays, whatever edits, publications, assignments   *)
(* and re-insertions overlap (the two formulas above).                       *)
PublishedPlansAreStable == [][IssuedRoutesStay /\ PlansAdvance]_vars

(* A district has at most one published plan besides those that immediate    *)
(* assignments were added to: publish archives the one before.               *)
OnePlanInForce ==
    \A p, q \in Published :
        plan[p].district = plan[q].district /\ ~ plan[p].immediate /\ ~ plan[q].immediate
            => p = q

(* A done job has one plan, a failed one at most one and a job that is still *)
(* to run none: no redelivery or dying worker makes a second draft.          *)
OnePlanPerDoneJob ==
    \A j \in Jobs :
        LET plans == Cardinality({p \in PlanIds : plan[p].job = j})
        IN  CASE job[j].status = "done" -> plans = 1
              [] job[j].status = "failed" -> plans <= 1
              [] OTHER -> plans = 0

(* Drafts of different districts share no order: list_for_dispatch leaves    *)
(* out what another district has planned.                                    *)
DistrictsPlanDisjointOrders ==
    \A p, q \in WithStatus("draft") :
        plan[p].district # plan[q].district => Routed(p) \cap Routed(q) = {}

(* Without overlapping transactions plans do not collide, whatever workers,  *)
(* redeliveries, publications and edits come in between: neither over a      *)
(* district, nor over an order, nor over the job they come from (the three   *)
(* formulas above).                                                          *)
PlansDoNotCollide == OnePlanInForce /\ OnePlanPerDoneJob /\ DistrictsPlanDisjointOrders

(* Once a plan is published no order in it still waits to be planned.        *)
PublishLeavesNothingPending ==
    [][\A p \in PlanIds :
        p \notin Published /\ plan'[p].status = "published" =>
            \A o \in Orders : plan'[p].route[o] # NoDriver => status'[o] \notin Pending]_vars

(* Immediate dispatch: no order is in two published plans, and none that is  *)
(* still pending is in any.                                                  *)
AssignedOnce ==
    \A o \in Orders :
        LET carriers == {p \in Published : o \in Routed(p)}
        IN  /\ Cardinality(carriers) <= 1
            /\ status[o] \in Pending => carriers = {}

=============================================================================
