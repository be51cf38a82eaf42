--------------------------- MODULE DispatchProofs ---------------------------
(***************************************************************************)
(* Theorems about Dispatch for every set of orders, drivers, plans, jobs   *)
(* and concurrent requests.  Whatever overlaps: its jobs behave as         *)
(* RoutingJobs says and make one plan each, its rows have their types,     *)
(* what an open transaction relies on is still so when it commits, and     *)
(* therefore issued plans keep the orders drivers were told about.  With   *)
(* transactions one at a time (MaxOpen = 1): it implements OrderLifecycle, *)
(* publishing leaves no order pending and plans do not collide.  Without   *)
(* drafts: each order is assigned once, whatever overlaps.                 *)
(***************************************************************************)
EXTENDS Dispatch, RoutingJobsProofs, FiniteSetTheorems, WellFoundedInduction

-----------------------------------------------------------------------------
(* Dispatch implements RoutingJobs.                                          *)

LEMMA JobsStepInDispatch == [DispatchNext]_vars => [JobsNext]_jobVars
    <1> SUFFICES ASSUME [DispatchNext]_vars PROVE [JobsNext]_jobVars
        OBVIOUS
    <1>1. CASE JobsOnlyStep
        BY <1>1 DEF JobsNext
    <1>2. ASSUME NEW j \in Jobs, JobStep(j) PROVE [JobsNext]_jobVars
        BY <1>2
        DEF JobStep, ReadOrders, DraftPlan, AbandonPlan, LosePlan, JobsNext
    <1>3. ASSUME NEW r \in Requests, RequestStep(r) PROVE UNCHANGED jobVars
        BY <1>3
        DEF RequestStep, PublishStep, UnassignStep, AssignStep, InsertStep, PatchStep,
            PatchBegin, PatchCommit, PublishBegin, PublishRead, PublishCommit, UnassignBegin,
            UnassignCommit, AssignBegin, AssignToNewPlan, AssignToPlan, InsertBegin,
            InsertPlaced, InsertRejected, Rollback
    <1>4. ASSUME NEW o \in Orders, OrderStep(o) PROVE UNCHANGED jobVars
        BY <1>4
        DEF OrderStep, CancelOrder, ManualTransition, DriverTransition, TransitionOrder,
            EraseOrder, MoveOrder
    <1>5. CASE UNCHANGED vars
        BY <1>5 DEF vars
    <1> QED BY <1>1, <1>2, <1>3, <1>4, <1>5 DEF DispatchNext

(* Every behaviour of the dispatch services is one of the routing jobs.      *)
THEOREM DispatchRunsJobs == DispatchSpec => JobsSpec
    <1>1. DispatchInit => JobsInit BY DEF DispatchInit
    <1>2. [DispatchNext]_vars => [JobsNext]_jobVars BY JobsStepInDispatch
    <1> QED BY <1>1, <1>2, PTL DEF DispatchSpec, JobsSpec

(* Whatever publishes, edits or assigns, a scope has one running job.        *)
COROLLARY DispatchRunsOneJob == DispatchSpec => []AtMostOneRunning
    BY DispatchRunsJobs, RunningIsExclusive, PTL

-----------------------------------------------------------------------------
(* Types.                                                                    *)

(* What DispatchTypeOK says of the orders, the plans and the transactions.   *)
RowsTypeOK ==
    /\ StatusesTypeOK
    /\ located \subseteq Orders
    /\ PlansTypeOK
    /\ RequestsTypeOK
    /\ DOMAIN snap = Jobs

LEMMA NextPubIsNat == NextPub \in Nat
    <1>1. IsFiniteSet({p \in PlanIds : plan[p].pub # 0})
        BY DispatchAssumption, FS_Subset
    <1> QED BY <1>1, FS_CardinalityType DEF NextPub

LEMMA IdleIsTyped == Idle \in Transactions
    <1>1. <<>> \in [{} -> OrderStatus] OBVIOUS
    <1>2. <<>> \in Seen BY <1>1 DEF Seen
    <1> QED BY <1>2 DEF Idle, Ops, Transactions

LEMMA SeenIsTyped ==
    ASSUME StatusesTypeOK, NEW S \in SUBSET Orders
    PROVE  [o \in S |-> status[o]] \in Seen
    <1>1. [o \in S |-> status[o]] \in [S -> OrderStatus]
        BY DEF StatusesTypeOK
    <1> QED BY <1>1 DEF Seen

(* The effects the actions are made of keep the types.                       *)
LEMMA OpenTyped ==
    ASSUME RequestsTypeOK, NEW r \in Requests, NEW rec \in Transactions, Open(r, rec)
    PROVE  RequestsTypeOK'
    BY DEF Open, RequestsTypeOK

LEMMA CloseTyped ==
    ASSUME RequestsTypeOK, NEW r \in Requests, Close(r)
    PROVE  RequestsTypeOK'
    BY IdleIsTyped DEF Close, RequestsTypeOK

LEMMA WriteTyped ==
    ASSUME StatusesTypeOK, NEW S, NEW to \in OrderStatus, Write(S, to)
    PROVE  StatusesTypeOK'
    BY DEF Write, StatusesTypeOK

LEMMA RebuiltTyped ==
    ASSUME NEW route \in Routes, NEW D
    PROVE  Rebuilt(route, D) \in Routes
    BY DEF Rebuilt, Routes

(* A non-empty set of plans has a latest one: its members with the fewest    *)
(* later plans have none.                                                    *)
LEMMA LatestIsThere ==
    ASSUME PlansTypeOK, NEW S \in SUBSET PlanIds, S # {}
    PROVE  Latest(S) \in S
    <1> DEFINE Later(p) == {q \in S : plan[q].pub > plan[p].pub}
    <1>1. SUBSET PlanIds = FiniteSubsetsOf(PlanIds)
        BY DispatchAssumption, FS_FiniteSubsetsOfFinite
    <1>2. IsWellFoundedOn(StrictSubsetOrdering(PlanIds), SUBSET PlanIds)
        BY <1>1, FS_StrictSubsetOrderingWellFounded
    <1>3. {Later(p) : p \in S} \subseteq SUBSET PlanIds /\ {Later(p) : p \in S} # {}
        OBVIOUS
    <1>4. \E x \in {Later(p) : p \in S} : \A y \in {Later(p) : p \in S} :
            <<y, x>> \notin StrictSubsetOrdering(PlanIds)
        <2> HIDE DEF Later
        <2> QED BY <1>2, <1>3, WFMin
    <1>5. PICK p \in S : \A q \in S :
            <<Later(q), Later(p)>> \notin StrictSubsetOrdering(PlanIds)
        <2> HIDE DEF Later
        <2> QED BY <1>4
    <1>6. \A q \in S : plan[q].pub \in Nat
        BY DEF PlansTypeOK, PlanRows
    <1>7. ASSUME NEW q \in S, ~ (plan[q].pub <= plan[p].pub) PROVE FALSE
        <2>1. Later(q) \subseteq Later(p) /\ q \in Later(p) /\ q \notin Later(q)
            BY <1>6, <1>7
        <2>2. Later(q) \in SUBSET PlanIds /\ Later(p) \in SUBSET PlanIds
            OBVIOUS
        <2>3. <<Later(q), Later(p)>> \in StrictSubsetOrdering(PlanIds)
            <3> HIDE DEF Later
            <3> QED BY <2>1, <2>2 DEF StrictSubsetOrdering
        <2> QED BY <1>5, <2>3
    <1> QED BY <1>7 DEF Latest

LEMMA LatestOrNoneTyped ==
    ASSUME PlansTypeOK, NEW s
    PROVE  \/ LatestOrNone(PublishedIn(s)) \in PublishedIn(s)
           \/ LatestOrNone(PublishedIn(s)) = NoPlan
    BY LatestIsThere DEF LatestOrNone, PublishedIn, Published, WithStatus

(* Rows that exist have their fields in range.                               *)
LEMMA PlanFields ==
    ASSUME PlansTypeOK, NEW p \in PlanIds
    PROVE  /\ plan[p] \in PlanRows
           /\ plan[p].status \in PlanStatus
           /\ plan[p].district \in Scopes \cup {NoScope}
           /\ plan[p].route \in Routes
           /\ \A o \in Orders : plan[p].route[o] \in Drivers \cup {NoDriver}
    BY DEF PlansTypeOK, PlanRows, Routes

LEMMA TransactionFields ==
    ASSUME RequestsTypeOK, NEW r \in Requests
    PROVE  /\ req[r] \in Transactions
           /\ req[r].op \in Ops
           /\ req[r].plan \in PlanIds \cup {NoPlan}
           /\ req[r].order \in SUBSET Orders
           /\ req[r].driver \in Drivers \cup {NoDriver}
           /\ req[r].seen \in Seen
           /\ req[r].previous \in SUBSET PlanIds
    BY DEF RequestsTypeOK, Transactions

LEMMA RowsInitial == DispatchInit => RowsTypeOK
    <1> SUFFICES ASSUME DispatchInit PROVE RowsTypeOK
        OBVIOUS
    <1>1. PlansTypeOK
        BY DEF DispatchInit, PlansTypeOK, PlanRows, Routes, AbsentPlan, PlanRow,
               PlanStatus, EmptyRoute
    <1>2. RequestsTypeOK
        BY IdleIsTyped DEF DispatchInit, RequestsTypeOK
    <1>3. StatusesTypeOK
        BY DEF DispatchInit, StatusesTypeOK, OrderStatus
    <1> QED BY <1>1, <1>2, <1>3 DEF DispatchInit, RowsTypeOK

LEMMA JobStepTyped ==
    ASSUME RowsTypeOK, JobsTypeOK, NEW j \in Jobs, JobStep(j)
    PROVE  RowsTypeOK'
    <1>1. CASE DraftPlan(j)
        <2> PICK p \in PlanIds, sol \in Solutions(j) :
                /\ plan' = [plan EXCEPT ![p] = PlanRow("draft", job[j].scope, j, FALSE, 0,
                    [o \in Orders |-> IF o \in DOMAIN sol THEN sol[o] ELSE NoDriver])]
                /\ status' = [o \in Orders |->
                    IF o \in RejectedBy(sol) THEN "exception"
                    ELSE IF o \in ScheduledBy(j, sol) THEN "scheduled" ELSE status[o]]
                /\ DOMAIN snap' = Jobs
                /\ UNCHANGED <<located, req>>
            BY <1>1 DEF DraftPlan, RowsTypeOK
        <2>1. [o \in Orders |-> IF o \in DOMAIN sol THEN sol[o] ELSE NoDriver] \in Routes
            BY DEF Solutions, Routes, DriversOf
        <2>2. PlansTypeOK'
            BY <2>1 DEF RowsTypeOK, PlansTypeOK, PlanRows, PlanRow, PlanStatus, JobsTypeOK
        <2>3. StatusesTypeOK'
            BY DEF RowsTypeOK, StatusesTypeOK, OrderStatus
        <2> QED BY <2>2, <2>3 DEF RowsTypeOK, RequestsTypeOK
    <1>2. CASE ReadOrders(j) \/ AbandonPlan(j) \/ LosePlan(j)
        BY <1>2
        DEF ReadOrders, AbandonPlan, LosePlan, RowsTypeOK, StatusesTypeOK, PlansTypeOK,
            RequestsTypeOK
    <1> QED BY <1>1, <1>2 DEF JobStep

LEMMA PublishTyped ==
    ASSUME RowsTypeOK, NEW r \in Requests, PublishStep(r)
    PROVE  RowsTypeOK'
    <1> USE DEF RowsTypeOK
    <1>1. ASSUME NEW p \in PlanIds, PublishBegin(r, p) PROVE RowsTypeOK'
        <2>1. [Idle EXCEPT !.op = "archiving", !.plan = p,
                !.previous = {q \in PublishedIn(plan[p].district) : ~ plan[q].immediate}]
                \in Transactions
            BY IdleIsTyped DEF Transactions, Ops, PublishedIn, Published, WithStatus
        <2> QED BY <1>1, <2>1, OpenTyped DEF PublishBegin, StatusesTypeOK, PlansTypeOK
    <1>2. CASE PublishRead(r)
        <2>1. [x \in Routed(req[r].plan) |-> status[x]] \in Seen
            BY SeenIsTyped DEF Routed
        <2>2. RequestsTypeOK'
            <3> DEFINE rec == [req[r] EXCEPT !.op = "publishing",
                                  !.seen = [x \in Routed(req[r].plan) |-> status[x]]]
            <3>1. rec \in Transactions
                BY <2>1, TransactionFields DEF Transactions, Ops
            <3>2. req' = [req EXCEPT ![r] = rec]
                BY <1>2 DEF PublishRead
            <3> HIDE DEF rec
            <3> QED BY <3>1, <3>2 DEF RequestsTypeOK
        <2> QED BY <1>2, <2>2 DEF PublishRead, StatusesTypeOK, PlansTypeOK
    <1>3. CASE PublishCommit(r)
        <2>1. PlansTypeOK'
            <3>1. \A q \in PlanIds :
                    /\ [plan[q] EXCEPT !.status = "published", !.pub = NextPub] \in PlanRows
                    /\ [plan[q] EXCEPT !.status = "archived"] \in PlanRows
                BY NextPubIsNat DEF PlansTypeOK, PlanRows, PlanStatus
            <3> QED BY <1>3, <3>1 DEF PublishCommit, PlansTypeOK
        <2>2. StatusesTypeOK'
            BY <1>3, WriteTyped DEF PublishCommit, OrderStatus
        <2> QED BY <1>3, <2>1, <2>2, CloseTyped DEF PublishCommit
    <1> QED BY <1>1, <1>2, <1>3 DEF PublishStep

LEMMA UnassignTyped ==
    ASSUME RowsTypeOK, NEW r \in Requests, UnassignStep(r)
    PROVE  RowsTypeOK'
    <1> USE DEF RowsTypeOK
    <1>1. ASSUME NEW p \in PlanIds, NEW o \in Orders, UnassignBegin(r, p, o)
          PROVE RowsTypeOK'
        <2>1. [x \in {o} |-> status[x]] \in Seen
            BY SeenIsTyped
        <2>2. [Idle EXCEPT !.op = "unassign", !.plan = p, !.seen = [x \in {o} |-> status[x]]]
                \in Transactions
            BY <2>1, IdleIsTyped DEF Transactions, Ops
        <2> QED BY <1>1, <2>2, OpenTyped DEF UnassignBegin, StatusesTypeOK, PlansTypeOK
    <1>2. CASE UnassignCommit(r)
        <2>1. PlansTypeOK'
            BY ZenonT(60), <1>2, PlanFields DEF UnassignCommit, PlansTypeOK, PlanRows, Routes
        <2>2. StatusesTypeOK'
            BY <1>2, WriteTyped DEF UnassignCommit, OrderStatus
        <2> QED BY <1>2, <2>1, <2>2, CloseTyped DEF UnassignCommit
    <1> QED BY <1>1, <1>2 DEF UnassignStep

LEMMA AssignTyped ==
    ASSUME RowsTypeOK, NEW r \in Requests, AssignStep(r)
    PROVE  RowsTypeOK'
    <1> USE DEF RowsTypeOK
    <1>1. ASSUME NEW o \in Orders, NEW d \in Drivers, AssignBegin(r, o, d)
          PROVE RowsTypeOK'
        <2>1. LatestOrNone(PublishedIn(Region[d])) \in PlanIds \cup {NoPlan}
            BY LatestOrNoneTyped DEF PublishedIn, Published, WithStatus
        <2>2. [Idle EXCEPT !.op = "assign", !.order = {o}, !.driver = d,
                !.plan = LatestOrNone(PublishedIn(Region[d]))] \in Transactions
            BY <2>1, IdleIsTyped DEF Transactions, Ops
        <2> QED BY <1>1, <2>2, OpenTyped DEF AssignBegin, StatusesTypeOK, PlansTypeOK
    <1>2. ASSUME NEW p \in PlanIds, AssignToNewPlan(r, p) PROVE RowsTypeOK'
        <2>1. PlansTypeOK'
            <3> DEFINE route == [x \in Orders |-> IF x \in req[r].order
                                                 THEN req[r].driver ELSE NoDriver]
                       new == PlanRow("published", Region[req[r].driver], NoJob, TRUE,
                                      NextPub, route)
            <3>1. req[r].driver \in Drivers
                BY <1>2, TransactionFields DEF AssignToNewPlan, Transactions
            <3>2. route \in Routes /\ Region[req[r].driver] \in Scopes
                BY <3>1, DispatchAssumption DEF Routes
            <3>3. new \in PlanRows
                BY <3>2, NextPubIsNat DEF PlanRow, PlanRows, PlanStatus
            <3>4. plan' = [plan EXCEPT ![p] = new]
                BY <1>2 DEF AssignToNewPlan
            <3> HIDE DEF new
            <3> QED BY <3>3, <3>4 DEF PlansTypeOK
        <2> QED BY <1>2, <2>1, WriteTyped, CloseTyped DEF AssignToNewPlan, OrderStatus
    <1>3. CASE AssignToPlan(r)
        <2>1. PlansTypeOK'
            <3> DEFINE q == req[r].plan
                       new == [x \in Orders |-> IF x \in req[r].order THEN req[r].driver
                                                ELSE plan[q].route[x]]
            <3>1. q \in PlanIds /\ req[r].driver \in Drivers
                BY <1>3, TransactionFields DEF AssignToPlan, Transactions
            <3>2. new \in Routes
                BY <3>1, PlanFields DEF Routes
            <3>3. plan' = [plan EXCEPT ![q].immediate = TRUE, ![q].route = new]
                BY <1>3 DEF AssignToPlan
            <3> HIDE DEF new
            <3> QED BY ZenonT(60), <3>1, <3>2, <3>3 DEF PlansTypeOK, PlanRows
        <2> QED BY <1>3, <2>1, WriteTyped, CloseTyped DEF AssignToPlan, OrderStatus
    <1> QED BY <1>1, <1>2, <1>3 DEF AssignStep

LEMMA InsertTyped ==
    ASSUME RowsTypeOK, NEW r \in Requests, InsertStep(r) \/ Rollback(r)
    PROVE  RowsTypeOK'
    <1> USE DEF RowsTypeOK
    <1>1. ASSUME NEW o \in Orders, InsertBegin(r, o) PROVE RowsTypeOK'
        <2>1. Latest(Published) \in PlanIds
            BY <1>1, LatestIsThere DEF InsertBegin, Published, WithStatus
        <2>2. [Idle EXCEPT !.op = "insert", !.order = {o}, !.plan = Latest(Published)]
                \in Transactions
            BY <2>1, IdleIsTyped DEF Transactions, Ops
        <2> QED BY <1>1, <2>2, OpenTyped DEF InsertBegin, StatusesTypeOK, PlansTypeOK
    <1>2. ASSUME NEW d \in Drivers, InsertPlaced(r, d) PROVE RowsTypeOK'
        <2> DEFINE route == plan[req[r].plan].route
                   used == {route[x] : x \in Routed(req[r].plan)}
                   new == [x \in Orders |-> IF x \in req[r].order THEN d
                                            ELSE Rebuilt(route, used)[x]]
        <2>1. plan' = [plan EXCEPT ![req[r].plan].route = new]
            BY <1>2 DEF InsertPlaced
        <2>2. CASE req[r].plan \in PlanIds
            <3>1. new \in Routes
                BY <2>2, PlanFields, RebuiltTyped DEF Routes
            <3>2. PlansTypeOK'
                <4> HIDE DEF new
                <4> QED BY SMTT(30), <2>1, <2>2, <3>1 DEF PlansTypeOK, PlanRows
            <3> QED BY <1>2, <3>2, WriteTyped, CloseTyped DEF InsertPlaced, OrderStatus
        <2>3. CASE req[r].plan \notin PlanIds
            <3>1. plan' = plan
                <4> HIDE DEF new
                <4> QED BY <2>1, <2>3 DEF PlansTypeOK
            <3> QED
                BY <1>2, <3>1, WriteTyped, CloseTyped DEF InsertPlaced, OrderStatus, PlansTypeOK
        <2> QED BY <2>2, <2>3
    <1>3. CASE InsertRejected(r)
        BY <1>3, WriteTyped, CloseTyped DEF InsertRejected, OrderStatus, PlansTypeOK
    <1>4. CASE Rollback(r)
        BY <1>4, CloseTyped DEF Rollback, StatusesTypeOK, PlansTypeOK
    <1> QED BY <1>1, <1>2, <1>3, <1>4 DEF InsertStep

LEMMA PatchTyped ==
    ASSUME RowsTypeOK, NEW r \in Requests, PatchStep(r)
    PROVE  RowsTypeOK'
    <1> USE DEF RowsTypeOK
    <1>1. ASSUME NEW o \in Orders, PatchBegin(r, o) PROVE RowsTypeOK'
        <2>1. [Idle EXCEPT !.op = "patch", !.order = {o}] \in Transactions
            BY IdleIsTyped DEF Transactions, Ops
        <2> QED BY <1>1, <2>1, OpenTyped DEF PatchBegin, StatusesTypeOK, PlansTypeOK
    <1>2. CASE PatchCommit(r)
        BY <1>2, CloseTyped, TransactionFields DEF PatchCommit, StatusesTypeOK, PlansTypeOK
    <1> QED BY <1>1, <1>2 DEF PatchStep

LEMMA TransitionTyped ==
    ASSUME RowsTypeOK, NEW o \in Orders, NEW to, TransitionOrder(o, to)
    PROVE  RowsTypeOK'
    <1>1. to \in OrderStatus
        BY DEF TransitionOrder, CanMove, AllowedTransitions, OrderStatus
    <1> QED BY <1>1, WriteTyped DEF TransitionOrder, RowsTypeOK, PlansTypeOK, RequestsTypeOK

LEMMA OrderStepTyped ==
    ASSUME RowsTypeOK, NEW o \in Orders, OrderStep(o)
    PROVE  RowsTypeOK'
    <1>1. CASE CancelOrder(o)
        BY <1>1, TransitionTyped DEF CancelOrder
    <1>2. ASSUME NEW to \in OrderStatus, ManualTransition(o, to) \/ DriverTransition(o, to)
          PROVE RowsTypeOK'
        BY <1>2, TransitionTyped DEF ManualTransition, DriverTransition
    <1>3. CASE EraseOrder(o)
        BY <1>3 DEF EraseOrder, RowsTypeOK, StatusesTypeOK, PlansTypeOK, RequestsTypeOK
    <1>4. ASSUME NEW p \in PlanIds, NEW d \in Drivers, MoveOrder(p, o, d)
          PROVE RowsTypeOK'
        <2> DEFINE route == plan[p].route
                   new == [Rebuilt(route, {d, route[o]}) EXCEPT ![o] = d]
        <2>1. plan' = [plan EXCEPT ![p].route = new]
            BY <1>4 DEF MoveOrder
        <2>2. new \in Routes
            BY PlanFields, RebuiltTyped DEF Routes, RowsTypeOK
        <2>3. PlansTypeOK'
            <3> HIDE DEF new
            <3> QED BY <2>1, <2>2 DEF RowsTypeOK, PlansTypeOK, PlanRows
        <2> QED BY <1>4, <2>3 DEF MoveOrder, RowsTypeOK, StatusesTypeOK, RequestsTypeOK
    <1> QED BY <1>1, <1>2, <1>3, <1>4 DEF OrderStep

LEMMA StepTyped == RowsTypeOK /\ JobsTypeOK /\ [DispatchNext]_vars => RowsTypeOK'
    <1> SUFFICES ASSUME RowsTypeOK, JobsTypeOK, [DispatchNext]_vars PROVE RowsTypeOK'
        OBVIOUS
    <1>1. ASSUME UNCHANGED dispatchVars PROVE RowsTypeOK'
        BY <1>1 DEF dispatchVars, RowsTypeOK, StatusesTypeOK, PlansTypeOK, RequestsTypeOK
    <1>2. ASSUME NEW j \in Jobs, JobStep(j) PROVE RowsTypeOK'
        BY <1>2, JobStepTyped
    <1>3. ASSUME NEW r \in Requests, RequestStep(r) PROVE RowsTypeOK'
        BY <1>3, PublishTyped, UnassignTyped, AssignTyped, InsertTyped, PatchTyped
        DEF RequestStep
    <1>4. ASSUME NEW o \in Orders, OrderStep(o) PROVE RowsTypeOK'
        BY <1>4, OrderStepTyped
    <1> QED BY <1>1, <1>2, <1>3, <1>4 DEF DispatchNext, vars

(* Whatever transactions overlap, every row keeps its type.                  *)
THEOREM DispatchTypeCorrect == DispatchSpec => []DispatchTypeOK
    <1>1. DispatchInit => RowsTypeOK BY RowsInitial
    <1>2. RowsTypeOK /\ JobsInv /\ [DispatchNext]_vars => RowsTypeOK'
        BY StepTyped DEF JobsInv
    <1>3. RowsTypeOK /\ JobsInv => DispatchTypeOK
        BY DEF RowsTypeOK, JobsInv, DispatchTypeOK
    <1> QED BY <1>1, <1>2, <1>3, DispatchRunsJobs, JobsInvariant, PTL DEF DispatchSpec

-----------------------------------------------------------------------------
(* What open transactions rely on.                                           *)

DispatchInv == RowsTypeOK /\ OpenTransactionsSound

(* How a step treats the plans, besides the drafts of D and except for new   *)
(* rows of the orders S: issued plans stay issued and drafts drafts, and an  *)
(* issued plan gets no other order.                                          *)
PlansKept(D, S) ==
    \A p \in PlanIds :
        /\ Issued(p) => Issued(p)' /\ Routed(p)' \subseteq Routed(p) \cup S
        /\ plan[p].status = "draft" /\ p \notin D => plan'[p].status = "draft"

LEMMA IdleLocksNothing ==
    ASSUME NEW r \in Requests, req[r] = Idle
    PROVE  /\ \A p : ~ LocksPlan(r, p)
           /\ \A o : ~ LocksOrder(r, o)
    BY DEF Idle, LocksPlan, LocksOrder

(* A step outside the requests that keeps the plans keeps their reliance.    *)
LEMMA OthersKeepSound ==
    ASSUME DispatchInv, UNCHANGED req, PlansKept({}, {})
    PROVE  OpenTransactionsSound'
    <1> USE DEF DispatchInv, OpenTransactionsSound, PlansKept
    <1>1. HeldDrafts'
        BY DEF HeldDrafts, WithStatus
    <1>2. HeldIssued'
        BY TransactionFields DEF HeldIssued, RowsTypeOK
    <1>3. NotRouted'
        BY TransactionFields DEF NotRouted, HeldIssued, RowsTypeOK
    <1>4. LocksExclusive'
        BY DEF LocksExclusive, LocksPlan, LocksOrder
    <1> QED BY <1>1, <1>2, <1>3, <1>4

(* A commit gives its locks back: it may change what it has locked.          *)
LEMMA CommitKeepsSound ==
    ASSUME DispatchInv, NEW r \in Requests, Close(r),
           PlansKept({p \in PlanIds : LocksPlan(r, p)}, {o \in Orders : LocksOrder(r, o)})
    PROVE  OpenTransactionsSound'
    <1> USE DEF DispatchInv, OpenTransactionsSound, RowsTypeOK
    <1>1. req'[r] = Idle /\ \A x \in Requests \ {r} : req'[x] = req[x]
        BY DEF Close, RequestsTypeOK
    <1>2. ASSUME NEW x \in Requests, x # r
          PROVE  /\ \A p \in PlanIds : LocksPlan(x, p)' <=> LocksPlan(x, p)
                 /\ \A o \in Orders : LocksOrder(x, o)' <=> LocksOrder(x, o)
        BY <1>1, <1>2 DEF LocksPlan, LocksOrder
    <1>3. HeldDrafts'
        <2> SUFFICES ASSUME NEW x \in Requests,
                            req'[x].op \in {"archiving", "publishing", "unassign"}
                     PROVE  req'[x].plan \in WithStatus("draft")'
            BY DEF HeldDrafts
        <2>1. x # r
            BY <1>1 DEF Idle
        <2>2. req[x].plan \in PlanIds /\ plan[req[x].plan].status = "draft"
            BY <1>1, <2>1 DEF HeldDrafts, WithStatus
        <2>3. LocksPlan(x, req[x].plan) /\ ~ LocksPlan(r, req[x].plan)
            BY <1>1, <2>1, <2>2 DEF LocksExclusive, LocksPlan
        <2> QED BY <1>1, <2>1, <2>2, <2>3 DEF PlansKept, WithStatus
    <1>4. HeldIssued'
        <2>1. ASSUME NEW x \in Requests, NEW p \in PlanIds,
                     \/ p \in req'[x].previous
                     \/ req'[x].op \in {"assign", "insert"} /\ req'[x].plan = p
              PROVE  Issued(p)'
            <3>1. x # r
                BY <1>1, <2>1 DEF Idle
            <3>2. Issued(p)
                BY <1>1, <2>1, <3>1, DispatchAssumption DEF HeldIssued
            <3> QED BY <3>2 DEF PlansKept
        <2>2. ASSUME NEW x \in Requests, req'[x].op = "insert" PROVE req'[x].plan # NoPlan
            BY <1>1, <2>2 DEF HeldIssued, Idle
        <2>3. \A x \in Requests :
                req'[x].previous \subseteq PlanIds /\ req'[x].plan \in PlanIds \cup {NoPlan}
            BY <1>1, TransactionFields, IdleIsTyped DEF Idle
        <2> QED BY <2>1, <2>2, <2>3 DEF HeldIssued, Issued
    <1>5. NotRouted'
        <2>1. ASSUME NEW x \in Requests, NEW p \in PlanIds, NEW o \in req'[x].order,
                     req'[x].op = "assign", req'[x].plan = p
              PROVE  o \notin Routed(p)'
            <3>1. req'[x] = req[x] /\ x # r /\ o \in Orders
                BY <1>1, <2>1, TransactionFields DEF Idle
            <3>2. Issued(p) /\ o \notin Routed(p)
                BY <2>1, <3>1, DispatchAssumption DEF HeldIssued, NotRouted
            <3>3. ~ LocksOrder(r, o)
                BY <2>1, <3>1 DEF LocksExclusive, LocksOrder
            <3> QED BY <3>1, <3>2, <3>3 DEF PlansKept
        <2>2. \A x \in Requests : req'[x].plan \in PlanIds \cup {NoPlan}
            BY <1>1, TransactionFields, IdleIsTyped DEF Idle
        <2> QED BY <2>1, <2>2 DEF NotRouted, Routed
    <1>6. LocksExclusive'
        <2>1. \A p \in PlanIds, o \in Orders : ~ LocksPlan(r, p)' /\ ~ LocksOrder(r, o)'
            BY <1>1 DEF LocksPlan, LocksOrder, Idle
        <2>2. ASSUME NEW y \in Requests, NEW x \in Requests, y # x
              PROVE  /\ \A p \in PlanIds : ~ (LocksPlan(y, p)' /\ LocksPlan(x, p)')
                     /\ \A o \in Orders : ~ (LocksOrder(y, o)' /\ LocksOrder(x, o)')
            BY <1>1, <1>2, <2>2 DEF LocksExclusive, LocksPlan, LocksOrder, Idle
        <2> QED BY <2>2 DEF LocksExclusive
    <1> QED BY <1>3, <1>4, <1>5, <1>6

(* A transaction that opens, or goes on, with rows that no other one holds.  *)
LEMMA BeginKeepsSound ==
    ASSUME DispatchInv, NEW r \in Requests, NEW rec, req' = [req EXCEPT ![r] = rec],
           UNCHANGED plan,
           rec.op \in {"archiving", "publishing", "unassign"} =>
                rec.plan \in WithStatus("draft"),
           \A p \in rec.previous : Issued(p),
           rec.op \in {"assign", "insert"} /\ rec.plan # NoPlan => Issued(rec.plan),
           rec.op = "insert" => rec.plan # NoPlan,
           rec.op = "assign" /\ rec.plan # NoPlan => rec.order \cap Routed(rec.plan) = {},
           \A p \in PlanIds : LocksPlan(r, p)' => PlanFreeFor(r, p),
           \A o \in Orders : LocksOrder(r, o)' =>
                \A x \in Requests \ {r} : ~ LocksOrder(x, o)
    PROVE  OpenTransactionsSound'
    <1> USE DEF DispatchInv, OpenTransactionsSound, RowsTypeOK
    <1>1. req'[r] = rec /\ \A x \in Requests \ {r} : req'[x] = req[x]
        BY DEF RequestsTypeOK
    <1>2. HeldDrafts'
        BY <1>1 DEF HeldDrafts, WithStatus
    <1>3. HeldIssued'
        BY <1>1 DEF HeldIssued, Issued
    <1>4. NotRouted'
        BY <1>1 DEF NotRouted, Routed
    <1>5. LocksExclusive'
        BY <1>1 DEF LocksExclusive, LocksPlan, LocksOrder, PlanFreeFor
    <1> QED BY <1>2, <1>3, <1>4, <1>5

LEMMA PublishBeginSound ==
    ASSUME DispatchInv, NEW r \in Requests, NEW p \in PlanIds, PublishBegin(r, p)
    PROVE  OpenTransactionsSound'
    <1> DEFINE rec == [Idle EXCEPT !.op = "archiving", !.plan = p,
                  !.previous = {q \in PublishedIn(plan[p].district) : ~ plan[q].immediate}]
    <1>1. req' = [req EXCEPT ![r] = rec] /\ UNCHANGED plan
        BY DEF PublishBegin, Open
    <1>2. /\ rec.op = "archiving" /\ rec.plan = p /\ p \in WithStatus("draft")
          /\ \A q \in rec.previous : Issued(q)
        BY DEF PublishBegin, Idle, Issued, PublishedIn, Published, WithStatus
    <1>3. req'[r] = rec
        BY <1>1 DEF DispatchInv, RowsTypeOK, RequestsTypeOK
    <1>4. \A q \in PlanIds : LocksPlan(r, q)' => PlanFreeFor(r, q)
        BY <1>2, <1>3 DEF LocksPlan, PublishBegin, PlanFree, PlanFreeFor
    <1>5. \A o \in Orders : ~ LocksOrder(r, o)'
        BY <1>2, <1>3 DEF LocksOrder
    <1> HIDE DEF rec
    <1> QED BY <1>1, <1>2, <1>4, <1>5, BeginKeepsSound

LEMMA PublishReadSound ==
    ASSUME DispatchInv, NEW r \in Requests, PublishRead(r)
    PROVE  OpenTransactionsSound'
    <1> DEFINE rec == [req[r] EXCEPT !.op = "publishing",
                          !.seen = [o \in Routed(req[r].plan) |-> status[o]]]
    <1>1. req' = [req EXCEPT ![r] = rec] /\ UNCHANGED plan
        BY DEF PublishRead
    <1>2. /\ rec.op = "publishing" /\ rec.plan = req[r].plan
          /\ rec.previous = req[r].previous
        BY TransactionFields DEF DispatchInv, RowsTypeOK, Transactions
    <1>3. req'[r] = rec
        BY <1>1 DEF DispatchInv, RowsTypeOK, RequestsTypeOK
    <1>4. rec.plan \in WithStatus("draft") /\ \A q \in rec.previous : Issued(q)
        BY <1>2 DEF DispatchInv, OpenTransactionsSound, HeldDrafts, HeldIssued, PublishRead
    <1>5. PlanFreeFor(r, req[r].plan)
        BY <1>2, <1>4
        DEF DispatchInv, OpenTransactionsSound, LocksExclusive, PlanFreeFor, PublishRead,
            LocksPlan, WithStatus
    <1>6. \A q \in PlanIds : LocksPlan(r, q)' => PlanFreeFor(r, q)
        BY <1>2, <1>3, <1>5 DEF LocksPlan, PublishRead
    <1>7. \A o \in Orders : ~ LocksOrder(r, o)'
        BY <1>2, <1>3 DEF LocksOrder
    <1> HIDE DEF rec
    <1> QED BY <1>1, <1>2, <1>4, <1>6, <1>7, BeginKeepsSound

LEMMA UnassignBeginSound ==
    ASSUME DispatchInv, NEW r \in Requests, NEW p \in PlanIds, NEW o \in Orders,
           UnassignBegin(r, p, o)
    PROVE  OpenTransactionsSound'
    <1> DEFINE rec == [Idle EXCEPT !.op = "unassign", !.plan = p,
                                   !.seen = [x \in {o} |-> status[x]]]
    <1>1. req' = [req EXCEPT ![r] = rec] /\ UNCHANGED plan
        BY DEF UnassignBegin, Open
    <1>2. /\ rec.op = "unassign" /\ rec.plan = p /\ p \in WithStatus("draft")
          /\ rec.previous = {}
        BY DEF UnassignBegin, Idle, WithStatus
    <1>3. req'[r] = rec
        BY <1>1 DEF DispatchInv, RowsTypeOK, RequestsTypeOK
    <1>4. \A q \in PlanIds : LocksPlan(r, q)' => PlanFreeFor(r, q)
        BY <1>2, <1>3 DEF LocksPlan, UnassignBegin, PlanFree, PlanFreeFor
    <1>5. \A x \in Orders : ~ LocksOrder(r, x)'
        BY <1>2, <1>3 DEF LocksOrder
    <1> HIDE DEF rec
    <1> QED BY <1>1, <1>2, <1>4, <1>5, BeginKeepsSound

LEMMA AssignBeginSound ==
    ASSUME DispatchInv, NEW r \in Requests, NEW o \in Orders, NEW d \in Drivers,
           AssignBegin(r, o, d)
    PROVE  OpenTransactionsSound'
    <1> DEFINE joined == LatestOrNone(PublishedIn(Region[d]))
               rec == [Idle EXCEPT !.op = "assign", !.order = {o}, !.driver = d,
                                   !.plan = joined]
    <1>1. req' = [req EXCEPT ![r] = rec] /\ UNCHANGED plan
        BY DEF AssignBegin, Open
    <1>2. /\ rec.op = "assign" /\ rec.plan = joined /\ rec.previous = {}
          /\ rec.order = {o}
        BY DEF Idle
    <1>3. req'[r] = rec
        BY <1>1 DEF DispatchInv, RowsTypeOK, RequestsTypeOK
    <1>4. joined # NoPlan => joined \in Published
        BY LatestOrNoneTyped DEF DispatchInv, RowsTypeOK, PublishedIn
    <1>5. joined # NoPlan => Issued(joined) /\ o \notin Routed(joined)
        BY <1>4 DEF AssignBegin, HasPublishedDriver, Issued, Published, WithStatus
    <1>6. \A q \in PlanIds : ~ LocksPlan(r, q)'
        BY <1>2, <1>3 DEF LocksPlan
    <1>7. \A x \in Orders : LocksOrder(r, x)' =>
                \A y \in Requests \ {r} : ~ LocksOrder(y, x)
        BY <1>2, <1>3 DEF LocksOrder, AssignBegin, OrderFree
    <1> HIDE DEF rec, joined
    <1> QED BY <1>1, <1>2, <1>5, <1>6, <1>7, BeginKeepsSound

LEMMA InsertBeginSound ==
    ASSUME DispatchInv, NEW r \in Requests, NEW o \in Orders, InsertBegin(r, o)
    PROVE  OpenTransactionsSound'
    <1> DEFINE rec == [Idle EXCEPT !.op = "insert", !.order = {o}, !.plan = Latest(Published)]
    <1>1. req' = [req EXCEPT ![r] = rec] /\ UNCHANGED plan
        BY DEF InsertBegin, Open
    <1>2. /\ rec.op = "insert" /\ rec.plan = Latest(Published) /\ rec.previous = {}
          /\ rec.order = {o}
        BY DEF Idle
    <1>3. req'[r] = rec
        BY <1>1 DEF DispatchInv, RowsTypeOK, RequestsTypeOK
    <1>4. Latest(Published) \in Published
        BY LatestIsThere DEF DispatchInv, RowsTypeOK, Published, WithStatus, InsertBegin
    <1>5. Latest(Published) # NoPlan /\ Issued(Latest(Published))
        BY <1>4, DispatchAssumption DEF Issued, Published, WithStatus
    <1>6. \A q \in PlanIds : ~ LocksPlan(r, q)'
        BY <1>2, <1>3 DEF LocksPlan
    <1>7. \A x \in Orders : LocksOrder(r, x)' =>
                \A y \in Requests \ {r} : ~ LocksOrder(y, x)
        BY <1>2, <1>3 DEF LocksOrder, InsertBegin, OrderFree
    <1> HIDE DEF rec
    <1> QED BY <1>1, <1>2, <1>5, <1>6, <1>7, BeginKeepsSound

LEMMA PatchBeginSound ==
    ASSUME DispatchInv, NEW r \in Requests, NEW o \in Orders, PatchBegin(r, o)
    PROVE  OpenTransactionsSound'
    <1> DEFINE rec == [Idle EXCEPT !.op = "patch", !.order = {o}]
    <1>1. req' = [req EXCEPT ![r] = rec] /\ UNCHANGED plan
        BY DEF PatchBegin, Open
    <1>2. rec.op = "patch" /\ rec.previous = {}
        BY DEF Idle
    <1>3. req'[r] = rec
        BY <1>1 DEF DispatchInv, RowsTypeOK, RequestsTypeOK
    <1>4. \A q \in PlanIds : ~ LocksPlan(r, q)'
        BY <1>2, <1>3 DEF LocksPlan
    <1>5. \A x \in Orders : ~ LocksOrder(r, x)'
        BY <1>2, <1>3 DEF LocksOrder
    <1> HIDE DEF rec
    <1> QED BY <1>1, <1>2, <1>4, <1>5, BeginKeepsSound

-----------------------------------------------------------------------------
(* How steps treat the plans.                                                *)

(* What the transaction of r may change.                                     *)
Held(r) == {p \in PlanIds : LocksPlan(r, p)}
HeldOrders(r) == {o \in Orders : LocksOrder(r, o)}
PlansSafe(D, S) == PlansKept(D, S) /\ IssuedRoutesStay /\ PlansAdvance

LEMMA SamePlansSafe ==
    ASSUME PlansTypeOK, UNCHANGED plan, NEW D, NEW S
    PROVE  PlansSafe(D, S)
    <1>1. PlansKept(D, S) BY DEF PlansKept, Issued, Routed
    <1>2. IssuedRoutesStay BY DEF IssuedRoutesStay
    <1>3. PlansAdvance BY PlanFields DEF PlansAdvance
    <1> QED BY <1>1, <1>2, <1>3 DEF PlansSafe

(* A plan row is added.                                                      *)
LEMMA NewPlanSafe ==
    ASSUME PlansTypeOK, NEW p \in PlanIds, NEW row, FreshPlan(p),
           plan' = [plan EXCEPT ![p] = row], row.status \in {"draft", "published"},
           NEW D, NEW S
    PROVE  PlansSafe(D, S)
    <1>1. /\ plan'[p] = row /\ plan[p].status = "absent"
          /\ \A q \in PlanIds \ {p} : plan'[q] = plan[q]
        BY DEF PlansTypeOK, FreshPlan
    <1>2. PlansKept(D, S) BY <1>1 DEF PlansKept, Issued, Routed
    <1>3. IssuedRoutesStay BY <1>1 DEF IssuedRoutesStay, Issued
    <1>4. PlansAdvance BY <1>1, PlanFields DEF PlansAdvance
    <1> QED BY <1>2, <1>3, <1>4 DEF PlansSafe

(* Only the route of a draft is changed.                                     *)
LEMMA DraftEditSafe ==
    ASSUME PlansTypeOK, NEW p \in PlanIds, plan[p].status = "draft", NEW route,
           plan' = [plan EXCEPT ![p].route = route], NEW D, NEW S
    PROVE  PlansSafe(D, S)
    <1>1. /\ plan'[p].status = "draft"
          /\ \A q \in PlanIds \ {p} : plan'[q] = plan[q]
        BY DEF PlansTypeOK, PlanRows
    <1>2. PlansKept(D, S) BY <1>1 DEF PlansKept, Issued, Routed
    <1>3. IssuedRoutesStay BY <1>1 DEF IssuedRoutesStay, Issued
    <1>4. PlansAdvance BY <1>1, PlanFields DEF PlansAdvance, PlanStatus
    <1> QED BY <1>2, <1>3, <1>4 DEF PlansSafe

(* Orders that are on no route of an issued plan are added to it.            *)
LEMMA IssuedExtensionSafe ==
    ASSUME PlansTypeOK, NEW p \in PlanIds, Issued(p), NEW S \in SUBSET Orders,
           S \cap Routed(p) = {},
           plan'[p].status = plan[p].status,
           \A o \in Orders \ S : plan'[p].route[o] \in {plan[p].route[o], NoDriver},
           \A o \in Orders \ S : o \in located => plan'[p].route[o] = plan[p].route[o],
           \A q \in PlanIds \ {p} : plan'[q] = plan[q], NEW D
    PROVE  PlansSafe(D, S)
    <1>1. PlansKept(D, S) BY DEF PlansKept, Issued, Routed
    <1>2. IssuedRoutesStay BY DEF IssuedRoutesStay, Issued, Routed
    <1>3. PlansAdvance BY PlanFields DEF PlansAdvance
    <1> QED BY <1>1, <1>2, <1>3 DEF PlansSafe

LEMMA JobStepSafe ==
    ASSUME DispatchInv, NEW j \in Jobs, JobStep(j)
    PROVE  PlansSafe({}, {}) /\ UNCHANGED req
    <1>1. CASE DraftPlan(j)
        <2> PICK p \in PlanIds, sol \in Solutions(j) :
                /\ FreshPlan(p)
                /\ plan' = [plan EXCEPT ![p] = PlanRow("draft", job[j].scope, j, FALSE, 0,
                    [o \in Orders |-> IF o \in DOMAIN sol THEN sol[o] ELSE NoDriver])]
                /\ UNCHANGED req
            BY <1>1 DEF DraftPlan
        <2> DEFINE row == PlanRow("draft", job[j].scope, j, FALSE, 0,
                    [o \in Orders |-> IF o \in DOMAIN sol THEN sol[o] ELSE NoDriver])
        <2>1. row.status = "draft" /\ plan' = [plan EXCEPT ![p] = row]
            BY DEF PlanRow
        <2> HIDE DEF row
        <2> QED BY <2>1, NewPlanSafe DEF DispatchInv, RowsTypeOK
    <1>2. CASE ReadOrders(j) \/ AbandonPlan(j) \/ LosePlan(j)
        BY <1>2, SamePlansSafe DEF ReadOrders, AbandonPlan, LosePlan, DispatchInv, RowsTypeOK
    <1> QED BY <1>1, <1>2 DEF JobStep

LEMMA OrderStepSafe ==
    ASSUME DispatchInv, NEW o \in Orders, OrderStep(o)
    PROVE  PlansSafe({}, {}) /\ UNCHANGED req
    <1>1. ASSUME NEW p \in PlanIds, NEW d \in Drivers, MoveOrder(p, o, d)
          PROVE PlansSafe({}, {}) /\ UNCHANGED req
        <2>1. /\ plan[p].status = "draft" /\ UNCHANGED req
              /\ plan' = [plan EXCEPT ![p].route =
                    [Rebuilt(plan[p].route, {d, plan[p].route[o]}) EXCEPT ![o] = d]]
            BY <1>1 DEF MoveOrder
        <2> QED BY <2>1, DraftEditSafe DEF DispatchInv, RowsTypeOK
    <1>2. ASSUME UNCHANGED <<plan, req>> PROVE PlansSafe({}, {}) /\ UNCHANGED req
        BY <1>2, SamePlansSafe DEF DispatchInv, RowsTypeOK
    <1> QED
        BY <1>1, <1>2
        DEF OrderStep, CancelOrder, ManualTransition, DriverTransition, TransitionOrder,
            EraseOrder

LEMMA PublishCommitSafe ==
    ASSUME DispatchInv, NEW r \in Requests, PublishCommit(r)
    PROVE  PlansSafe(Held(r), HeldOrders(r))
    <1> USE DEF DispatchInv, RowsTypeOK, OpenTransactionsSound
    <1>1. /\ plan[req[r].plan].status = "draft"
          /\ \A q \in req[r].previous : Issued(q)
          /\ req[r].plan \in Held(r)
        BY DEF PublishCommit, HeldDrafts, HeldIssued, WithStatus, Held, LocksPlan
    <1>2. \A p \in PlanIds :
            /\ plan'[p].route = plan[p].route
            /\ plan'[p].status = IF p = req[r].plan THEN "published"
                                 ELSE IF p \in req[r].previous THEN "archived"
                                 ELSE plan[p].status
        BY DEF PublishCommit, PlansTypeOK, PlanRows
    <1>3. PlansKept(Held(r), HeldOrders(r))
        BY <1>1, <1>2 DEF PlansKept, Issued, Routed
    <1>4. IssuedRoutesStay
        BY <1>2 DEF IssuedRoutesStay
    <1>5. PlansAdvance
        BY <1>1, <1>2, PlanFields DEF PlansAdvance, Issued
    <1> QED BY <1>3, <1>4, <1>5 DEF PlansSafe

LEMMA UnassignCommitSafe ==
    ASSUME DispatchInv, NEW r \in Requests, UnassignCommit(r)
    PROVE  PlansSafe(Held(r), HeldOrders(r))
    <1>1. req[r].plan \in PlanIds /\ plan[req[r].plan].status = "draft"
        BY DEF DispatchInv, OpenTransactionsSound, HeldDrafts, WithStatus, UnassignCommit
    <1> DEFINE route == [o \in Orders |-> IF o \in DOMAIN req[r].seen THEN NoDriver
                                          ELSE plan[req[r].plan].route[o]]
    <1>2. plan' = [plan EXCEPT ![req[r].plan].route = route]
        BY DEF UnassignCommit
    <1> HIDE DEF route
    <1> QED BY <1>1, <1>2, DraftEditSafe DEF DispatchInv, RowsTypeOK

LEMMA AssignToNewPlanSafe ==
    ASSUME DispatchInv, NEW r \in Requests, NEW p \in PlanIds, AssignToNewPlan(r, p)
    PROVE  PlansSafe(Held(r), HeldOrders(r))
    <1> DEFINE row == PlanRow("published", Region[req[r].driver], NoJob, TRUE, NextPub,
                        [o \in Orders |-> IF o \in req[r].order THEN req[r].driver
                                          ELSE NoDriver])
    <1>1. row.status = "published" /\ plan' = [plan EXCEPT ![p] = row] /\ FreshPlan(p)
        BY DEF AssignToNewPlan, PlanRow
    <1> HIDE DEF row
    <1> QED BY <1>1, NewPlanSafe DEF DispatchInv, RowsTypeOK

LEMMA AssignToPlanSafe ==
    ASSUME DispatchInv, NEW r \in Requests, AssignToPlan(r)
    PROVE  PlansSafe(Held(r), HeldOrders(r))
    <1> USE DEF DispatchInv, RowsTypeOK, OpenTransactionsSound
    <1> DEFINE p == req[r].plan
               S == req[r].order
               new == [o \in Orders |-> IF o \in S THEN req[r].driver ELSE plan[p].route[o]]
    <1>1. p \in PlanIds /\ Issued(p) /\ S \in SUBSET Orders /\ S \cap Routed(p) = {}
        BY TransactionFields DEF AssignToPlan, HeldIssued, NotRouted
    <1>2. plan' = [plan EXCEPT ![p].immediate = TRUE, ![p].route = new]
        BY DEF AssignToPlan
    <1>3. /\ plan'[p].status = plan[p].status /\ plan'[p].route = new
          /\ \A q \in PlanIds \ {p} : plan'[q] = plan[q]
        <2> HIDE DEF new
        <2> QED BY <1>1, <1>2 DEF PlansTypeOK, PlanRows
    <1>4. \A o \in Orders \ S : plan'[p].route[o] = plan[p].route[o]
        BY <1>3
    <1>5. HeldOrders(r) = S
        BY <1>1 DEF HeldOrders, LocksOrder, AssignToPlan
    <1> HIDE DEF p, S, new
    <1> QED BY <1>1, <1>3, <1>4, <1>5, IssuedExtensionSafe

LEMMA InsertPlacedSafe ==
    ASSUME DispatchInv, NEW r \in Requests, NEW d \in Drivers, InsertPlaced(r, d)
    PROVE  PlansSafe(Held(r), HeldOrders(r))
    <1> USE DEF DispatchInv, RowsTypeOK, OpenTransactionsSound
    <1> DEFINE p == req[r].plan
               S == req[r].order
               used == {plan[p].route[o] : o \in Routed(p)}
               new == [o \in Orders |-> IF o \in S THEN d
                                        ELSE Rebuilt(plan[p].route, used)[o]]
    <1>1. p \in PlanIds /\ Issued(p) /\ S \in SUBSET Orders /\ S \cap Routed(p) = {}
        BY TransactionFields DEF InsertPlaced, InsertAllowed, HeldIssued
    <1>2. plan' = [plan EXCEPT ![p].route = new]
        BY DEF InsertPlaced
    <1>3. /\ plan'[p].status = plan[p].status /\ plan'[p].route = new
          /\ \A q \in PlanIds \ {p} : plan'[q] = plan[q]
        <2> HIDE DEF new
        <2> QED BY SMTT(30), <1>1, <1>2 DEF PlansTypeOK, PlanRows
    <1>4. \A o \in Orders \ S :
            /\ plan'[p].route[o] \in {plan[p].route[o], NoDriver}
            /\ o \in located => plan'[p].route[o] = plan[p].route[o]
        BY <1>3 DEF Rebuilt
    <1>5. HeldOrders(r) = S
        BY <1>1 DEF HeldOrders, LocksOrder, InsertPlaced, InsertAllowed
    <1> HIDE DEF p, S, used, new
    <1> QED BY <1>1, <1>3, <1>4, <1>5, IssuedExtensionSafe

(* A request either opens or goes on without touching a plan, or commits     *)
(* within its locks.                                                         *)
LEMMA RequestStepSafe ==
    ASSUME DispatchInv, NEW r \in Requests, RequestStep(r)
    PROVE  PlansSafe(Held(r), HeldOrders(r)) /\ OpenTransactionsSound'
    <1> DEFINE Goal == PlansSafe(Held(r), HeldOrders(r)) /\ OpenTransactionsSound'
    <1>1. ASSUME PlansSafe(Held(r), HeldOrders(r)), Close(r) PROVE Goal
        BY <1>1, CommitKeepsSound DEF PlansSafe, Held, HeldOrders
    <1>2. ASSUME UNCHANGED plan PROVE PlansSafe(Held(r), HeldOrders(r))
        BY <1>2, SamePlansSafe DEF DispatchInv, RowsTypeOK
    <1>3. CASE PublishStep(r)
        <2>1. ASSUME NEW p \in PlanIds, PublishBegin(r, p) PROVE Goal
            BY <1>2, <2>1, PublishBeginSound DEF PublishBegin
        <2>2. CASE PublishRead(r)
            BY <1>2, <2>2, PublishReadSound DEF PublishRead
        <2>3. CASE PublishCommit(r)
            BY <1>1, <2>3, PublishCommitSafe DEF PublishCommit
        <2> QED BY <1>3, <2>1, <2>2, <2>3 DEF PublishStep
    <1>4. CASE UnassignStep(r)
        <2>1. ASSUME NEW p \in PlanIds, NEW o \in Orders, UnassignBegin(r, p, o) PROVE Goal
            BY <1>2, <2>1, UnassignBeginSound DEF UnassignBegin
        <2>2. CASE UnassignCommit(r)
            BY <1>1, <2>2, UnassignCommitSafe DEF UnassignCommit
        <2> QED BY <1>4, <2>1, <2>2 DEF UnassignStep
    <1>5. CASE AssignStep(r)
        <2>1. ASSUME NEW o \in Orders, NEW d \in Drivers, AssignBegin(r, o, d) PROVE Goal
            BY <1>2, <2>1, AssignBeginSound DEF AssignBegin
        <2>2. ASSUME NEW p \in PlanIds, AssignToNewPlan(r, p) PROVE Goal
            BY <1>1, <2>2, AssignToNewPlanSafe DEF AssignToNewPlan
        <2>3. CASE AssignToPlan(r)
            BY <1>1, <2>3, AssignToPlanSafe DEF AssignToPlan
        <2> QED BY <1>5, <2>1, <2>2, <2>3 DEF AssignStep
    <1>6. CASE InsertStep(r)
        <2>1. ASSUME NEW o \in Orders, InsertBegin(r, o) PROVE Goal
            BY <1>2, <2>1, InsertBeginSound DEF InsertBegin
        <2>2. ASSUME NEW d \in Drivers, InsertPlaced(r, d) PROVE Goal
            BY <1>1, <2>2, InsertPlacedSafe DEF InsertPlaced
        <2>3. CASE InsertRejected(r)
            BY <1>1, <1>2, <2>3 DEF InsertRejected
        <2> QED BY <1>6, <2>1, <2>2, <2>3 DEF InsertStep
    <1>7. CASE PatchStep(r)
        <2>1. ASSUME NEW o \in Orders, PatchBegin(r, o) PROVE Goal
            BY <1>2, <2>1, PatchBeginSound DEF PatchBegin
        <2>2. CASE PatchCommit(r)
            BY <1>1, <1>2, <2>2 DEF PatchCommit
        <2> QED BY <1>7, <2>1, <2>2 DEF PatchStep
    <1>8. CASE Rollback(r)
        BY <1>1, <1>2, <1>8 DEF Rollback
    <1> QED BY <1>3, <1>4, <1>5, <1>6, <1>7, <1>8 DEF RequestStep

LEMMA StepSafe ==
    ASSUME DispatchInv, [DispatchNext]_vars
    PROVE  OpenTransactionsSound' /\ IssuedRoutesStay /\ PlansAdvance
    <1>1. ASSUME UNCHANGED dispatchVars
          PROVE OpenTransactionsSound' /\ IssuedRoutesStay /\ PlansAdvance
        <2>1. PlansSafe({}, {}) /\ UNCHANGED req
            BY <1>1, SamePlansSafe DEF dispatchVars, DispatchInv, RowsTypeOK
        <2> QED BY <2>1, OthersKeepSound DEF PlansSafe
    <1>2. ASSUME NEW j \in Jobs, JobStep(j)
          PROVE OpenTransactionsSound' /\ IssuedRoutesStay /\ PlansAdvance
        BY <1>2, JobStepSafe, OthersKeepSound DEF PlansSafe
    <1>3. ASSUME NEW r \in Requests, RequestStep(r)
          PROVE OpenTransactionsSound' /\ IssuedRoutesStay /\ PlansAdvance
        BY <1>3, RequestStepSafe DEF PlansSafe
    <1>4. ASSUME NEW o \in Orders, OrderStep(o)
          PROVE OpenTransactionsSound' /\ IssuedRoutesStay /\ PlansAdvance
        BY <1>4, OrderStepSafe, OthersKeepSound DEF PlansSafe
    <1> QED BY <1>1, <1>2, <1>3, <1>4 DEF DispatchNext, vars

LEMMA DispatchInitial == DispatchInit => DispatchInv
    <1> SUFFICES ASSUME DispatchInit PROVE DispatchInv
        OBVIOUS
    <1>1. \A r \in Requests : req[r] = Idle
        BY DEF DispatchInit
    <1>2. OpenTransactionsSound
        BY <1>1
        DEF OpenTransactionsSound, HeldDrafts, HeldIssued, NotRouted, LocksExclusive,
            LocksPlan, LocksOrder, Idle
    <1> QED BY <1>2, RowsInitial DEF DispatchInv

-----------------------------------------------------------------------------
(* The invariant: types, and what open transactions rely on.                 *)
THEOREM DispatchInvariant == DispatchSpec => []DispatchInv
    <1>1. DispatchInit => DispatchInv BY DispatchInitial
    <1>2. DispatchInv /\ JobsInv /\ [DispatchNext]_vars => DispatchInv'
        BY StepTyped, StepSafe DEF DispatchInv, JobsInv
    <1> QED BY <1>1, <1>2, DispatchRunsJobs, JobsInvariant, PTL DEF DispatchSpec

(* What a transaction read before its last locks is still so at its commit.  *)
THEOREM TransactionsAreSound == DispatchSpec => []OpenTransactionsSound
    <1>1. DispatchInv => OpenTransactionsSound BY DEF DispatchInv
    <1> QED BY <1>1, DispatchInvariant, PTL

(* However transactions overlap, an issued plan keeps its orders and their   *)
(* drivers, and goes from draft to published to archived only.               *)
THEOREM IssuedPlansKeepOrders == DispatchSpec => PublishedPlansAreStable
    <1>1. DispatchInv /\ [DispatchNext]_vars => [IssuedRoutesStay /\ PlansAdvance]_vars
        BY StepSafe
    <1> QED BY <1>1, DispatchInvariant, PTL DEF DispatchSpec, PublishedPlansAreStable

-----------------------------------------------------------------------------
(* One transaction at a time.                                                *)

NothingOpen == (\A r \in Requests : IsIdle(r)) /\ (\A j \in Jobs : ~ Computing(j))

OneAtATime ==
    /\ \A r, x \in Requests : IsIdle(r) \/ IsIdle(x) \/ r = x
    /\ \A i, j \in Jobs : Computing(i) /\ Computing(j) => i = j
    /\ \A r \in Requests, j \in Jobs : IsIdle(r) \/ ~ Computing(j)

(* The plans that publishing p archives.                                     *)
Replaced(p) == {q \in PublishedIn(plan[p].district) : ~ plan[q].immediate}

(* What the open transaction has read is what is committed: nobody else has  *)
(* written since it began.                                                   *)
Current(r) ==
    /\ req[r].op \in {"archiving", "publishing"} => req[r].previous = Replaced(req[r].plan)
    /\ req[r].op = "publishing" => req[r].seen = [o \in Routed(req[r].plan) |-> status[o]]
    /\ req[r].op = "unassign" => \E o \in Orders : req[r].seen = [x \in {o} |-> status[x]]
    /\ req[r].op = "assign" => \A o \in req[r].order : status[o] \in Pending

RequestsCurrent == \A r \in Requests : Current(r)

JobsCurrent ==
    \A j \in Jobs : Computing(j) =>
        /\ j \in computing
        /\ snap[j] = [o \in Dispatchable(job[j].scope) |->
                        [status |-> status[o], placeable |-> o \in located]]

SerialInv == MaxOpen = 1 /\ OneAtATime /\ RequestsCurrent /\ JobsCurrent

rows == <<status, located, plan>>

(* With a bound of one a transaction that may begin is alone.                *)
LEMMA OpensAlone ==
    ASSUME MaxOpen = 1, CanOpen
    PROVE  NothingOpen
    <1> DEFINE R == {r \in Requests : ~ IsIdle(r)}
               J == {j \in Jobs : Computing(j)}
    <1>1. IsFiniteSet(R) /\ IsFiniteSet(J)
        BY DispatchAssumption, FS_Subset
    <1>2. Cardinality(R) \in Nat /\ Cardinality(J) \in Nat
        BY <1>1, FS_CardinalityType
    <1>3. Cardinality(R) + Cardinality(J) < 1
        BY DEF CanOpen, OpenCount
    <1>4. Cardinality(R) = 0 /\ Cardinality(J) = 0
        <2> HIDE DEF R, J
        <2> QED BY <1>2, <1>3
    <1>5. R = {} /\ J = {}
        <2> HIDE DEF R, J
        <2> QED BY <1>1, <1>4, FS_EmptySet
    <1> QED BY <1>5 DEF NothingOpen

(* A transaction that ends leaves none open.                                 *)
LEMMA ClosesAlone ==
    ASSUME OneAtATime, RequestsTypeOK, NEW r \in Requests, ~ IsIdle(r), Close(r), UNCHANGED snap
    PROVE  NothingOpen'
    <1>1. \A x \in Requests : IsIdle(x)'
        BY DEF OneAtATime, Close, RequestsTypeOK, IsIdle, Idle
    <1>2. \A j \in Jobs : ~ Computing(j)'
        BY DEF OneAtATime, Computing
    <1> QED BY <1>1, <1>2 DEF NothingOpen

LEMMA NothingOpenIsSerial ==
    ASSUME SerialInv, NothingOpen'
    PROVE  SerialInv'
    BY DEF SerialInv, NothingOpen, OneAtATime, RequestsCurrent, Current, JobsCurrent, IsIdle

(* A job that ends, or is given up, leaves none open if it was computing.    *)
LEMMA JobEndsAlone ==
    ASSUME OneAtATime, DOMAIN snap = Jobs, NEW j \in Jobs, Computing(j),
           snap' = [snap EXCEPT ![j] = NoSnap], UNCHANGED req
    PROVE  NothingOpen'
    <1>1. \A x \in Requests : IsIdle(x)'
        BY DEF OneAtATime, IsIdle
    <1>2. \A i \in Jobs : ~ Computing(i)'
        BY DEF OneAtATime, Computing
    <1> QED BY <1>1, <1>2 DEF NothingOpen

(* The rows are written by the step that ends a transaction, or by one of a  *)
(* single step.                                                              *)
LEMMA WritesEnd ==
    ASSUME DispatchInv, SerialInv, [DispatchNext]_vars
    PROVE  UNCHANGED rows \/ NothingOpen'
    <1> USE DEF DispatchInv, RowsTypeOK, SerialInv
    <1>1. ASSUME UNCHANGED dispatchVars PROVE UNCHANGED rows
        BY <1>1 DEF dispatchVars, rows
    <1>2. ASSUME NEW j \in Jobs, JobStep(j) PROVE UNCHANGED rows \/ NothingOpen'
        <2>1. CASE DraftPlan(j)
            <3>1. Computing(j) /\ snap' = [snap EXCEPT ![j] = NoSnap] /\ UNCHANGED req
                BY <2>1 DEF DraftPlan
            <3> QED BY <3>1, JobEndsAlone
        <2> QED BY <1>2, <2>1 DEF JobStep, ReadOrders, AbandonPlan, LosePlan, rows
    <1>3. ASSUME NEW r \in Requests, RequestStep(r) PROVE UNCHANGED rows \/ NothingOpen'
        <2>1. ASSUME Close(r), ~ IsIdle(r), UNCHANGED snap PROVE NothingOpen'
            BY <2>1, ClosesAlone
        <2>2. CASE PublishStep(r)
            BY <2>1, <2>2 DEF PublishStep, PublishBegin, PublishRead, PublishCommit, IsIdle, rows
        <2>3. CASE UnassignStep(r)
            BY ZenonT(60), <2>1, <2>3 DEF UnassignStep, UnassignBegin, UnassignCommit, IsIdle, rows
        <2>4. CASE AssignStep(r)
            BY ZenonT(60), <2>1, <2>4 DEF AssignStep, AssignBegin, AssignToNewPlan, AssignToPlan, IsIdle, rows
        <2>5. CASE InsertStep(r)
            BY <2>1, <2>5
            DEF InsertStep, InsertBegin, InsertPlaced, InsertRejected, InsertAllowed, IsIdle, rows
        <2>6. CASE PatchStep(r)
            BY <2>1, <2>6 DEF PatchStep, PatchBegin, PatchCommit, IsIdle, rows
        <2>7. CASE Rollback(r)
            BY <2>1, <2>7 DEF Rollback
        <2> QED BY <1>3, <2>2, <2>3, <2>4, <2>5, <2>6, <2>7 DEF RequestStep
    <1>4. ASSUME NEW o \in Orders, OrderStep(o) PROVE NothingOpen'
        <2>1. CanOpen /\ UNCHANGED <<req, snap>>
            BY <1>4
            DEF OrderStep, CancelOrder, ManualTransition, DriverTransition, TransitionOrder,
                EraseOrder, MoveOrder
        <2>2. NothingOpen
            BY <2>1, OpensAlone
        <2> QED BY <2>1, <2>2 DEF NothingOpen, IsIdle, Computing
    <1> QED BY <1>1, <1>2, <1>3, <1>4 DEF DispatchNext, vars, dispatchVars

(* A step that writes no rows leaves what is read from them.               *)

LEMMA SameQueries ==
    ASSUME UNCHANGED rows
    PROVE  /\ \A p : Replaced(p)' = Replaced(p) /\ Routed(p)' = Routed(p)
           /\ \A s : Dispatchable(s)' = Dispatchable(s)
    BY DEF rows, Replaced, PublishedIn, Published, WithStatus, Routed, Dispatchable

LEMMA RequestsStayCurrent ==
    ASSUME RequestsCurrent, UNCHANGED <<rows, req>>
    PROVE  RequestsCurrent'
    <1>1. status' = status /\ plan' = plan /\ req' = req
        BY DEF rows
    <1> SUFFICES ASSUME NEW r \in Requests PROVE Current(r)'
        BY DEF RequestsCurrent
    <1>2. Current(r)
        BY DEF RequestsCurrent
    <1>3. (req[r].op \in {"archiving", "publishing"} => req[r].previous = Replaced(req[r].plan))'
        BY <1>1, <1>2 DEF Current, Replaced, PublishedIn, Published, WithStatus
    <1>4. (req[r].op = "publishing" => req[r].seen = [o \in Routed(req[r].plan) |-> status[o]])'
        BY <1>1, <1>2 DEF Current, Routed
    <1>5. (req[r].op = "unassign" => \E o \in Orders : req[r].seen = [x \in {o} |-> status[x]])'
        BY <1>1, <1>2 DEF Current
    <1>6. (req[r].op = "assign" => \A o \in req[r].order : status[o] \in Pending)'
        BY <1>1, <1>2 DEF Current
    <1> QED
        BY <1>3, <1>4, <1>5, <1>6 DEF Current

(* A transaction begins, alone, with what it reads.                          *)
LEMMA BeginKeepsSerial ==
    ASSUME DispatchInv, SerialInv, UNCHANGED <<rows, snap, jobVars>>, NEW r \in Requests,
           NEW rec, Open(r, rec),
           rec.op \notin {"publishing"},
           rec.op = "archiving" => rec.previous = Replaced(rec.plan),
           rec.op = "unassign" => \E o \in Orders : rec.seen = [x \in {o} |-> status[x]],
           rec.op = "assign" => \A o \in rec.order : status[o] \in Pending
    PROVE  SerialInv'
    <1>1. NothingOpen
        BY OpensAlone DEF Open, SerialInv
    <1>2. req'[r] = rec /\ \A x \in Requests \ {r} : IsIdle(x)' /\ req'[x] = req[x]
        BY <1>1 DEF Open, NothingOpen, IsIdle, DispatchInv, RowsTypeOK, RequestsTypeOK
    <1>3. \A j \in Jobs : ~ Computing(j)'
        BY <1>1 DEF NothingOpen, Computing
    <1>4. OneAtATime'
        BY <1>2, <1>3 DEF OneAtATime
    <1>5. RequestsCurrent'
        <2>1. status' = status /\ plan' = plan
            BY DEF rows
        <2>2. (req[r].op \in {"archiving", "publishing"} =>
                 req[r].previous = Replaced(req[r].plan))'
            BY <1>2, <2>1 DEF Replaced, PublishedIn, Published, WithStatus
        <2>3. (req[r].op = "unassign" =>
                 \E o \in Orders : req[r].seen = [x \in {o} |-> status[x]])'
            BY <1>2, <2>1
        <2>4. (req[r].op = "assign" => \A o \in req[r].order : status[o] \in Pending)'
            BY <1>2, <2>1
        <2>5. Current(r)'
            BY <1>2, <2>2, <2>3, <2>4 DEF Current
        <2>6. \A x \in Requests \ {r} : Current(x)'
            BY <1>2 DEF Current, IsIdle
        <2> QED BY <2>5, <2>6 DEF RequestsCurrent
    <1>6. JobsCurrent'
        BY <1>3 DEF JobsCurrent
    <1> QED BY <1>4, <1>5, <1>6 DEF SerialInv

LEMMA PublishReadKeepsSerial ==
    ASSUME DispatchInv, SerialInv, NEW r \in Requests, PublishRead(r)
    PROVE  SerialInv'
    <1> USE DEF DispatchInv, RowsTypeOK, SerialInv
    <1>1. UNCHANGED <<rows, snap, jobVars>>
        BY DEF PublishRead, rows
    <1>2. /\ \A x \in Requests \ {r} : req'[x] = req[x]
          /\ req[r].op = "archiving" /\ req'[r].op = "publishing"
          /\ req'[r].plan = req[r].plan /\ req'[r].previous = req[r].previous
          /\ req'[r].seen = [o \in Routed(req[r].plan) |-> status[o]]
        BY DEF PublishRead, RequestsTypeOK, Transactions
    <1>3. OneAtATime'
        BY <1>1, <1>2 DEF OneAtATime, IsIdle, Computing
    <1>4. \A x \in Requests \ {r} : IsIdle(x)'
        BY <1>2 DEF OneAtATime, IsIdle
    <1>5. RequestsCurrent'
        <2>1. Current(r)
            BY DEF RequestsCurrent
        <2>2. Current(r)'
            BY <1>1, <1>2, <2>1
            DEF Current, Replaced, PublishedIn, Published, WithStatus, Routed, rows
        <2> QED BY <1>2, <1>4, <2>2 DEF RequestsCurrent, Current, IsIdle
    <1>6. JobsCurrent'
        BY <1>1, <1>2 DEF OneAtATime, JobsCurrent, IsIdle, Computing
    <1> QED BY <1>3, <1>5, <1>6

(* Jobs that go on without computing keep what others have read.             *)
LEMMA JobsKeepSerial ==
    ASSUME JobsInv, SerialInv, UNCHANGED <<rows, req>>,
           \A j \in Jobs : Computing(j)' =>
               /\ Computing(j) /\ snap'[j] = snap[j]
               /\ j \in computing => j \in computing' /\ job'[j].scope = job[j].scope
    PROVE  SerialInv'
    <1> USE DEF SerialInv
    <1>1. OneAtATime'
        BY DEF OneAtATime, IsIdle
    <1>2. RequestsCurrent'
        BY RequestsStayCurrent
    <1>3. JobsCurrent'
        <2>1. status' = status /\ located' = located /\ plan' = plan
            BY DEF rows
        <2> SUFFICES ASSUME NEW j \in Jobs, Computing(j)'
                     PROVE  /\ j \in computing'
                            /\ (snap[j] = [o \in Dispatchable(job[j].scope) |->
                                 [status |-> status[o], placeable |-> o \in located]])'
            BY DEF JobsCurrent
        <2>2. j \in computing /\ j \in computing' /\ snap'[j] = snap[j]
              /\ job'[j].scope = job[j].scope
            BY DEF JobsCurrent
        <2>3. snap[j] = [o \in Dispatchable(job[j].scope) |->
                          [status |-> status[o], placeable |-> o \in located]]
            BY DEF JobsCurrent
        <2> QED
            BY <2>1, <2>2, <2>3 DEF Dispatchable, WithStatus, Published, Routed
    <1> QED BY <1>1, <1>2, <1>3

LEMMA JobsOnlyKeepsSerial ==
    ASSUME JobsInv, SerialInv, JobsOnlyStep, UNCHANGED dispatchVars
    PROVE  SerialInv'
    <1>1. PICK i \in Jobs :
            \/ \E s \in Scopes : CreateJob(i, s)
            \/ PostJob(i) \/ PostRefused(i) \/ PostLost(i)
            \/ WorkerStep(i) \/ AnnounceJob(i)
            \/ \E kept \in BOOLEAN : LoseClaim(i, kept)
        BY DEF JobsOnlyStep
    <1>2. computing \subseteq computing'
        BY <1>1
        DEF CreateJob, PostJob, PostRefused, PostLost, WorkerStep, ClaimJob, RefuseJob,
            SkipJob, AnnounceJob, LoseClaim
    <1>3. ASSUME NEW j \in Jobs, j \in computing PROVE job'[j].scope = job[j].scope
        <2>1. job[j].status = "running"
            BY <1>3 DEF JobsInv, OneWriterPerJob
        <2>2. CASE \E s \in Scopes : CreateJob(i, s)
            BY <2>1, <2>2 DEF CreateJob, JobsInv, JobsTypeOK
        <2>3. CASE \E st \in JobStatus : SetStatus(i, st)
            BY <1>3, <2>3, SetStatusRow DEF JobsInv
        <2>4. CASE UNCHANGED job
            BY <2>4
        <2> QED
            BY <1>1, <2>2, <2>3, <2>4
            DEF PostJob, PostRefused, PostLost, WorkerStep, ClaimJob, RefuseJob, SkipJob,
                AnnounceJob, LoseClaim, JobStatus
    <1> QED BY <1>2, <1>3, JobsKeepSerial DEF dispatchVars, rows, Computing

LEMMA JobStepKeepsSerial ==
    ASSUME DispatchInv, JobsInv, SerialInv, NEW j \in Jobs, JobStep(j)
    PROVE  SerialInv'
    <1> USE DEF DispatchInv, RowsTypeOK
    <1>1. CASE ReadOrders(j)
        <2> USE DEF SerialInv
        <2>1. NothingOpen
            BY <1>1, OpensAlone DEF ReadOrders
        <2>2. UNCHANGED <<rows, req, jobVars>>
            BY <1>1 DEF ReadOrders, rows
        <2>3. /\ snap'[j] = [o \in Dispatchable(job[j].scope) |->
                               [status |-> status[o], placeable |-> o \in located]]
              /\ \A i \in Jobs \ {j} : ~ Computing(i)'
            BY <1>1, <2>1 DEF ReadOrders, NothingOpen, Computing
        <2>4. OneAtATime'
            BY <2>1, <2>2, <2>3 DEF NothingOpen, OneAtATime, IsIdle
        <2>5. RequestsCurrent'
            BY <2>2, RequestsStayCurrent
        <2>6. JobsCurrent'
            BY <1>1, <2>2, <2>3, SameQueries DEF JobsCurrent, ReadOrders, rows, jobVars
        <2> QED BY <2>4, <2>5, <2>6
    <1>2. CASE DraftPlan(j)
        BY <1>2, JobEndsAlone, NothingOpenIsSerial DEF DraftPlan, SerialInv
    <1>3. CASE AbandonPlan(j) \/ LosePlan(j)
        <2>1. snap' = [snap EXCEPT ![j] = NoSnap] /\ UNCHANGED <<rows, req>>
            BY <1>3 DEF AbandonPlan, LosePlan, rows
        <2>2. \A i \in Jobs : i # j => (i \in computing <=> i \in computing') /\ job'[i].scope = job[i].scope
            BY <1>3, SetStatusRow
            DEF AbandonPlan, LosePlan, FailJob, KillJob, SetStatus, JobsInv, JobsTypeOK
        <2>3. \A i \in Jobs : Computing(i)' => i # j /\ Computing(i) /\ snap'[i] = snap[i]
            BY <2>1 DEF Computing
        <2> QED BY <2>1, <2>2, <2>3, JobsKeepSerial
    <1> QED BY <1>1, <1>2, <1>3 DEF JobStep

LEMMA RequestKeepsSerial ==
    ASSUME DispatchInv, SerialInv, NEW r \in Requests, RequestStep(r), UNCHANGED rows, ~ NothingOpen'
    PROVE  SerialInv'
    <1> USE DEF DispatchInv, RowsTypeOK
    <1>1. ~ (Close(r) /\ ~ IsIdle(r) /\ UNCHANGED snap)
        BY ClosesAlone DEF SerialInv
    <1>2. ASSUME NEW p \in PlanIds, PublishBegin(r, p) PROVE SerialInv'
        <2> DEFINE rec == [Idle EXCEPT !.op = "archiving", !.plan = p, !.previous = Replaced(p)]
        <2>1. Open(r, rec) /\ UNCHANGED <<snap, jobVars>>
            BY <1>2 DEF PublishBegin, Replaced
        <2>2. rec.op = "archiving" /\ rec.previous = Replaced(rec.plan)
            BY DEF Idle
        <2> HIDE DEF rec
        <2> QED BY <2>1, <2>2, BeginKeepsSerial
    <1>3. ASSUME NEW p \in PlanIds, NEW o \in Orders, UnassignBegin(r, p, o) PROVE SerialInv'
        <2> DEFINE rec == [Idle EXCEPT !.op = "unassign", !.plan = p, !.seen = [x \in {o} |-> status[x]]]
        <2>1. Open(r, rec) /\ UNCHANGED <<snap, jobVars>>
            BY <1>3 DEF UnassignBegin
        <2>2. rec.op = "unassign" /\ rec.seen = [x \in {o} |-> status[x]]
            BY DEF Idle
        <2> HIDE DEF rec
        <2> QED BY <2>1, <2>2, BeginKeepsSerial
    <1>4. ASSUME NEW o \in Orders, NEW d \in Drivers, AssignBegin(r, o, d) PROVE SerialInv'
        <2> DEFINE rec == [Idle EXCEPT !.op = "assign", !.order = {o}, !.driver = d,
                            !.plan = LatestOrNone(PublishedIn(Region[d]))]
        <2>1. Open(r, rec) /\ UNCHANGED <<snap, jobVars>> /\ status[o] \in Pending
            BY <1>4 DEF AssignBegin
        <2>2. rec.op = "assign" /\ rec.order = {o}
            BY DEF Idle
        <2> HIDE DEF rec
        <2> QED BY <2>1, <2>2, BeginKeepsSerial
    <1>5. ASSUME NEW o \in Orders, InsertBegin(r, o) PROVE SerialInv'
        <2> DEFINE rec == [Idle EXCEPT !.op = "insert", !.order = {o}, !.plan = Latest(Published)]
        <2>1. Open(r, rec) /\ UNCHANGED <<snap, jobVars>>
            BY <1>5 DEF InsertBegin
        <2>2. rec.op = "insert"
            BY DEF Idle
        <2> HIDE DEF rec
        <2> QED BY <2>1, <2>2, BeginKeepsSerial
    <1>6. ASSUME NEW o \in Orders, PatchBegin(r, o) PROVE SerialInv'
        <2> DEFINE rec == [Idle EXCEPT !.op = "patch", !.order = {o}]
        <2>1. Open(r, rec) /\ UNCHANGED <<snap, jobVars>>
            BY <1>6 DEF PatchBegin
        <2>2. rec.op = "patch"
            BY DEF Idle
        <2> HIDE DEF rec
        <2> QED BY <2>1, <2>2, BeginKeepsSerial
    <1>7. ~ PublishCommit(r) /\ ~ UnassignCommit(r) /\ ~ PatchCommit(r) /\ ~ Rollback(r)
        BY <1>1 DEF PublishCommit, UnassignCommit, PatchCommit, Rollback, IsIdle
    <1>8. /\ \A p \in PlanIds : ~ AssignToNewPlan(r, p)
          /\ ~ AssignToPlan(r) /\ ~ InsertRejected(r) /\ \A d \in Drivers : ~ InsertPlaced(r, d)
        BY <1>1 DEF AssignToNewPlan, AssignToPlan, InsertRejected, InsertPlaced, InsertAllowed, IsIdle
    <1> QED
        BY <1>2, <1>3, <1>4, <1>5, <1>6, <1>7, <1>8, PublishReadKeepsSerial
        DEF RequestStep, PublishStep, UnassignStep, AssignStep, InsertStep, PatchStep

LEMMA SerialStep ==
    ASSUME DispatchInv, JobsInv, SerialInv, [DispatchNext]_vars
    PROVE  SerialInv'
    <1>1. CASE NothingOpen'
        BY <1>1, NothingOpenIsSerial
    <1>2. CASE ~ NothingOpen'
        <2>1. UNCHANGED rows
            BY <1>2, WritesEnd
        <2>2. CASE UNCHANGED vars
            BY <2>2, JobsKeepSerial DEF vars, dispatchVars, jobVars, rows, Computing
        <2>3. CASE JobsOnlyStep /\ UNCHANGED dispatchVars
            BY <2>3, JobsOnlyKeepsSerial
        <2>4. ASSUME NEW j \in Jobs, JobStep(j) PROVE SerialInv'
            BY <2>4, JobStepKeepsSerial
        <2>5. ASSUME NEW r \in Requests, RequestStep(r) PROVE SerialInv'
            BY <1>2, <2>1, <2>5, RequestKeepsSerial
        <2>6. ASSUME NEW o \in Orders, OrderStep(o) PROVE SerialInv'
            <3>1. CanOpen /\ UNCHANGED <<req, snap>>
                BY <2>6
                DEF OrderStep, CancelOrder, ManualTransition, DriverTransition, TransitionOrder,
                    EraseOrder, MoveOrder
            <3>2. NothingOpen
                BY <3>1, OpensAlone DEF SerialInv
            <3> QED BY <1>2, <3>1, <3>2 DEF NothingOpen, IsIdle, Computing
        <2> QED BY <2>2, <2>3, <2>4, <2>5, <2>6 DEF DispatchNext
    <1> QED BY <1>1, <1>2

LEMMA SerialInitial == DispatchInit /\ MaxOpen = 1 => SerialInv
    BY DEF DispatchInit, SerialInv, OneAtATime, RequestsCurrent, Current, JobsCurrent, IsIdle,
           Idle, Computing

(* With transactions one at a time, what each goes by is what is committed.  *)
THEOREM SerialInvariant == DispatchSpec /\ MaxOpen = 1 => []SerialInv
    <1>1. DispatchInit /\ MaxOpen = 1 => SerialInv BY SerialInitial
    <1>2. DispatchInv /\ JobsInv /\ SerialInv /\ [DispatchNext]_vars => SerialInv'
        BY SerialStep
    <1> QED BY <1>1, <1>2, DispatchInvariant, DispatchRunsJobs, JobsInvariant, PTL DEF DispatchSpec

-----------------------------------------------------------------------------
(* The lifecycle of orders.                                                  *)

(* The moves that planning, publishing, assigning and rejecting make.        *)
LEMMA PlanningMoves ==
    /\ \A from \in Pending : Lifecycle!CanCommit(from, "assigned")
    /\ \A from \in {"created", "exception"} : Lifecycle!CanCommit(from, "scheduled")
    /\ \A from \in {"created", "scheduled", "assigned"} : Lifecycle!CanCommit(from, "exception")
    BY DEF Pending, Lifecycle!CanCommit, Lifecycle!CanMove, Lifecycle!AllowedTransitions

LEMMA LegalMoves ==
    ASSUME NEW from, NEW to, CanMove(from, to)
    PROVE  Lifecycle!CanCommit(from, to)
    BY DEF CanMove, AllowedTransitions, Lifecycle!CanCommit, Lifecycle!CanMove,
           Lifecycle!AllowedTransitions

(* Every order written moves legally.                                        *)
Moves == \A o \in Orders : status'[o] # status[o] => Lifecycle!CanCommit(status[o], status'[o])

LEMMA WriteMoves ==
    ASSUME NEW S, NEW to, Write(S, to),
           \A o \in S \cap Orders : status[o] = to \/ Lifecycle!CanCommit(status[o], to)
    PROVE  Moves
    BY DEF Write, Moves

LEMMA DraftMoves ==
    ASSUME StatusesTypeOK, JobsCurrent, NEW j \in Jobs, DraftPlan(j)
    PROVE  Moves
    <1> PICK sol \in Solutions(j) :
            status' = [o \in Orders |->
                IF o \in RejectedBy(sol) THEN "exception"
                ELSE IF o \in ScheduledBy(j, sol) THEN "scheduled" ELSE status[o]]
        BY DEF DraftPlan
    <1> DEFINE D == Dispatchable(job[j].scope)
    <1>1. snap[j] = [o \in D |-> [status |-> status[o], placeable |-> o \in located]]
        BY DEF JobsCurrent, DraftPlan
    <1>2. DOMAIN sol = D
        BY <1>1 DEF Solutions
    <1>3. D \subseteq Orders /\ \A o \in D : status[o] \in Pending
        BY DEF Dispatchable
    <1>4. \A o \in D : snap[j][o].status = status[o]
        <2> HIDE DEF D
        <2> QED BY <1>1
    <1>5. \A o \in RejectedBy(sol) : o \in Orders /\ status[o] \in Pending
        BY <1>2, <1>3 DEF RejectedBy
    <1>6. \A o \in ScheduledBy(j, sol) : o \in Orders /\ status[o] \in Pending \ {"scheduled"}
        BY <1>2, <1>3, <1>4 DEF ScheduledBy
    <1>7. ASSUME NEW o \in Orders, status'[o] # status[o]
          PROVE Lifecycle!CanCommit(status[o], status'[o])
        <2>1. CASE o \in RejectedBy(sol)
            BY <1>5, <1>7, <2>1, PlanningMoves DEF Pending
        <2>2. CASE o \notin RejectedBy(sol) /\ o \in ScheduledBy(j, sol)
            BY SMTT(30), <1>6, <1>7, <2>2, PlanningMoves DEF Pending
        <2> QED BY <1>7, <2>1, <2>2
    <1> QED BY <1>7 DEF Moves

LEMMA RequestMoves ==
    ASSUME RowsTypeOK, OpenTransactionsSound, RequestsCurrent, NEW r \in Requests, RequestStep(r)
    PROVE  Moves
    <1>1. CASE UNCHANGED status
        BY <1>1 DEF Moves
    <1>2. Current(r)
        BY DEF RequestsCurrent
    <1>3. CASE PublishCommit(r)
        <2>1. req[r].seen = [o \in Routed(req[r].plan) |-> status[o]]
            BY <1>2, <1>3 DEF PublishCommit, Current
        <2>2. \A o \in PublishedOrders(r) : status[o] \in Pending
            BY <2>1 DEF PublishedOrders
        <2> QED BY <1>3, <2>2, WriteMoves, PlanningMoves DEF PublishCommit
    <1>4. CASE UnassignCommit(r)
        <2>1. PICK o \in Orders : req[r].seen = [x \in {o} |-> status[x]]
            BY <1>2, <1>4 DEF UnassignCommit, Current
        <2>2. \A x \in RejectedOrders(r) : status[x] \in {"created", "scheduled", "assigned"}
            BY <2>1 DEF RejectedOrders
        <2> QED BY <1>4, <2>2, WriteMoves, PlanningMoves DEF UnassignCommit
    <1>5. CASE AssignToPlan(r) \/ \E p \in PlanIds : AssignToNewPlan(r, p)
        <2>1. \A o \in req[r].order : status[o] \in Pending
            BY <1>2, <1>5 DEF AssignToPlan, AssignToNewPlan, Current
        <2> QED BY <1>5, <2>1, WriteMoves, PlanningMoves DEF AssignToPlan, AssignToNewPlan
    <1>6. CASE \E d \in Drivers : InsertPlaced(r, d)
        BY <1>6, WriteMoves, PlanningMoves DEF InsertPlaced
    <1>7. CASE InsertRejected(r)
        <2>1. \A o : status[o] \in Pending =>
                status[o] = "exception" \/ Lifecycle!CanCommit(status[o], "exception")
            BY PlanningMoves DEF Pending
        <2> QED BY <1>7, <2>1, WriteMoves DEF InsertRejected
    <1> QED
        BY <1>1, <1>3, <1>4, <1>5, <1>6, <1>7
        DEF RequestStep, PublishStep, PublishBegin, PublishRead, UnassignStep, UnassignBegin,
            AssignStep, AssignBegin, InsertStep, InsertBegin, PatchStep, PatchBegin,
            PatchCommit, Rollback

LEMMA OrderMoves ==
    ASSUME NEW o \in Orders, OrderStep(o)
    PROVE  Moves
    <1>1. ASSUME NEW to, TransitionOrder(o, to) PROVE Moves
        BY <1>1, LegalMoves, WriteMoves DEF TransitionOrder
    <1> QED
        BY <1>1
        DEF OrderStep, CancelOrder, ManualTransition, DriverTransition, EraseOrder, MoveOrder, Moves

LEMMA LifecycleStep ==
    ASSUME DispatchInv, DispatchInv', SerialInv, [DispatchNext]_vars
    PROVE  [Lifecycle!CommitTransitions]_status
    <1>1. Moves
        BY DraftMoves, RequestMoves, OrderMoves
        DEF DispatchInv, RowsTypeOK, SerialInv, DispatchNext, JobStep, ReadOrders, AbandonPlan,
            LosePlan, Moves, vars, dispatchVars
    <1>2. status' \in [Orders -> Lifecycle!OrderStatus]
        BY DEF DispatchInv, RowsTypeOK, StatusesTypeOK, OrderStatus, Lifecycle!OrderStatus
    <1> QED BY <1>1, <1>2 DEF Moves, Lifecycle!CommitTransitions

(* Without overlap the services move each order as the abstract lifecycle    *)
(* says: by transitions of the machine from its committed status.            *)
THEOREM SerialLifecycle == DispatchSpec /\ MaxOpen = 1 => ImplementsLifecycle
    <1>1. DispatchInit => Lifecycle!LifecycleInit
        BY DEF DispatchInit, Lifecycle!LifecycleInit
    <1>2. DispatchInv /\ DispatchInv' /\ SerialInv /\ [DispatchNext]_vars
            => [Lifecycle!CommitTransitions]_status
        BY LifecycleStep
    <1> QED
        BY <1>1, <1>2, DispatchInvariant, SerialInvariant, PTL
        DEF DispatchSpec, ImplementsLifecycle, Lifecycle!LifecycleSpec

-----------------------------------------------------------------------------
(* Publishing leaves nothing pending.                                        *)

LEMMA NothingPendingStep ==
    ASSUME DispatchInv, SerialInv, [DispatchNext]_vars, NEW p \in PlanIds,
           p \notin Published, plan'[p].status = "published",
           NEW o \in Orders, plan'[p].route[o] # NoDriver
    PROVE  status'[o] \notin Pending
    <1> USE DEF DispatchInv, RowsTypeOK, SerialInv
    <1>1. plan[p].status # "published"
        BY DEF Published, WithStatus
    <1>2. PICK r \in Requests : PublishCommit(r) \/ \E q \in PlanIds : AssignToNewPlan(r, q)
        <2>1. plan'[p].status # plan[p].status
            BY <1>1
        <2>2. ASSUME NEW j \in Jobs, JobStep(j) PROVE FALSE
            BY <1>1, <2>2 DEF JobStep, ReadOrders, DraftPlan, AbandonPlan, LosePlan, PlanRow, PlansTypeOK, PlanRows
        <2>3. ASSUME NEW x \in Orders, OrderStep(x) PROVE FALSE
            BY <1>1, <2>3
            DEF OrderStep, CancelOrder, ManualTransition, DriverTransition, TransitionOrder,
                EraseOrder, MoveOrder, PlansTypeOK, PlanRows
        <2>4. ASSUME NEW r \in Requests, RequestStep(r), ~ PublishCommit(r),
                     \A q \in PlanIds : ~ AssignToNewPlan(r, q)
              PROVE  FALSE
            <3>1. CASE UNCHANGED plan
                BY <1>1, <3>1
            <3>2. ASSUME NEW q, NEW new, plan' = [plan EXCEPT ![q].route = new] PROVE FALSE
                BY <1>1, <3>2 DEF PlansTypeOK, PlanRows
            <3>3. CASE UnassignCommit(r)
                BY <3>2, <3>3 DEF UnassignCommit
            <3>4. CASE \E d \in Drivers : InsertPlaced(r, d)
                BY <3>2, <3>4 DEF InsertPlaced
            <3>5. CASE AssignToPlan(r)
                <4>1. PICK q, new : plan' = [plan EXCEPT ![q].immediate = TRUE, ![q].route = new]
                    BY <3>5 DEF AssignToPlan
                <4> QED BY <1>1, <4>1 DEF PlansTypeOK, PlanRows
            <3> QED
                BY <2>4, <3>1, <3>3, <3>4, <3>5
                DEF RequestStep, PublishStep, PublishBegin, PublishRead, UnassignStep,
                    UnassignBegin, AssignStep, AssignBegin, InsertStep, InsertBegin,
                    InsertRejected, PatchStep, PatchBegin, PatchCommit, Rollback
        <2> QED BY <2>1, <2>2, <2>3, <2>4 DEF DispatchNext, vars, dispatchVars
    <1>3. CASE PublishCommit(r)
        <2>1. /\ req[r].seen = [x \in Routed(req[r].plan) |-> status[x]]
              /\ req[r].plan \in PlanIds
            BY <1>3, TransactionFields DEF RequestsCurrent, Current, PublishCommit,
                  OpenTransactionsSound, HeldDrafts, WithStatus
        <2>2. p = req[r].plan /\ plan'[p].route = plan[p].route
            BY ZenonT(60), <1>1, <1>3, <2>1 DEF PublishCommit, PlansTypeOK, PlanRows
        <2>3. o \in DOMAIN req[r].seen /\ req[r].seen[o] = status[o]
            BY <2>1, <2>2 DEF Routed
        <2>4. status'[o] = IF status[o] \in Pending THEN "assigned" ELSE status[o]
            BY <1>3, <2>3 DEF PublishCommit, Write, PublishedOrders
        <2> QED BY <2>4 DEF Pending
    <1>4. ASSUME NEW q \in PlanIds, AssignToNewPlan(r, q) PROVE status'[o] \notin Pending
        <2>1. p = q
            BY <1>1, <1>4 DEF AssignToNewPlan, PlansTypeOK
        <2>2. o \in req[r].order
            BY <1>4, <2>1 DEF AssignToNewPlan, PlansTypeOK, PlanRow
        <2> QED BY <1>4, <2>2 DEF AssignToNewPlan, Write, Pending
    <1> QED BY <1>2, <1>3, <1>4

(* Without overlap no order of a plan that is published still waits to be    *)
(* planned.                                                                  *)
THEOREM SerialPublishing == DispatchSpec /\ MaxOpen = 1 => PublishLeavesNothingPending
    <1>1. DispatchInv /\ SerialInv /\ [DispatchNext]_vars =>
            [\A p \in PlanIds :
                p \notin Published /\ plan'[p].status = "published" =>
                    \A o \in Orders : plan'[p].route[o] # NoDriver => status'[o] \notin Pending]_vars
        BY NothingPendingStep
    <1> QED
        BY <1>1, DispatchInvariant, SerialInvariant, PTL
        DEF DispatchSpec, PublishLeavesNothingPending

-----------------------------------------------------------------------------
(* Plans do not collide.                                                     *)

(* A job that has not finished has no plan, a done one has one, none has two.*)
JobsHaveTheirPlan ==
    /\ \A p \in PlanIds : plan[p].status = "absent" => plan[p].job = NoJob
    /\ \A p \in PlanIds : plan[p].job \in Jobs => job[plan[p].job].status \in Finished
    /\ \A p, q \in PlanIds : plan[p].job \in Jobs /\ plan[q].job = plan[p].job => p = q
    /\ \A j \in Jobs : job[j].status = "done" => \E p \in PlanIds : plan[p].job = j

NoneDone == \A i \in Jobs : job'[i].status = "done" => job[i].status = "done"

(* Plans are edited without being published, archived or moved elsewhere,    *)
(* and drafts get no more orders.                                            *)
PlansEdited ==
    \A p \in PlanIds :
        /\ plan'[p].status = plan[p].status /\ plan'[p].district = plan[p].district
        /\ plan'[p].job = plan[p].job /\ (plan[p].immediate => plan'[p].immediate)
        /\ plan[p].status = "draft" => Routed(p)' \subseteq Routed(p)

LEMMA JobsOnlyNoneDone ==
    ASSUME JobsInv, JobsOnlyStep
    PROVE  NoneDone
    <1> PICK j \in Jobs :
            \/ \E s \in Scopes : CreateJob(j, s)
            \/ PostJob(j) \/ PostRefused(j) \/ PostLost(j) \/ WorkerStep(j) \/ AnnounceJob(j)
            \/ \E kept \in BOOLEAN : LoseClaim(j, kept)
        BY DEF JobsOnlyStep
    <1>1. CASE \E s \in Scopes : CreateJob(j, s)
        BY <1>1 DEF CreateJob, Row, NoneDone, JobsInv, JobsTypeOK
    <1>2. ASSUME NEW st \in {"failed", "running"}, SetStatus(j, st) PROVE NoneDone
        BY <1>2, SetStatusRow DEF NoneDone, JobsInv, JobStatus
    <1>3. CASE UNCHANGED job
        BY <1>3 DEF NoneDone
    <1> QED
        BY <1>1, <1>2, <1>3
        DEF PostJob, PostRefused, PostLost, WorkerStep, ClaimJob, RefuseJob, SkipJob, AnnounceJob,
            LoseClaim

LEMMA SamePlansEdited ==
    ASSUME UNCHANGED plan
    PROVE  PlansEdited
    BY DEF PlansEdited, Routed

Unrouted(route) == {o \in Orders : route[o] = NoDriver}

(* An edit of one plan's route ...                                           *)
LEMMA RouteEdited ==
    ASSUME PlansTypeOK, NEW p \in PlanIds, NEW route,
           \/ plan' = [plan EXCEPT ![p].route = route]
           \/ plan' = [plan EXCEPT ![p].immediate = TRUE, ![p].route = route],
           plan[p].status = "draft" => Unrouted(plan[p].route) \subseteq Unrouted(route)
    PROVE  PlansEdited
    <1>1. /\ plan'[p].route = route /\ plan'[p].status = plan[p].status
          /\ plan'[p].district = plan[p].district /\ plan'[p].job = plan[p].job
          /\ plan[p].immediate => plan'[p].immediate
        BY DEF PlansTypeOK, PlanRows
    <1>2. \A q \in PlanIds \ {p} : plan'[q] = plan[q]
        BY DEF PlansTypeOK
    <1> QED BY <1>1, <1>2 DEF PlansEdited, Routed, Unrouted

(* ... is all that requests do to plans before they are published.           *)
LEMMA RequestsEdit ==
    ASSUME DispatchInv, NEW r \in Requests, RequestStep(r), ~ PublishCommit(r),
           \A p \in PlanIds : ~ AssignToNewPlan(r, p)
    PROVE  PlansEdited
    <1> USE DEF DispatchInv, RowsTypeOK, OpenTransactionsSound
    <1>1. CASE UNCHANGED plan
        BY <1>1, SamePlansEdited
    <1>2. CASE UnassignCommit(r)
        <2> DEFINE route == [o \in Orders |-> IF o \in DOMAIN req[r].seen THEN NoDriver
                                              ELSE plan[req[r].plan].route[o]]
        <2>1. /\ plan' = [plan EXCEPT ![req[r].plan].route = route]
              /\ req[r].plan \in PlanIds
            BY <1>2 DEF UnassignCommit, HeldDrafts, WithStatus
        <2>2. Unrouted(plan[req[r].plan].route) \subseteq Unrouted(route)
            BY DEF Unrouted
        <2> HIDE DEF route
        <2> QED BY <2>1, <2>2, RouteEdited
    <1>3. CASE AssignToPlan(r)
        <2>1. req[r].plan \in PlanIds /\ plan[req[r].plan].status # "draft"
            BY <1>3, TransactionFields DEF AssignToPlan, HeldIssued, Issued
        <2>2. PICK route : plan' = [plan EXCEPT ![req[r].plan].immediate = TRUE,
                                                ![req[r].plan].route = route]
            BY <1>3 DEF AssignToPlan
        <2> QED BY <2>1, <2>2, RouteEdited
    <1>4. ASSUME NEW d \in Drivers, InsertPlaced(r, d) PROVE PlansEdited
        <2>1. req[r].plan \in PlanIds /\ plan[req[r].plan].status # "draft"
            BY <1>4, TransactionFields DEF InsertPlaced, InsertAllowed, HeldIssued, Issued
        <2>2. PICK route : plan' = [plan EXCEPT ![req[r].plan].route = route]
            BY <1>4 DEF InsertPlaced
        <2> QED BY <2>1, <2>2, RouteEdited
    <1> QED
        BY <1>1, <1>2, <1>3, <1>4
        DEF RequestStep, PublishStep, PublishBegin, PublishRead, UnassignStep, UnassignBegin,
            AssignStep, AssignBegin, InsertStep, InsertBegin, InsertRejected, PatchStep,
            PatchBegin, PatchCommit, Rollback

LEMMA OrdersEdit ==
    ASSUME DispatchInv, NEW o \in Orders, OrderStep(o)
    PROVE  PlansEdited
    <1> USE DEF DispatchInv, RowsTypeOK
    <1>1. ASSUME NEW p \in PlanIds, NEW d \in Drivers, MoveOrder(p, o, d) PROVE PlansEdited
        <2> DEFINE route == [Rebuilt(plan[p].route, {d, plan[p].route[o]}) EXCEPT ![o] = d]
        <2>1. plan' = [plan EXCEPT ![p].route = route] /\ plan[p].route[o] # NoDriver
            BY <1>1 DEF MoveOrder, Routed
        <2>2. Unrouted(plan[p].route) \subseteq Unrouted(route)
            BY <2>1 DEF Rebuilt, Unrouted
        <2> HIDE DEF route
        <2> QED BY <2>1, <2>2, RouteEdited
    <1>2. CASE UNCHANGED plan
        BY <1>2, SamePlansEdited
    <1> QED
        BY <1>1, <1>2
        DEF OrderStep, CancelOrder, ManualTransition, DriverTransition, TransitionOrder, EraseOrder

(* Every step is an edit, a publication, a new draft or a new plan of an     *)
(* immediate assignment; only the new draft finishes its job.                *)
LEMMA PlanSteps ==
    ASSUME DispatchInv, JobsInv, [DispatchNext]_vars
    PROVE  \/ PlansEdited /\ NoneDone
           \/ \E r \in Requests : PublishCommit(r)
           \/ \E j \in Jobs : DraftPlan(j)
           \/ \E r \in Requests, p \in PlanIds : AssignToNewPlan(r, p)
    <1>1. ASSUME UNCHANGED job PROVE NoneDone
        BY <1>1 DEF NoneDone
    <1>2. CASE UNCHANGED vars
        BY <1>1, <1>2, SamePlansEdited DEF vars, dispatchVars, jobVars
    <1>3. CASE JobsOnlyStep /\ UNCHANGED dispatchVars
        BY <1>3, JobsOnlyNoneDone, SamePlansEdited DEF dispatchVars
    <1>4. ASSUME NEW j \in Jobs, JobStep(j), ~ DraftPlan(j) PROVE PlansEdited /\ NoneDone
        <2>1. UNCHANGED plan
            BY <1>4 DEF JobStep, ReadOrders, AbandonPlan, LosePlan
        <2>2. UNCHANGED job \/ SetStatus(j, "failed")
            BY <1>4 DEF JobStep, ReadOrders, AbandonPlan, LosePlan, FailJob, KillJob, jobVars
        <2> QED
            BY <1>1, <2>1, <2>2, SetStatusRow, SamePlansEdited DEF NoneDone, JobsInv, JobStatus
    <1>5. ASSUME NEW r \in Requests, RequestStep(r), ~ PublishCommit(r),
                 \A p \in PlanIds : ~ AssignToNewPlan(r, p)
          PROVE  PlansEdited /\ NoneDone
        <2>1. UNCHANGED job
            BY <1>5
            DEF RequestStep, PublishStep, PublishBegin, PublishRead, PublishCommit, UnassignStep,
                UnassignBegin, UnassignCommit, AssignStep, AssignBegin, AssignToPlan, InsertStep,
                InsertBegin, InsertPlaced, InsertRejected, PatchStep, PatchBegin, PatchCommit,
                Rollback, jobVars
        <2> QED BY SMTT(30), <1>1, <1>5, <2>1, RequestsEdit
    <1>6. ASSUME NEW o \in Orders, OrderStep(o) PROVE PlansEdited /\ NoneDone
        <2>1. UNCHANGED job
            BY <1>6
            DEF OrderStep, CancelOrder, ManualTransition, DriverTransition, TransitionOrder,
                EraseOrder, MoveOrder, jobVars
        <2> QED BY <1>1, <1>6, <2>1, OrdersEdit
    <1> QED BY <1>2, <1>3, <1>4, <1>5, <1>6 DEF DispatchNext

(* What a publication, a draft and an immediate plan do to the rows.         *)
LEMMA PublishedRows ==
    ASSUME DispatchInv, NEW r \in Requests, PublishCommit(r)
    PROVE  /\ req[r].plan \in WithStatus("draft") /\ UNCHANGED job
           /\ \A q \in PlanIds :
                /\ plan'[q].route = plan[q].route /\ plan'[q].district = plan[q].district
                /\ plan'[q].job = plan[q].job /\ plan'[q].immediate = plan[q].immediate
                /\ plan'[q].status = IF q = req[r].plan THEN "published"
                                     ELSE IF q \in req[r].previous THEN "archived"
                                     ELSE plan[q].status
    BY DEF DispatchInv, RowsTypeOK, OpenTransactionsSound, HeldDrafts, PublishCommit, PlansTypeOK,
           PlanRows, jobVars

LEMMA ImmediateRow ==
    ASSUME DispatchInv, NEW r \in Requests, NEW p \in PlanIds, AssignToNewPlan(r, p)
    PROVE  /\ plan[p].status = "absent" /\ UNCHANGED job
           /\ plan'[p].status = "published" /\ plan'[p].job = NoJob /\ plan'[p].immediate
           /\ \A q \in PlanIds \ {p} : plan'[q] = plan[q]
    BY DEF DispatchInv, RowsTypeOK, AssignToNewPlan, FreshPlan, PlansTypeOK, PlanRow, jobVars

LEMMA DraftRow ==
    ASSUME DispatchInv, JobsInv, NEW j \in Jobs, DraftPlan(j)
    PROVE  \E p \in PlanIds :
            /\ plan[p].status = "absent"
            /\ plan'[p].status = "draft" /\ plan'[p].district = job[j].scope /\ plan'[p].job = j
            /\ Routed(p)' \subseteq DOMAIN snap[j]
            /\ \A q \in PlanIds \ {p} : plan'[q] = plan[q]
            /\ job[j].status = "running" /\ job'[j].status = "done"
            /\ \A i \in Jobs \ {j} : job'[i] = job[i]
    <1> PICK p \in PlanIds, sol \in Solutions(j) :
            /\ FreshPlan(p)
            /\ FinishJob(j)
            /\ plan' = [plan EXCEPT ![p] = PlanRow("draft", job[j].scope, j, FALSE, 0,
                    [o \in Orders |-> IF o \in DOMAIN sol THEN sol[o] ELSE NoDriver])]
        BY DEF DraftPlan
    <1> DEFINE route == [o \in Orders |-> IF o \in DOMAIN sol THEN sol[o] ELSE NoDriver]
    <1>1. DOMAIN sol = DOMAIN snap[j]
        BY DEF Solutions
    <1>2. /\ plan'[p] = PlanRow("draft", job[j].scope, j, FALSE, 0, route)
          /\ \A q \in PlanIds \ {p} : plan'[q] = plan[q]
        BY DEF DispatchInv, RowsTypeOK, PlansTypeOK
    <1>3. plan'[p].route = route /\ plan'[p].status = "draft"
          /\ plan'[p].district = job[j].scope /\ plan'[p].job = j
        BY <1>2 DEF PlanRow
    <1>4. Routed(p)' \subseteq DOMAIN snap[j]
        BY <1>1, <1>3 DEF Routed
    <1>5. /\ job[j].status = "running" /\ job'[j].status = "done"
          /\ \A i \in Jobs \ {j} : job'[i] = job[i]
        BY SetStatusRow DEF FinishJob, JobsInv, OneWriterPerJob, JobStatus
    <1> HIDE DEF route
    <1> QED BY <1>2, <1>3, <1>4, <1>5 DEF FreshPlan

LEMMA FinishedStays ==
    ASSUME JobsInv, [DispatchNext]_vars, NEW i \in Jobs, job[i].status \in Finished
    PROVE  job'[i].status \in Finished
    <1>1. job'[i] \in {job[i], Row("failed", job[i].scope)}
        BY JobsStepInDispatch, FinishedRowsStay
    <1> QED BY <1>1 DEF Row, Finished

(* However transactions overlap, plans stay with the job they are of.        *)
LEMMA JobsKeepTheirPlan ==
    ASSUME DispatchInv, JobsInv, JobsHaveTheirPlan, [DispatchNext]_vars
    PROVE  JobsHaveTheirPlan'
    <1> USE DEF JobsHaveTheirPlan
    <1>1. CASE PlansEdited /\ NoneDone
        BY <1>1, FinishedStays DEF PlansEdited, NoneDone
    <1>2. ASSUME NEW r \in Requests, PublishCommit(r) PROVE JobsHaveTheirPlan'
        BY <1>2, PublishedRows
        DEF DispatchInv, OpenTransactionsSound, HeldIssued, Issued, WithStatus
    <1>3. ASSUME NEW r \in Requests, NEW p \in PlanIds, AssignToNewPlan(r, p)
          PROVE  JobsHaveTheirPlan'
        <2>1. plan[p].job \notin Jobs
            BY <1>3, ImmediateRow, DispatchAssumption
        <2> QED BY <1>3, <2>1, ImmediateRow, DispatchAssumption
    <1>4. ASSUME NEW j \in Jobs, DraftPlan(j) PROVE JobsHaveTheirPlan'
        <2> PICK p \in PlanIds :
                /\ plan[p].status = "absent"
                /\ plan'[p].status = "draft" /\ plan'[p].job = j
                /\ \A q \in PlanIds \ {p} : plan'[q] = plan[q]
                /\ job[j].status = "running" /\ job'[j].status = "done"
                /\ \A i \in Jobs \ {j} : job'[i] = job[i]
            BY <1>4, DraftRow
        <2>1. \A q \in PlanIds : plan[q].job # j
            BY DEF Finished
        <2>2. plan[p].job \notin Jobs
            BY DispatchAssumption
        <2>3. \A q \in PlanIds : plan'[q].job \in Jobs => job'[plan'[q].job].status \in Finished
            BY <2>1 DEF Finished
        <2>4. \A q, x \in PlanIds : plan'[q].job \in Jobs /\ plan'[x].job = plan'[q].job => q = x
            BY <2>1
        <2>5. \A i \in Jobs : job'[i].status = "done" => \E q \in PlanIds : plan'[q].job = i
            BY <2>2
        <2>6. \A q \in PlanIds : plan'[q].status = "absent" => plan'[q].job = NoJob
            OBVIOUS
        <2> QED BY <2>3, <2>4, <2>5, <2>6
    <1> QED BY <1>1, <1>2, <1>3, <1>4, PlanSteps

LEMMA JobsCountTheirPlan == JobsHaveTheirPlan => OnePlanPerDoneJob
    <1> SUFFICES ASSUME JobsHaveTheirPlan PROVE OnePlanPerDoneJob
        OBVIOUS
    <1> SUFFICES ASSUME NEW j \in Jobs
                 PROVE  CASE job[j].status = "done" -> Cardinality({p \in PlanIds : plan[p].job = j}) = 1
                          [] job[j].status = "failed" -> Cardinality({p \in PlanIds : plan[p].job = j}) <= 1
                          [] OTHER -> Cardinality({p \in PlanIds : plan[p].job = j}) = 0
        BY DEF OnePlanPerDoneJob
    <1> DEFINE P == {p \in PlanIds : plan[p].job = j}
    <1>1. P = {} \/ \E p : P = {p}
        BY DEF JobsHaveTheirPlan
    <1>2. P = {} => Cardinality(P) = 0
        BY FS_EmptySet
    <1>3. (\E p : P = {p}) => Cardinality(P) = 1
        BY FS_Singleton
    <1>4. job[j].status = "done" => P # {}
        BY DEF JobsHaveTheirPlan
    <1>5. job[j].status \notin {"done", "failed"} => P = {}
        BY DEF JobsHaveTheirPlan, Finished
    <1> HIDE DEF P
    <1>6. /\ job[j].status = "done" => Cardinality(P) = 1
          /\ job[j].status = "failed" => Cardinality(P) <= 1
          /\ job[j].status \notin {"done", "failed"} => Cardinality(P) = 0
        BY <1>1, <1>2, <1>3, <1>4, <1>5
    <1> QED BY <1>6 DEF P

(* Whatever is redelivered, dies or overlaps, no job makes a second plan and *)
(* none is done without one.                                                 *)
THEOREM JobsMakeOnePlan == DispatchSpec => []OnePlanPerDoneJob
    <1>1. DispatchInit => JobsHaveTheirPlan
        BY DispatchAssumption
        DEF DispatchInit, JobsInit, JobsHaveTheirPlan, AbsentPlan, PlanRow, Row
    <1>2. DispatchInv /\ JobsInv /\ JobsHaveTheirPlan /\ [DispatchNext]_vars => JobsHaveTheirPlan'
        BY JobsKeepTheirPlan
    <1> QED
        BY <1>1, <1>2, JobsCountTheirPlan, DispatchInvariant, DispatchRunsJobs, JobsInvariant, PTL
        DEF DispatchSpec

(* Plans of a district, and drafts of two.                                   *)
PlansApart == OnePlanInForce /\ DistrictsPlanDisjointOrders

LEMMA PlansStayApart ==
    ASSUME DispatchInv, JobsInv, SerialInv, PlansApart, [DispatchNext]_vars
    PROVE  PlansApart'
    <1> USE DEF PlansApart, OnePlanInForce, DistrictsPlanDisjointOrders, Published, WithStatus
    <1>1. CASE PlansEdited
        BY <1>1 DEF PlansEdited
    <1>2. ASSUME NEW r \in Requests, PublishCommit(r) PROVE PlansApart'
        <2> DEFINE p == req[r].plan
        <2>1. /\ p \in PlanIds
              /\ \A q \in PlanIds :
                   /\ plan'[q].route = plan[q].route /\ plan'[q].district = plan[q].district
                   /\ plan'[q].immediate = plan[q].immediate
                   /\ plan'[q].status = IF q = p THEN "published"
                                        ELSE IF q \in req[r].previous THEN "archived"
                                        ELSE plan[q].status
            BY <1>2, PublishedRows
        <2>2. \A q \in PlanIds :
                plan[q].status = "published" /\ plan[q].district = plan[p].district
                /\ ~ plan[q].immediate => q \in req[r].previous
            BY <1>2 DEF SerialInv, RequestsCurrent, Current, PublishCommit, Replaced, PublishedIn
        <2> HIDE DEF p
        <2>3. OnePlanInForce'
            BY <2>1, <2>2
        <2>4. DistrictsPlanDisjointOrders'
            BY <2>1 DEF Routed
        <2> QED BY <2>3, <2>4
    <1>3. ASSUME NEW r \in Requests, NEW p \in PlanIds, AssignToNewPlan(r, p) PROVE PlansApart'
        <2>1. OnePlanInForce'
            BY <1>3, ImmediateRow
        <2>2. DistrictsPlanDisjointOrders'
            BY <1>3, ImmediateRow DEF Routed
        <2> QED BY <2>1, <2>2
    <1>4. ASSUME NEW j \in Jobs, DraftPlan(j) PROVE PlansApart'
        <2> PICK p \in PlanIds :
                /\ plan[p].status = "absent"
                /\ plan'[p].status = "draft" /\ plan'[p].district = job[j].scope
                /\ Routed(p)' \subseteq DOMAIN snap[j]
                /\ \A q \in PlanIds \ {p} : plan'[q] = plan[q]
            BY <1>4, DraftRow
        <2>1. DOMAIN snap[j] = Dispatchable(job[j].scope)
            BY ZenonT(60), <1>4 DEF DraftPlan, SerialInv, JobsCurrent
        <2>2. \A q \in PlanIds \ {p} :
                plan[q].status = "draft" /\ plan[q].district # job[j].scope
                    => Routed(q)' \cap Routed(p)' = {}
            BY <2>1 DEF Dispatchable, Routed
        <2>3. OnePlanInForce'
            OBVIOUS
        <2>4. DistrictsPlanDisjointOrders'
            <3> SUFFICES ASSUME NEW q \in PlanIds, NEW x \in PlanIds,
                                plan'[q].status = "draft", plan'[x].status = "draft",
                                plan'[q].district # plan'[x].district
                         PROVE  Routed(q)' \cap Routed(x)' = {}
                OBVIOUS
            <3>1. CASE q # p /\ x # p
                BY <3>1 DEF Routed
            <3> QED BY <2>2, <3>1
        <2> QED BY <2>3, <2>4
    <1> QED BY <1>1, <1>2, <1>3, <1>4, PlanSteps

(* Without overlap two plans collide neither over a district, nor over a job,*)
(* nor two drafts over an order.                                             *)
THEOREM SerialPlansDoNotCollide == DispatchSpec /\ MaxOpen = 1 => []PlansDoNotCollide
    <1>1. DispatchInit => PlansApart
        BY DEF DispatchInit, PlansApart, OnePlanInForce, DistrictsPlanDisjointOrders, Published,
               WithStatus, AbsentPlan, PlanRow
    <1>2. DispatchInv /\ JobsInv /\ SerialInv /\ PlansApart /\ [DispatchNext]_vars => PlansApart'
        BY PlansStayApart
    <1>3. PlansApart /\ OnePlanPerDoneJob => PlansDoNotCollide
        BY DEF PlansApart, PlansDoNotCollide
    <1> QED
        BY <1>1, <1>2, <1>3, SerialInvariant, JobsMakeOnePlan, DispatchInvariant, DispatchRunsJobs,
           JobsInvariant, PTL
        DEF DispatchSpec

-----------------------------------------------------------------------------
(* Immediate dispatch.                                                       *)

NoDrafts == WithStatus("draft") = {}

(* An order is on one published plan and no longer pending, and one that is  *)
(* being assigned is pending.                                                *)
AssignedInv ==
    /\ "exception" \notin ManualTargets
    /\ \A o \in Orders : \A p, q \in Published : o \in Routed(p) /\ o \in Routed(q) => p = q
    /\ \A o \in Orders : status[o] \in Pending => ~ HasPublishedDriver(o)
    /\ \A r \in Requests : req[r].op = "assign" => \A o \in req[r].order : status[o] \in Pending

(* A step that puts no order on a published plan, makes none pending and     *)
(* leaves those being assigned pending.                                      *)
NoneAssigned ==
    /\ \A p \in Published' : p \in Published /\ Routed(p)' \subseteq Routed(p)
    /\ \A o \in Orders : status'[o] \in Pending => status[o] \in Pending
    /\ \A r \in Requests : req'[r].op = "assign" =>
         \A o \in req'[r].order : status'[o] \in Pending

LEMMA NoneAssignedKeeps ==
    ASSUME AssignedInv, NoneAssigned
    PROVE  AssignedInv'
    BY DEF AssignedInv, NoneAssigned, HasPublishedDriver

(* A step that puts the pending orders S on the plan p.                      *)
AssignedTo(S, p) ==
    /\ \A o \in S : status[o] \in Pending
    /\ \A q \in Published' : \A o \in Routed(q)' :
         (q \in Published /\ o \in Routed(q)) \/ (q = p /\ o \in S)
    /\ Write(S, "assigned")

LEMMA AssignedToKeeps ==
    ASSUME DispatchInv, AssignedInv, NEW r \in Requests, req[r].op \in {"assign", "insert"},
           NEW p, AssignedTo(req[r].order, p), Close(r)
    PROVE  AssignedInv'
    <1> USE DEF DispatchInv, RowsTypeOK
    <1> DEFINE S == req[r].order
    <1>1. \A o \in Orders : status'[o] = IF o \in S THEN "assigned" ELSE status[o]
        BY DEF AssignedTo, Write
    <1>2. ASSUME NEW o \in Orders, NEW q \in Published', o \in Routed(q)', o \notin S
          PROVE  q \in Published /\ o \in Routed(q)
        BY <1>2 DEF AssignedTo
    <1>3. ASSUME NEW o \in Orders, NEW q \in Published', o \in Routed(q)', o \in S
          PROVE  q = p
        BY <1>3 DEF AssignedTo, AssignedInv, HasPublishedDriver
    <1>4. \A o \in Orders : \A x, q \in Published' : o \in Routed(x)' /\ o \in Routed(q)' => x = q
        BY <1>2, <1>3 DEF AssignedInv
    <1>5. \A o \in Orders : status'[o] \in Pending => ~ HasPublishedDriver(o)'
        BY <1>1, <1>2 DEF AssignedInv, HasPublishedDriver, Pending
    <1>6. ASSUME NEW x \in Requests, req'[x].op = "assign", NEW o \in req'[x].order
          PROVE  status'[o] \in Pending
        <2>1. x # r /\ req'[x] = req[x]
            BY <1>6 DEF Close, Idle, RequestsTypeOK
        <2>2. o \in Orders /\ o \notin S
            BY <1>6, <2>1, TransactionFields DEF OpenTransactionsSound, LocksExclusive, LocksOrder
        <2> QED BY <1>1, <1>6, <2>1, <2>2 DEF AssignedInv
    <1> HIDE DEF S
    <1> QED BY <1>4, <1>5, <1>6 DEF AssignedInv

LEMMA AssignToPlanKeeps ==
    ASSUME DispatchInv, AssignedInv, NEW r \in Requests, AssignToPlan(r)
    PROVE  AssignedInv'
    <1> USE DEF DispatchInv, RowsTypeOK
    <1> DEFINE p == req[r].plan
               S == req[r].order
               route == [o \in Orders |-> IF o \in S THEN req[r].driver ELSE plan[p].route[o]]
    <1>1. p \in PlanIds /\ req[r].op = "assign" /\ Close(r) /\ Write(S, "assigned")
        BY TransactionFields DEF AssignToPlan
    <1>2. plan' = [plan EXCEPT ![p].immediate = TRUE, ![p].route = route]
        BY DEF AssignToPlan
    <1>3. /\ plan'[p].status = plan[p].status /\ plan'[p].route = route
          /\ \A q \in PlanIds \ {p} : plan'[q] = plan[q]
        <2> HIDE DEF route
        <2> QED BY <1>1, <1>2 DEF PlansTypeOK, PlanRows
    <1>4. \A o \in S : status[o] \in Pending
        BY <1>1 DEF AssignedInv
    <1>5. ASSUME NEW q \in Published', NEW o \in Routed(q)'
          PROVE  (q \in Published /\ o \in Routed(q)) \/ (q = p /\ o \in S)
        <2>1. CASE q = p
            BY <1>1, <1>3, <1>5, <2>1 DEF Routed, Published, WithStatus
        <2>2. CASE q # p
            BY <1>3, <1>5, <2>2 DEF Routed, Published, WithStatus
        <2> QED BY <2>1, <2>2
    <1>6. AssignedTo(S, p)
        BY <1>1, <1>4, <1>5 DEF AssignedTo
    <1> QED BY <1>1, <1>6, AssignedToKeeps

LEMMA AssignToNewPlanKeeps ==
    ASSUME DispatchInv, AssignedInv, NEW r \in Requests, NEW p \in PlanIds,
           AssignToNewPlan(r, p)
    PROVE  AssignedInv'
    <1> USE DEF DispatchInv, RowsTypeOK
    <1> DEFINE S == req[r].order
               route == [o \in Orders |-> IF o \in S THEN req[r].driver ELSE NoDriver]
    <1>1. req[r].op = "assign" /\ Close(r) /\ Write(S, "assigned")
        BY DEF AssignToNewPlan
    <1>2. /\ plan'[p].route = route
          /\ \A q \in PlanIds \ {p} : plan'[q] = plan[q]
        BY DEF AssignToNewPlan, PlansTypeOK, PlanRow
    <1>3. \A o \in S : status[o] \in Pending
        BY <1>1 DEF AssignedInv
    <1>4. ASSUME NEW q \in Published', NEW o \in Routed(q)'
          PROVE  (q \in Published /\ o \in Routed(q)) \/ (q = p /\ o \in S)
        <2>1. CASE q = p
            BY <1>2, <1>4, <2>1 DEF Routed
        <2>2. CASE q # p
            BY <1>2, <1>4, <2>2 DEF Routed, Published, WithStatus
        <2> QED BY <2>1, <2>2
    <1>5. AssignedTo(S, p)
        BY <1>1, <1>3, <1>4 DEF AssignedTo
    <1> QED BY <1>1, <1>5, AssignedToKeeps

LEMMA InsertPlacedKeeps ==
    ASSUME DispatchInv, AssignedInv, NEW r \in Requests, NEW d \in Drivers, InsertPlaced(r, d)
    PROVE  AssignedInv'
    <1> USE DEF DispatchInv, RowsTypeOK, OpenTransactionsSound
    <1> DEFINE p == req[r].plan
               S == req[r].order
               used == {plan[p].route[o] : o \in Routed(p)}
               route == [o \in Orders |-> IF o \in S THEN d ELSE Rebuilt(plan[p].route, used)[o]]
    <1>1. /\ p \in PlanIds /\ req[r].op = "insert" /\ Close(r) /\ Write(S, "assigned")
          /\ \A o \in S : status[o] \in Pending
        BY TransactionFields DEF InsertPlaced, InsertAllowed, HeldIssued
    <1>2. plan' = [plan EXCEPT ![p].route = route]
        BY DEF InsertPlaced
    <1>3. /\ plan'[p].status = plan[p].status /\ plan'[p].route = route
          /\ \A q \in PlanIds \ {p} : plan'[q] = plan[q]
        <2> HIDE DEF route
        <2> QED BY SMTT(30), <1>1, <1>2 DEF PlansTypeOK, PlanRows
    <1>4. \A o \in Orders \ S : plan'[p].route[o] \in {plan[p].route[o], NoDriver}
        BY <1>3 DEF Rebuilt
    <1>5. ASSUME NEW q \in Published', NEW o \in Routed(q)'
          PROVE  (q \in Published /\ o \in Routed(q)) \/ (q = p /\ o \in S)
        <2> HIDE DEF route, used
        <2>1. CASE q = p
            BY <1>1, <1>3, <1>4, <1>5, <2>1 DEF Routed, Published, WithStatus
        <2>2. CASE q # p
            BY <1>3, <1>5, <2>2 DEF Routed, Published, WithStatus
        <2> QED BY <2>1, <2>2
    <1>6. AssignedTo(S, p)
        BY <1>1, <1>5 DEF AssignedTo
    <1> QED BY <1>1, <1>6, AssignedToKeeps

(* The order statuses stay, and a transaction goes on with orders pending.   *)
LEMMA BeginAssignsNone ==
    ASSUME DispatchInv, AssignedInv, UNCHANGED <<status, plan>>, NEW r \in Requests, NEW rec,
           req' = [req EXCEPT ![r] = rec],
           rec.op = "assign" => \A o \in rec.order : status[o] \in Pending
    PROVE  AssignedInv'
    <1>1. req'[r] = rec /\ \A x \in Requests \ {r} : req'[x] = req[x]
        BY DEF DispatchInv, RowsTypeOK, RequestsTypeOK
    <1>2. status' = status /\ plan' = plan
        OBVIOUS
    <1>3. NoneAssigned
        BY <1>1, <1>2 DEF NoneAssigned, AssignedInv, Published, WithStatus, Routed
    <1> QED BY <1>3, NoneAssignedKeeps

LEMMA OthersAssignNone ==
    ASSUME AssignedInv, UNCHANGED <<status, plan, req>>
    PROVE  AssignedInv'
    <1>1. status' = status /\ plan' = plan /\ req' = req
        OBVIOUS
    <1>2. NoneAssigned
        BY <1>1 DEF NoneAssigned, AssignedInv, Published, WithStatus, Routed
    <1> QED BY <1>2, NoneAssignedKeeps

LEMMA InsertRejectedKeeps ==
    ASSUME DispatchInv, AssignedInv, NEW r \in Requests, InsertRejected(r)
    PROVE  AssignedInv'
    <1> USE DEF DispatchInv, RowsTypeOK
    <1>1. /\ req[r].op = "insert" /\ Close(r) /\ plan' = plan
          /\ Write({o \in req[r].order : status[o] \in Pending}, "exception")
        BY DEF InsertRejected, InsertAllowed
    <1>2. \A o \in Orders : status'[o] \in {status[o], "exception"}
                            /\ (status'[o] \in Pending => status[o] \in Pending)
                            /\ (status[o] \in Pending => status'[o] \in Pending)
        BY <1>1 DEF Write, Pending
    <1>3. ASSUME NEW x \in Requests, req'[x].op = "assign", NEW o \in req'[x].order
          PROVE  status'[o] \in Pending
        <2>1. req'[x] = req[x]
            BY <1>1, <1>3 DEF Close, Idle, RequestsTypeOK
        <2>2. o \in Orders
            BY <1>3, <2>1, TransactionFields
        <2> QED BY <1>2, <1>3, <2>1, <2>2 DEF AssignedInv
    <1>4. NoneAssigned
        BY <1>1, <1>2, <1>3 DEF NoneAssigned, Published, WithStatus, Routed
    <1> QED BY <1>4, NoneAssignedKeeps

LEMMA TransitionKeeps ==
    ASSUME DispatchInv, AssignedInv, NEW o \in Orders, NEW to, to # "exception",
           TransitionOrder(o, to)
    PROVE  AssignedInv'
    <1> USE DEF DispatchInv, RowsTypeOK
    <1>1. /\ plan' = plan /\ req' = req /\ OrderFree(o) /\ CanMove(status[o], to)
          /\ \A x \in Orders : status'[x] = IF x = o THEN to ELSE status[x]
        BY DEF TransitionOrder, Write
    <1>2. to \in Pending => status[o] \in Pending
        BY <1>1 DEF CanMove, AllowedTransitions, Pending
    <1>3. ASSUME NEW x \in Requests, req[x].op = "assign", NEW y \in req[x].order
          PROVE  status'[y] \in Pending
        <2>1. y \in Orders /\ y # o
            BY <1>1, <1>3, TransactionFields DEF OrderFree, LocksOrder
        <2> QED BY <1>1, <1>3, <2>1 DEF AssignedInv
    <1>4. NoneAssigned
        BY <1>1, <1>2, <1>3 DEF NoneAssigned, Published, WithStatus, Routed
    <1> QED BY <1>4, NoneAssignedKeeps

(* The steps of a day on which no plan is drafted.                           *)
LEMMA RequestKeepsAssigned ==
    ASSUME DispatchInv, AssignedInv, NoDrafts, NEW r \in Requests, RequestStep(r)
    PROVE  AssignedInv'
    <1>1. req[r].op \notin {"archiving", "publishing", "unassign"}
        BY DEF DispatchInv, OpenTransactionsSound, HeldDrafts, NoDrafts
    <1>2. \A p \in PlanIds : plan[p].status # "draft"
        BY SMTT(30) DEF NoDrafts, WithStatus
    <1>3. ~ PublishStep(r) /\ ~ UnassignStep(r)
        BY <1>1, <1>2
        DEF PublishStep, PublishBegin, PublishRead, PublishCommit, UnassignStep,
            UnassignBegin, UnassignCommit
    <1>4. ASSUME NEW rec, Open(r, rec), UNCHANGED <<status, plan>>,
                 rec.op = "assign" => \A o \in rec.order : status[o] \in Pending
          PROVE  AssignedInv'
        BY <1>4, BeginAssignsNone DEF Open
    <1>5. ASSUME Close(r), UNCHANGED <<status, plan>> PROVE AssignedInv'
        <2>1. req' = [req EXCEPT ![r] = Idle] /\ Idle.op # "assign"
            BY <1>5 DEF Close, Idle
        <2> QED BY <1>5, <2>1, BeginAssignsNone
    <1>6. CASE AssignStep(r)
        <2>1. ASSUME NEW o \in Orders, NEW d \in Drivers, AssignBegin(r, o, d)
              PROVE  AssignedInv'
            <3> DEFINE rec == [Idle EXCEPT !.op = "assign", !.order = {o}, !.driver = d,
                                 !.plan = LatestOrNone(PublishedIn(Region[d]))]
            <3>1. Open(r, rec) /\ UNCHANGED <<status, plan>> /\ status[o] \in Pending
                BY <2>1 DEF AssignBegin
            <3>2. rec.order = {o}
                BY DEF Idle
            <3> HIDE DEF rec
            <3> QED BY <1>4, <3>1, <3>2
        <2> QED
            BY <1>6, <2>1, AssignToPlanKeeps, AssignToNewPlanKeeps DEF AssignStep
    <1>7. CASE InsertStep(r)
        <2>1. ASSUME NEW o \in Orders, InsertBegin(r, o) PROVE AssignedInv'
            <3> DEFINE rec == [Idle EXCEPT !.op = "insert", !.order = {o},
                                           !.plan = Latest(Published)]
            <3>1. Open(r, rec) /\ UNCHANGED <<status, plan>> /\ rec.op # "assign"
                BY <2>1 DEF InsertBegin, Idle
            <3> HIDE DEF rec
            <3> QED BY <1>4, <3>1
        <2> QED BY <1>7, <2>1, InsertPlacedKeeps, InsertRejectedKeeps DEF InsertStep
    <1>8. CASE PatchStep(r)
        <2>1. ASSUME NEW o \in Orders, PatchBegin(r, o) PROVE AssignedInv'
            <3> DEFINE rec == [Idle EXCEPT !.op = "patch", !.order = {o}]
            <3>1. Open(r, rec) /\ UNCHANGED <<status, plan>> /\ rec.op # "assign"
                BY <2>1 DEF PatchBegin, Idle
            <3> HIDE DEF rec
            <3> QED BY <1>4, <3>1
        <2>2. CASE PatchCommit(r)
            BY <1>5, <2>2 DEF PatchCommit
        <2> QED BY <1>8, <2>1, <2>2 DEF PatchStep
    <1>9. CASE Rollback(r)
        BY <1>5, <1>9 DEF Rollback
    <1> QED BY <1>3, <1>6, <1>7, <1>8, <1>9 DEF RequestStep

LEMMA OrderStepKeepsAssigned ==
    ASSUME DispatchInv, AssignedInv, NoDrafts, NEW o \in Orders, OrderStep(o)
    PROVE  AssignedInv'
    <1>1. CASE CancelOrder(o)
        BY <1>1, TransitionKeeps DEF CancelOrder
    <1>2. ASSUME NEW to \in OrderStatus, ManualTransition(o, to) \/ DriverTransition(o, to)
          PROVE  AssignedInv'
        <2>1. TransitionOrder(o, to) /\ to # "exception"
            BY <1>2 DEF ManualTransition, DriverTransition, AssignedInv
        <2> QED BY <2>1, TransitionKeeps
    <1>3. CASE EraseOrder(o)
        BY <1>3, OthersAssignNone DEF EraseOrder
    <1>4. ASSUME NEW p \in PlanIds, NEW d \in Drivers, MoveOrder(p, o, d) PROVE FALSE
        BY <1>4 DEF MoveOrder, NoDrafts, WithStatus
    <1> QED BY <1>1, <1>2, <1>3, <1>4 DEF OrderStep

LEMMA JobStepKeepsAssigned ==
    ASSUME DispatchInv, AssignedInv, NoDrafts', NEW j \in Jobs, JobStep(j)
    PROVE  AssignedInv'
    <1>1. CASE DraftPlan(j)
        <2> PICK p \in PlanIds, sol \in Solutions(j) :
                plan' = [plan EXCEPT ![p] = PlanRow("draft", job[j].scope, j, FALSE, 0,
                    [o \in Orders |-> IF o \in DOMAIN sol THEN sol[o] ELSE NoDriver])]
            BY <1>1 DEF DraftPlan
        <2> DEFINE row == PlanRow("draft", job[j].scope, j, FALSE, 0,
                    [o \in Orders |-> IF o \in DOMAIN sol THEN sol[o] ELSE NoDriver])
        <2>1. row.status = "draft" /\ plan' = [plan EXCEPT ![p] = row]
            BY DEF PlanRow
        <2>2. plan'[p].status = "draft"
            <3> HIDE DEF row
            <3> QED BY <2>1 DEF DispatchInv, RowsTypeOK, PlansTypeOK
        <2> QED BY <2>2 DEF NoDrafts, WithStatus
    <1>2. CASE ReadOrders(j) \/ AbandonPlan(j) \/ LosePlan(j)
        BY <1>2, OthersAssignNone DEF ReadOrders, AbandonPlan, LosePlan
    <1> QED BY <1>1, <1>2 DEF JobStep

LEMMA StepKeepsAssigned ==
    ASSUME DispatchInv, AssignedInv, NoDrafts, NoDrafts', [DispatchNext]_vars
    PROVE  AssignedInv'
    <1>1. ASSUME UNCHANGED dispatchVars PROVE AssignedInv'
        BY <1>1, OthersAssignNone DEF dispatchVars
    <1> QED
        BY <1>1, RequestKeepsAssigned, OrderStepKeepsAssigned, JobStepKeepsAssigned
        DEF DispatchNext, vars

LEMMA AssignedInitial ==
    DispatchInit /\ "exception" \notin ManualTargets => AssignedInv
    BY DEF DispatchInit, AssignedInv, AbsentPlan, PlanRow, Published, WithStatus, Idle,
           HasPublishedDriver

LEMMA AssignedInvSuffices == AssignedInv => AssignedOnce
    <1> SUFFICES ASSUME AssignedInv, NEW o \in Orders
                 PROVE  LET carriers == {p \in Published : o \in Routed(p)}
                        IN  /\ Cardinality(carriers) <= 1
                            /\ status[o] \in Pending => carriers = {}
        BY DEF AssignedOnce
    <1> DEFINE carriers == {p \in Published : o \in Routed(p)}
    <1>1. CASE carriers = {}
        BY <1>1, FS_EmptySet
    <1>2. CASE carriers # {}
        <2>1. PICK p \in Published : o \in Routed(p)
            BY <1>2
        <2>2. carriers = {p}
            BY <2>1 DEF AssignedInv
        <2>3. Cardinality(carriers) = 1
            BY <2>2, FS_Singleton
        <2>4. status[o] \notin Pending
            BY <2>1 DEF AssignedInv, HasPublishedDriver
        <2> QED BY <2>3, <2>4
    <1> QED BY <1>1, <1>2

(* On a day that is dispatched order by order, without drafts, an order is   *)
(* carried by one published plan at most and none that still waits by any,   *)
(* however assignments, insertions, edits and endpoints overlap, unless      *)
(* dispatchers send assigned orders back to exception by hand.               *)
THEOREM ImmediateAssignedOnce ==
    DispatchSpec /\ "exception" \notin ManualTargets /\ []NoDrafts => []AssignedOnce
    <1>1. DispatchInit /\ "exception" \notin ManualTargets => AssignedInv
        BY AssignedInitial
    <1>2. DispatchInv /\ AssignedInv /\ NoDrafts /\ NoDrafts' /\ [DispatchNext]_vars
            => AssignedInv'
        BY StepKeepsAssigned
    <1>3. AssignedInv => AssignedOnce
        BY AssignedInvSuffices
    <1> QED BY <1>1, <1>2, <1>3, DispatchInvariant, PTL DEF DispatchSpec

=============================================================================
