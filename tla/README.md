# TLA+ for invotaxi

invotaxi is a dial-a-ride service for people with limited mobility: clients
order trips for a day, dispatchers compute, edit and publish the day's routes,
drivers drive them. This directory models the parts of the system whose
correctness depends on the order in which things happen, in the backend and in
the dispatcher's console, checks the models with TLC and proves the results that
matter most with TLAPS. File paths below are relative to the repository.

## 1. Inventory

The backend (`backend/app`) is a FastAPI service over PostgreSQL (READ
COMMITTED), Redis and an ARQ worker; `backend/routing` is a pure planning
engine. The console (`frontend/src`) is a React application over its REST API
and a WebSocket; `app` (Flutter) is the clients' and drivers' application.

| Component | State it keeps | Operations | Talks to | What makes it correct |
|---|---|---|---|---|
| Order state machine, `services/order_state.py` | `orders.status`, `order_events` | `transition_order` | called by every service; event bus | a status only moves along `_ALLOWED_TRANSITIONS`, from its committed value |
| Routing jobs, `services/dispatch.py`, `workers/main.py` | `routing_jobs`, the ARQ queue | `create_job`, `run_dispatch_job` | advisory lock per (date, district) | one running job per scope; a job runs once; it ends |
| Plans, `services/plans.py` | `route_plans`, `route_assignments` | draft (by the job), `move`, `unassign`, `publish` | orders, jobs | one plan in force; an issued plan is not edited |
| Assignment and insertion, `services/assignment.py`, `DispatchService.insert` | the same rows | `assign`, `insert` | published plans | an order has one driver |
| Orders, `services/orders.py`, `api/v1/orders.py` | `orders`, `client_profiles` (lock) | create, patch, cancel, transitions, twins | dispatch, console | a limit of active orders; edits only in time |
| Auth sessions, `services/auth.py`, `api.ts`, `AuthContext.tsx` | tokens in Redis, local storage, the rotation under way | login, refresh, logout, revoke all | every request of the console | a token is used once; revocation and logout are complete; no false alarm |
| Live link, `realtime/hub.py`, `workers/main.py`, `websocket.ts`, `Map.tsx` | connections per user, the socket, its retry timer, markers | connect, disconnect, retry, publish, move | pages, worker | one socket; a shown page is connected; the map ends on the last position |
| Orders page, `Orders.tsx`, `orders.ts` | list, filter, dialogs, forms, requests in flight | load, edit, assign, delete, import, create | orders, clients | shows what is chosen; keeps what is typed; makes one order |
| Route points, `RouteMapPicker.tsx`, `addressSearch.ts` | a form and a map with a copy of each point | search, suggest, type, click, drag | geocoder | address, coordinates and marker agree |
| Dispatch page, `Dispatch.tsx`, `DayRoutesPanel.tsx`, `dispatch.ts` | date, plan, orders, details, timers | choose, refresh, reload on news, poll | plans, live link | shows the chosen date, never older than known |
| Waybill and routes, `Dispatch.tsx`, `RouteMapView.tsx`, `drivingRoute.ts` | layers, drawings in progress | draw in batches, cancel | route server | only the chosen driver's waybill, in the end whole |
| Drivers page, `Drivers.tsx`, `drivers.ts` | cards, dialogs, polls | list, edit, add, archive, place | drivers endpoints | shows what is chosen; overwrites nothing it knew |
| Passengers page, `Passengers.tsx`, `api/v1/clients.py` | list, dialogs, accounts | search, create, edit, archive | accounts | one account per number; archived accounts stay anonymous |
| Reports of the console, `Analytics.tsx`, `Dashboard.tsx`, `analytics.ts` | period, panels, a cache of five seconds | load, compare, export | orders, plans | the numbers of a page are of the same orders |
| Routing engine, `backend/routing` | none | `solve`, `online_insert`, `validate` | – | windows, seats and lunches respected |
| Event bus and push; report files; dependents, devices; configuration; migrations; mobile client; other screens | – | – | – | not modelled, see section 5 |

What is hard here. In the backend every service method is a transaction of
several statements with no serializable isolation; rows that a session has read
once keep their old contents when they are locked later (SQLAlchemy's identity
map); the worker computes between two transactions; ARQ delivers at least once
and kills workers on a timeout. In the console every click starts a request
whose answer comes whenever it comes, the handler goes on with the values it
closed over, most answers are not matched with what is asked for by then, and
several requests, timers and polls write one piece of state. Each hazard of the
code is listed at its line in `PROJECT.json` with the properties about it, or
with the reason why there is none; section 5 adds those without room there.

## 2. Modules

| Module | Models |
|---|---|
| `OrderStates` | the transition table (constants only) |
| `OrderLifecycle` | abstract: what a committed transaction may do to the orders |
| `RoutingJobs` | `routing_jobs` rows, ARQ messages, workers |
| `Dispatch` | orders, plans and jobs of one date, overlapping transactions; extends `RoutingJobs`, implements `OrderLifecycle` |
| `AuthSessions` | the token service and several tabs of one browser |
| `OrdersScreen` | the list of orders, its dialogs, the orders table under them |
| `OrderForm` | passenger search and creation of orders |
| `RoutePoints` | the two points of a trip in form and map |
| `DispatchScreen` | the day's plan, orders and details |
| `WaybillMap` | the drawing of a waybill and of one order's route |
| `DriversScreen` | the drivers page and the drivers table |
| `ClientsScreen` | the passengers page and the accounts table |
| `ReportScreens` | dashboard and analytics with their cache |
| `LiveSocket` | WebSocket client, hub and live map |
| `MCRoutingJobs`, `MCDispatch` | values and symmetry for TLC |
| `MCOrdersPage`, `MCConsole`, `MCDispatchScreen`, `MCFleet` | compositions for TLC |
| `RoutingJobsProofs`, `DispatchProofs`, `AuthProofs`, `ClientsProofs` | theorems about the modules they are named after |
| `OrdersPageProofs` | theorems about `OrdersScreen`, `OrderForm` and `RoutePoints` |
| `DispatchScreenProofs` | theorems about `DispatchScreen` and `WaybillMap` |
| `LiveSocketProofs` | theorems about `LiveSocket` and `DriversScreen` |
| `ReportProofs` | theorems about `ReportScreens` |

The console modules that share no state are composed for TLC with one part per
behaviour: `part` is chosen at the start, the others stay at their initial
state. The states are the sum of the parts', not their product, and a property
of one part is checked in exactly the behaviours of that part.

### RoutingJobs

`job` is the table, `posting` the requests between the commit of the row and
`enqueue_job`, `queue` the messages not yet acknowledged, `computing` and
`announcing` the workers before and after the commit of the outcome.
`CreateJob`, `PostJob`, `PostRefused`, `PostLost` are `create_job`;
`ClaimJob`, `RefuseJob`, `SkipJob` its first transaction in the worker (one
step each, because row lock and advisory lock are held to its commit);
`FinishJob` the commit of the outcome, `AnnounceJob` the publications after it,
`FailJob` the `except Exception` branch, which covers both. A worker may be
stopped, by its death or by ARQ's timeout, with or without redelivery: `KillJob`
after the claim; `LoseClaim` at the claim, which lies before the `try`, so that
also an error of the database or a wait for the scope's lock beyond the timeout
ends there and leaves the row `queued`. `stopped` are the jobs it happened at. A
message may be delivered while its first worker still computes.

### Dispatch

One service date; scopes are districts. `status` and `located` are the columns
of `orders` that matter, `plan` the `route_plans` rows with their assignments
(`route[o]` is the driver of `o`), `req` what the open transaction of each HTTP
request holds and `snap` what a computing job has read.

| Code | Actions |
|---|---|
| `run_dispatch_job` after its claim | `ReadOrders`, `DraftPlan`, `AbandonPlan`, `LosePlan` (each with its step of `RoutingJobs`) |
| `PlansService.publish` | `PublishBegin` (lock the draft, read the plans to archive), `PublishRead` (archive, which locks; read the orders), `PublishCommit` |
| `PlansService.unassign` | `UnassignBegin`, `UnassignCommit` |
| `PlansService.move` | `MoveOrder` (all under the draft's lock) |
| `AssignmentService.assign` | `AssignBegin`, then `AssignToNewPlan` or `AssignToPlan` |
| `DispatchService.insert` | `InsertBegin`, then `InsertPlaced` or `InsertRejected` |
| `OrdersService.patch` | `PatchBegin`, `PatchCommit` |
| cancel, transition, driver-transition | `CancelOrder`, `ManualTransition`, `DriverTransition` |
| account deletion | `EraseOrder` |
| any failure, deadlock victim, lost connection | `Rollback` |

What the model keeps: which reads precede which locks, which statuses are
remembered (`seen`, `snap`) and which are read under the lock. The endpoints
that lock at once, or whose first read the session has dropped by then, see the
committed status. Row locks are predicates on `req`; a waiting transaction is
one whose next step is disabled.

Abstractions: the engine answers any assignment of the placeable orders to
drivers of the district, so what holds here holds for every engine; seats, time
windows, lunches, online flags and twins are inside that choice;
`needs_review`, `force` and `revalidate` are left out (publishing a reviewed or
a forced plan is the same transaction); consecutive reads of one `Begin` step
are one snapshot, which hides a publication that commits between the two plan
lookups of `assign`; `driver_transition` checks visibility and locks the order
in one step; the locks `transition_order` takes one by one inside a commit step
are taken together, and the deadlocks this hides end as `Rollback`; a driver's
account deletion does not change its district.

### AuthSessions

A login or a rotation issues a *pair* of tokens, numbered. `live`, `index`,
`black`, `revokedAt` and `attempts` are the keys in Redis, `iat` the second of
issue inside a token, `expired` its fifteen minutes; `storage` is the local
storage all tabs share, `rot[t]` the `refreshPromise` of a tab, `req` its
requests. The steps of the service lie between its calls to Redis:
`CheckAttempts`, `CountAttempt`, `VerifyPassword` are a login,
`ConsumeRefresh`, `RotatePair` a rotation, `ReadSessions`, `RevokeSessions` the
answer to a token used twice. `Unauthorized` is the response interceptor,
`RotationArrives` and `RotationFails` the end of the shared promise,
`RequestEnds` the callers (`logout` and `checkAuth` clear the storage, whatever
came of their call). `mishap` records what a property excepts: two tabs at
once, a logout during a rotation, a lost answer, a login on top of a session, a
request that did not reach the server, a reload during a logout.

### OrdersScreen, OrderForm, RoutePoints

`OrdersScreen`: `server` is the orders table with a version per row and `mine`
the version this page wrote last; `list`, `dialog`, `loads`, `cands` and `work`
are the page's state and its requests. A list request is `ServeLoad` (the
server reads) and `LoadArrives` (the page shows, whatever was asked since);
saving is `SaveOrder`, `ServeStatus`, `ServePatch`, `SaveEnds`, because
`handleSaveOrder` is a status call and a patch that can each be refused;
`AssignOrder`, `CancelOrder` and `ImportOrders` are laid out alike. `Elsewhere`
is another dispatcher or a driver. A row replaced by a load under an open edit
dialog refills its form when the code's effect does. The edit form has a date
and a time of day: `handleSaveOrder` sends the time when either was changed, and
`updateOrder` passes on the time of day alone (`Touched`).

`OrderForm`: `TypePhone`, `TimerFires`, `ServeSearch`, `SearchArrives` are the
debounced passenger search, `PickClient`, `PickAnother`, `AddNewClient` the
choice, `Submit` with `LookUpClient`, `RegisterClient`, `PlaceOrder` the up to
four calls of a creation (eight with the way back), each of which may be refused
or served with its answer lost.

`RoutePoints`: `form` and `marker` are the two copies of the points; the five
sources are `SearchAddress`, `SelectSuggestion`, `TypeCoords`, `ClickMap` and
`DragMarker`; `GeocoderAnswers` continues whichever of them waited.

### DispatchScreen, WaybillMap

`srv[d]` is the version of a day's plan on the server, `told[d]` the newest the
page has heard of. `asks` are the plan requests, *live* if their number is the
current one; `calls` the orders requests, live if not aborted; `reads` the
details requests. `PickDate`, `TimerFires`, `Refresh`, `Optimize`, `Hear` and
`PollTick` start requests, `AskArrives`, `CallArrives`, `DetailsArrive` end
them with or without the code's check. `loadData`, on opening and on each date,
awaits drivers, regions and cities beside the orders: `bases` are such loads and
`BasesFail` the failure of one of these lists, whose error stands over whatever
orders there are. `status` has the four values of the link, and `LinkChanges` is
any change of it, a retry's included: the polling effect runs again at each, and
`shut` records that it last ran under a dialog, which leaves it off. A changed
plan is told to the page when it was published or an order changed its status;
of moved and unassigned orders the page hears nothing.

`WaybillMap` has two state machines: the waybill (`ChooseDriver`, `PlanLoads`,
`NewDrivers` each begin a drawing and outdate the one under way, `NextBatch`,
`LegArrives`, `DrawingEnds` continue one) and the route of a view dialog with
its single retry (`ViewRoute`, `ViewTimer`, `RoadArrives`). `NewDrivers` stands for
every new list of drivers, the poll of twenty seconds and each position, ETA or
status heard over the link, which the worker sends every three; `cut` records
that the last one came before the waybill was drawn.

### DriversScreen, ClientsScreen, ReportScreens, LiveSocket

`DriversScreen` keeps versions per field of a driver, so that a property can
say what an edit form knew when it was filled. `SubmitEdit`, `SubmitAdd`,
`SubmitDelete`, `SubmitPlace` start handlers, `Serve` is the backend,
`Answered` and `Refuse` the page's continuation; `PollDriver` and
`PollAnswered` are the map dialog's polling, `PlaceShown` the answer after a
saved position, which nothing cancels. A model or plate that is NULL is a dash
on the card (`Shown`), and the form filled from the card sends the dash.

`ClientsScreen` has the accounts with the unique constraint on the number
(`CheckPhone` and `InsertAccount` are the two steps of `create_user`), the patch
and the archiving that do not ask for the account's status, and the page with a
dialog whose buttons can be pressed again while a handler waits (`SendForm`,
`SendDelete`).

`ReportScreens`: `due` are the orders of each day, `cache` and `requests` the
shared requests of `analytics.ts` with their five seconds (`Expire`), `loads` the
`Promise.all` of a page, `panels` what it set. Chosen dates begin at midnight in
Atyrau and are sent as UTC dates, so that the day before is asked for as well
(`UtcDates`); the comparison asks for as many days before those (`Before`). Each
of the six calls compares the clock itself: the cached request may run out
between two of them (`JoinTorn`), and `torn` marks what such a load shows. The
export, the workload of a day and the dashboard's distribution with its bars are
actions of their own. A week is one of the fixed periods around the anchor date,
which is all the code makes of it. The dashboard's own dates and typed ones are
those of a browser in Atyrau's zone; a date field that is emptied is left out.

`LiveSocket`: `sockets` are the sockets of the browser with the two ways they
close, `client` the fields of `DispatchMapWebSocket`, `hub` the server's list
per user whose oldest members are evicted. `Mount`, `Unmount` and `Reopen` are
the pages' effects, `SocketOpens`, `SocketCloses` and `RetryTimer` the handlers,
`Publish` the worker's job every three seconds, `Move` and `ShiftChanges` the
driver's phone, `HearPosition` and `MapDataArrives` the two sources of a marker.
The worker publishes only for a driver on line, whose stored position has not
run out (`online`), in a district that Redis names as active (`active`). The hub
keeps that name: it is added with each connection, and a closed one first counts
the connections left (`SocketCloses`) and then removes the name
(`ForgetDistrict`); `overtaken` records a connection added between the two,
which Redis then no longer knows. Here one dispatcher watches one district.

Every screen module ends in a type invariant (`...TypeOK`). They hold with the
constants of the runs; the runs leave them out in favour of the properties
below. To check one, add it to the cfg's `INVARIANTS`.

## 3. Runs

| Run | Shows | Bounds |
|---|---|---|
| `jobs` | `AtMostOneRunning`, `OneWriterPerJob`, `OutcomeIsFinal` under redelivery and death; `PostedJobsAreTaken`, `RunningJobsEndOrAreLost` with fair workers | 3 jobs, 2 scopes, 2 jobs at which workers stop |
| `dispatch_serial` | `PlansDoNotCollide`, `ImplementsLifecycle`, `PublishLeavesNothingPending` | 1 order, 2 districts with a driver each, 2 jobs, 2 plans, 1 stopped worker, one transaction at a time |
| `dispatch_overlap` | `OpenTransactionsSound`, `PublishedPlansAreStable` | 2 orders, 1 job, 2 plans, 2 requests, 2 open |
| `dispatch_immediate` | `AssignedOnce` | 2 orders, 2 drivers of 2 districts, 3 plans, 2 requests, no job |
| `orders_page` | list: `SettledPageIsCurrent`, `OwnWritesShown`, `TypedFormKept`, `UntouchedTimeKept`; creation: `OrderIsForTypedPhone`, `NoTripTwice`; points: `SettledPointsAgree`, `ClicksPlacedInOrder` | 2 orders and an import, pages of 1, 4 clicks; 2 persons, 5 inputs; 2 places, 4 moves |
| `console` | sessions: `SignOutEndsSession`, `ShownUserHasSession`, `NoFalseAlarm`, `RevocationIsComplete`, `AttemptsBounded`; reports: `PanelsAgree`, `SettledReportIsAsked`; accounts: `OneAccountPerPhone` | 2 tabs with 2 requests, 3 pairs, 3 user actions; 2 days to choose and those before, 3 picks, 1 edit, 3 requests; 3 accounts, 2 numbers, 5 inputs |
| `dispatch_screen` | `SettledPageIsOfDate`, `FreshAfterEvent`, `PlanNeverGoesBack`, `DeafPageRecovers`; waybill: `MapsShowTheChosen`, `ChosenIsDrawn` | 2 dates, 2 orders, 4 events for the plan and 3 for the whole page; 2 drivers, 3 legs in batches of 2, 2 choices, 2 drawings at a time when a list of drivers cuts one short |
| `fleet` | drivers: `SettledGridIsWanted`, `PolledDetailIsOfDialog`, `OverwritesOnlyUnseen`, `MapDialogRecovers`; link: `OneSocketIfPatient`, `PageConnects`, `MapSettles` | 3 drivers, 5 turns, 1 by others; 3 sockets, 2 retries, 3 switches (pages, outages, shifts), 1 move |

Why the bounds are enough. Two orders suffice for one to lose its row when the
other is edited; two plans of a district for archiving, three for immediate
plans of both districts and one more created in a race; two requests because
every hazard of the services is a conflict of two transactions. Where
transactions do not overlap, what happens to an order does not depend on the
others, so `dispatch_serial` spends its bounds on districts and plans. On a page
the hazards are an answer overtaken by another or by a click: two requests of a
kind and the clicks that start, overtake and abandon one are within the bounds.
Two tabs are what the theft alarm needs to go wrong, three pairs a rotation on
top of a login and of another; a third socket is the one opened while two
close. In `LiveSocket` the code's limits of ten retries and three connections
are two and two, so that they are reached. The theorems of section 4 lift the
bounds where they apply. In `console` the panels over a period's orders and
the reports of a day, which have only the choice in common, are answered in
different behaviours. No run checks deadlock: jobs may all be finished,
people may stop clicking, and every bound ends what they do.

Properties of pages are stated *at rest*, when no request they depend on is in
flight: what is shown is then what is chosen. Where the code can be driven off,
the module records the event (`hist`, `mishaps`, `odd`, `past`, `late`, `torn`,
`crossed`, `hasty`, `overtaken`, `shut`, `strayed`, `cut`, `stopped`) and the
property excepts exactly that: it says that nothing else leads there. The events
are counted among the hazards.

### Disagreements between the code and what the repository says

Each is a run of its own whose counterexample TLC prints; `PROJECT.json` quotes
the text contradicted.

| Run | Property violated | What happens |
|---|---|---|
| `lifecycle_overlap` | `ImplementsLifecycle` | the status checked after the lock is the one read before it: a cancelled order becomes assigned |
| `publish_overlap` | `OnePlanInForce` | two publications of one district do not see each other |
| `anonymised` | `ArchivedStaysAnonymous` | an edit form that was open writes name and number back into a deleted account |
| `chosen_hour` | `ChosenHourShowsItsOrders` | hours six to nine are filed under two digits and looked up under one: their bar has no table |

Others the models contain without a run of their own: a worker stopped after the
claim leaves its job `running`, one stopped at the claim may leave it `queued`
without a message (`RunningJobsEndOrAreLost` and `PostedJobsAreTaken` except
exactly these jobs); an open map hears nothing when the removal of its
district's name was overtaken (`MapSettles` excepts it); the reports of a day
are of that day and the one before; a NULL model or plate is saved as a dash; a
failure of Redis after the commit rewrites a done job as `failed` with its draft
in place; a late `patch` edits a cancelled order; a second plan archives the
first and assigned orders lose their driver; a draft is published with an order
assigned at once to someone else; two districts that compute at once both take
an order (the reason why `PlansDoNotCollide` is stated of `dispatch_serial`).

### Fairness

- `JobsFairSpec`: weak fairness of each worker's claim and of the end of what it
  claimed. ARQ polls its queue as long as the worker lives, `solve` is a bounded
  computation, the publications return or raise.
- `DSFair`: the polling interval ticks and orders requests are answered (axios
  has a timeout). The link's changes of status begin the interval again; without
  a connection they come of retries, which wait up to thirty seconds, more than
  the interval's twenty, and stop after ten.
- `WMFair`: the map library loads, new lists of drivers come, the current
  drawing's requests are answered. That is not enough for a waybill to be drawn:
  positions come every three seconds and each begins the drawing again, so one
  whose legs take longer is put off for good. `ChosenIsDrawn` therefore excepts
  states in which the last list cut a drawing short (`cut`), and says that
  without it the waybill is whole in the end, also when the driver was chosen
  before the map had loaded.
- `FSSpec`: the map dialog's poll goes out and is answered.
- `LSFair`: the browser delivers the events of a socket and runs its timer, the
  worker publishes what its guards let it, the map data request is answered. Of
  the hub nothing is assumed: a removal may wait for ever.

Nothing is assumed of people, other dispatchers, drivers' phones, outages or
redelivery. The compositions state the same fairness for each part; because
`part` never changes, a disjunction of actions of two parts under one `WF` is the
fairness of each.

## 4. Proofs

For every value of the constants, from the modules' named assumptions alone:

- `RoutingJobsProofs`: `RunningIsExclusive`, `WritersAreExclusive`,
  `FinishedIsFinal`. The inductive invariant `JobsInv` joins the types,
  `AtMostOneRunning` and `OneWriterPerJob`: the exclusion alone is not
  inductive for the finishing steps, which rely on a computing job being
  `running`. A claim makes one row running in a scope that had none; every
  other step makes none (`NoNewRunning`).
- `DispatchProofs`: `DispatchRunsJobs` shows that each step of `Dispatch` is a
  step of `RoutingJobs` or leaves it alone, hence `DispatchRunsOneJob`.
  `DispatchTypeCorrect` is the type invariant. `TransactionsAreSound` is the
  invariant behind the locking: a transaction that holds a draft finds a draft
  at its commit, the plans it archives or extends were issued, an order being
  assigned is not on the plan it joins, and locks are exclusive. From it
  `IssuedPlansKeepOrders` follows step by step: drafts are edited only by the
  holder of their lock, issued plans are only extended or archived.
  `OpenTransactionsSound` alone is not inductive; it is carried with the types
  (`DispatchInv`) and with `JobsInv`, which `DispatchRunsJobs` provides.
- `DispatchProofs`, one transaction at a time: the code promises the lifecycle,
  a published plan without waiting orders and plans that do not collide only as
  far as no transaction commits between another's reads and its writes; the runs
  that expect a violation show what overlap does. The theorems make the other
  half precise, for any number of orders, plans, jobs, requests, kills and
  redeliveries under `MaxOpen = 1`. `SerialInv` is the invariant: at most one
  request or job is open (`OneAtATime`), and what it has read is what is
  committed (`RequestsCurrent`, `JobsCurrent`); it is inductive because orders,
  coordinates and plans are written only by the step that ends a transaction or
  by one that finds none open. `SerialLifecycle` is the refinement of
  `OrderLifecycle`, initial states and step by step; `SerialPublishing`
  (`PublishLeavesNothingPending`) reads the moved orders off `seen`.
  `JobsMakeOnePlan` needs no such hypothesis: a plan's job has finished, no two
  plans name one job and a done job is named (`JobsHaveTheirPlan`), however
  transactions overlap. `PlansApart` says the same of districts and of drafts,
  and `SerialPlansDoNotCollide` (`PlansDoNotCollide`) joins the two.
- `DispatchProofs`, immediate dispatch: `ImmediateAssignedOnce` (`AssignedOnce`)
  holds for any overlap of assignments, insertions, patches, endpoints and
  failures while the day has no draft (`NoDrafts`, as in the run, where no job
  exists) and dispatchers do not send assigned orders back to `exception` by
  hand, which leaves them on their plan. `AssignedInv` adds to the property that
  an order being assigned is still pending, which its lock protects
  (`LocksExclusive`, `OrderFree`).
- `AuthProofs`: `RevokedPairsAreDead` (`RevocationIsComplete`). The invariant is
  that no pair is stamped later than the server's clock; only the revoking step
  takes a rotation from revoking to failed (`OnlyRevokeFails`), and its mark is
  the present second, which every stamp fails to exceed. `LoginLimitHolds`
  (`AttemptsBounded`) counts the logins that were checked and not yet counted:
  their number and the attempts together stay within the limit plus the other
  tabs (`LimitInv`); a limit of none is the case apart.
  `AlarmsHaveACause` (`NoFalseAlarm`), `UsersHaveSessions`
  (`ShownUserHasSession`) and `SignedOutIsOver` (`SignOutEndsSession`) need to
  know where every pair is. `TokenInv` keeps the pairs of logins, rotations and
  requests apart. `CalmInv`: without the five mishaps of the alarm one rotation
  runs at a time, the token it presents lives, and a logout beside it waits for
  it. `QuietInv`: without any mishap every refresh token that lives is stored,
  or in an answer about to be stored, and a tab that gives a session up gives up
  the stored one.
- `ClientsProofs`: `OnePhoneOneAccount` (`OneAccountPerPhone`). The numbers are
  inductive by themselves once a handler that saves a form is known to carry a
  number (`HandlersInv`): the insert and the patch each check under the
  constraint, so the lookup before the insert is not needed.
- `DispatchScreenProofs`: `ShownPlanOnlyGrows` (`PlanNeverGoesBack`). What the
  code's request number achieves is the invariant: at most one request is
  current and it is for the selected date (`OneCurrent`, `CurrentIsOfDate`), and
  what it will bring was read from the server no earlier than the plan shown
  (`PlanWasServed`). `HeardChangesAreShown` (`FreshAfterEvent`) adds what news do
  to it (`FreshInv`): they make a reload due, so a current request with no reload
  due was read after them. `RestingPageIsOfDate` (`SettledPageIsOfDate`) joins
  this with the orders requests, of which the one not aborted is of the date
  (`OrdersInv`), and the details (`DetailsInv`); an error over the orders of the
  date is that of another list of the page, which only `BasesFail` shows. `MapsFollowTheChoice`
  (`MapsShowTheChosen`): there is one current drawing, and what is on the map is
  what it has begun less the legs it waits for (`DrawnOfChosen`), so that it
  leaves the waybill whole (`WholeAtRest`); `RoadInv` is the same for the route of
  a view dialog.
- `LiveSocketProofs`: `PatientPagesShareOneSocket` (`OneSocketIfPatient`). The
  property alone is not inductive: a retry or a page could add a socket. The
  invariant `LinkInv` says that, unless a page was hasty, one socket is in use
  at all, those on their way out included, that a retry is due only when the
  client has none (`OneInUse`), and that a page not shown has left neither a
  socket nor a retry (`LeftAlone`). The drivers page has one invariant
  (`DriversInv`): every card, request, form and handler carries what the table
  held at some time, NULL as its dash, and the table's versions only grow
  (`PageKnows`), whence `UntouchedIsKept` (`OverwritesOnlyUnseen`), where the
  dash that replaces a NULL is the one exception; the last list request asks for what
  is wanted (`GridFollows`), whence `GridIsOfTheChoice` (`SettledGridIsWanted`);
  a poll that will be shown is the open dialog's (`PollsOfDialog`), whence
  `PolledIsOfTheDialog` (`PolledDetailIsOfDialog`).
- `OrdersPageProofs`, points: `PointsAgree` (`SettledPointsAgree`) from
  `PointsInv`, in which a marker away from its coordinates was dragged and its
  lookup is in flight; `ClicksInOrder` (`ClicksPlacedInOrder`) from `ClicksInv`:
  the lookups in flight are the last clicks, in order.
- `OrdersPageProofs`, creation: `OrdersAreForTheTyped` (`OrderIsForTypedPhone`)
  from `PassengerInv`: the matches fit the number in the form, or a search for
  it is the last in flight, or is due; `NoTripIsDoubled` (`NoTripTwice`) from
  `TripsInv`, which says what the present attempt has made at each of its steps.
- `OrdersPageProofs`, list: `ScreenTyped` is the type invariant the others use.
  `UntouchedTimesAreKept` (`UntouchedTimeKept`) needs it alone: a patch with a time
  comes from a form whose date or time was changed. `TypedFormStays`
  (`TypedFormKept`) needs `HandlersInv`: a handler at work is that of the open
  dialog, unless one was left. `PageIsCurrent` (`SettledPageIsCurrent`) and
  `WritesAreShown` (`OwnWritesShown`) follow the newest request: it asks for the
  present filter and page (`ListFollows`) or the dialog's order (`CandsFollow`),
  and a row this page wrote is in a handler that will reload, in an answer to
  come, or in the list (`ChangesShown`).
- `ReportProofs`: `ReportsAgree` (`PanelsAgree`) because the calls of one load
  name one request, unless it ran out between them (`OneRequest`, `RowsAgree`).
  `ReportsAreAsked` (`SettledReportIsAsked`) because the last load, workload
  request and distribution request are of what is chosen, the load of the chosen
  dates in UTC, as long as no answer overtook a later one (`PanelsFollow`,
  `WorkloadFollows`, `DayFollows`).

The proofs are laid out by who may change what: a lemma per action, or per way
an action changes the state (`OutdatingKeepsPlan`, `OntoKeepsHandlers`,
`PlansKept`), and one that says the rest leaves it alone.

The assumptions are those a module states of its constants: the bounds are
naturals, page sizes and limits positive, the plans, jobs and requests of a
service date finite in number (they are counted), and the values that stand for
*nothing chosen* (`None`, `Nothing`, `Nobody`, `Missing`) are none of the values
they stand beside. Each is evaluated by the run that extends the module.

Only model-checked: what needs fairness, which is beyond the prover
(`PostedJobsAreTaken`, `RunningJobsEndOrAreLost`, `DeafPageRecovers`,
`ChosenIsDrawn`, `MapDialogRecovers`, `PageConnects`, `MapSettles`). Every
invariant and every action property of a passing run is stated by a theorem,
under the hypotheses named above.

## 5. Not modelled, and what is left

Hazards seen and not among the forty in `PROJECT.json`, all but the last group
possible in the models and without a property because the code does not
guarantee anything there:

- backend: a job row whose message is lost (`dispatch.py:157`); immediate
  assignments that create two plans of one district (`assignment.py:126`); the
  order limit counted under the client's lock while exception orders count and
  cannot be cancelled (`orders.py:65`); events published before a commit that
  may not follow (`order_state.py:94`); a refresh token stored between the two
  steps of a revocation (`auth.py:168`);
- console: statuses the edit dialog offers and the machine refuses
  (`Orders.tsx:1034`); two tabs that present one refresh token (`api.ts:33`);
  optimise drops an answer on its way (`Dispatch.tsx:405`); geometry slower than
  the drivers' positions (`Dispatch.tsx:2271`); a list of drivers, regions or
  cities that fails puts its error over the orders (`Dispatch.tsx:504`); a
  district removed under a live connection (`hub.py:222`); no retry after ten attempts
  (`websocket.ts:46`); an edit form refilled under the dispatcher
  (`Drivers.tsx:241`); a page beyond the last (`Drivers.tsx:701`); an account
  created but not found in the list (`drivers.ts:215`);
- not in the models: coordinates erased from orders on a published route and the
  insertion that reads an empty stop (`online.py:80`); twins separated by a
  patch (`orders.py:208`); late batches of positions and the two stores of the
  online flag (`telemetry.py:111`, `drivers.py:60`); the same removal of the
  active orders' names (`hub.py:203`); drivers beyond the list's limit of 200
  (`drivers.ts:118`); a report whose worker dies (`reports.py:421`);
  addresses left on an archived client's orders (`clients.py:148`); paging of
  the orders under analytics and the three reads of a distribution
  (`analytics.ts:39`, `dispatch.ts:1014`).

Left out, and why:

- commands of the console the backend has no endpoint for (bulk generation,
  clearing, exports, price and geocoding calls, cabin recordings, automatic
  assignment, rental cars, optimisation of a day, snapshots, import and export of
  plans and drivers, adjustments of pickup times, administration of users, audit
  log, one-time codes): they end in an error message, and where that changes the
  page's state (optimise) it is modelled;
- code that cannot run: the watch of a routing job on the dispatch page
  (`getActiveDispatchJob` returns null and the start is refused), and the
  components no page shows (`Complaints`, `Logs`, `Settings`, `OtpCodes`,
  `RideSimulation`, `MapCoordinatePicker`, `TimeSlotPanel`, `DayPlanningTab`);
- `Regions`, a list read once; statistics cards, performance tables, sorting of
  the loaded rows, formatting, colours, map bounds: display of data modelled
  elsewhere;
- the routing engine's algorithms, sequential and numeric, which the tests
  in `backend/tests/routing` cover;
- the subscriptions, presence and push of the hub, which serve the mobile
  client, and the mobile client itself: what clients and drivers do appears as
  the transitions of `Dispatch`, `Elsewhere`, `Others` and `Move`;
- report files, dependents, devices, configuration, migrations, deployment and
  load tests.

What is left, in this order: a proof that `Dispatch` with overlap is the
lifecycle for orders no open transaction has read; the lookups of `assign` as
separate statements; telemetry and the online flag with their two stores; twins
in `Dispatch`.

## 6. How to run

    tlc -config jobs.cfg MCRoutingJobs.tla
    tlc -config dispatch_overlap.cfg MCDispatch.tla
    tlc -config orders_page.cfg MCOrdersPage.tla
    tlc -config anonymised.cfg ClientsScreen.tla
    tlapm DispatchProofs.tla
