---------------------------- MODULE DispatchScreen ----------------------------
(***************************************************************************)
(* The "dispatch" page of the console (components/Dispatch.tsx with        *)
(* services/dispatch.ts): the plan of the selected day, the list of the    *)
(* day's orders, and the dialog with one order's details.                  *)
(*                                                                         *)
(* Three kinds of request run side by side and each guards against late    *)
(* answers in its own way: the plan by a request number, the orders by an  *)
(* abort signal that is looked at only on success, the details not at all. *)
(* A change on the server is heard over the live link, which schedules one *)
(* delayed reload of the plan; without the link the page polls the orders. *)
(* The page and each new date also load the lists of drivers, regions and  *)
(* cities; one that fails puts its error over orders that did arrive.      *)
(*                                                                         *)
(* The commands the server has no endpoint for (optimise, reset, import,   *)
(* exports, rental cars) fail; of these, optimise alone changes the page.  *)
(***************************************************************************)
EXTENDS Naturals, FiniteSets

CONSTANTS
    Days,         \* the dates the dispatcher looks at
    Tomorrow,     \* the date selected when the page is opened
    Orders,       \* the orders whose markers are clicked
    MaxEvents,    \* bound: clicks, changes on the server, failures, link changes
    None

ASSUME DispatchScreenAssumption ==
    /\ Tomorrow \in Days /\ None \notin Days \cup Orders
    /\ None \notin Nat /\ None \notin [day: Days, ver: Nat]
    /\ MaxEvents \in Nat

VARIABLES
    srv,       \* srv[d]: version of day d's plan on the server, 0 when it has none
    news,      \* days of the changes that are on their way over the link
    told,      \* told[d]: newest version of d's plan the page has heard of
    status,    \* wsStatus, the link's status when it was last looked at
    shut,      \* the polling effect ran last under an open dialog
    day,       \* selectedDate
    plan,      \* dayRoutesData: the day it is of and the version, or None
    spinner,   \* dayRoutesLoading
    timer,     \* the date the pending dayRoutesDebounceRef will load, or None
    asks,      \* plan requests in flight; live: requestId is the current one
    orders,    \* the orders list: the day it is of, and whether an error is shown
    calls,     \* orders requests in flight; live: not aborted
    bases,     \* loadData calls whose other lists may still fail
    polling,   \* the polling interval is set
    details,   \* the details dialog: the order it is open for, the one it shows
    reads,     \* details requests in flight
    past,      \* mishaps so far, see Mishaps
    events     \* clicks, changes, failures and link changes, up to MaxEvents

dsVars == <<srv, news, told, status, shut, day, plan, spinner, timer, asks, orders, calls,
            bases, polling, details, reads, past, events>>
pageVars == <<day, plan, spinner, timer, asks, orders, calls, bases, polling, details, reads>>
planVars == <<plan, spinner, timer, asks>>
linkVars == <<status, shut>>

\* lost: a request in use failed;  late: an aborted orders request failed;
\* bare: another list of the page failed;  dropped: "optimise" discarded an
\* answer;  crossed: details of an order other than the dialog's arrived.
Mishaps == {"lost", "late", "bare", "dropped", "crossed"}

Statuses == {"connected", "connecting", "disconnected", "error"}
Linked == status = "connected"

Vers == 0..(MaxEvents + 1)
\* A day's plan as the services adapt it: version 0 has no routes.
Plan == [day: Days, ver: Vers]
Steps == {"summary", "plan", "routes"}
Ask == [day: Days, step: Steps, ver: Vers \cup {None}, live: BOOLEAN]
Call == [day: Days, live: BOOLEAN]

Event == events < MaxEvents /\ events' = events + 1
Click == Event /\ UNCHANGED <<srv, told>>
ModalOpen == details.open # None      \* isModalOpenRef; it covers the page
\* The dialog shows the details it has, or a spinner.
DetailsView == IF details.shown = None THEN "spinner" ELSE details.shown

-----------------------------------------------------------------------------
(* Requests                                                                  *)

\* ++dayRoutesRequestIdRef.current: no request in flight is the current one, and
\* when it is served no longer matters.
Outdated == {[day |-> a.day, step |-> "summary", live |-> FALSE,
              ver |-> IF a.ver = None THEN srv[a.day] ELSE a.ver] : a \in asks}

\* Mutant: a summary load forgets to count the request number up.
AskAlongside(d, step) ==
    /\ asks' = asks \cup {[day |-> d, step |-> step, ver |-> None, live |-> TRUE]}
    /\ spinner' = TRUE

\* loadDaySummary ("summary") and loadDayPlan ("plan").
AskPlan(d, step) ==
    /\ asks' = Outdated \cup {[day |-> d, step |-> step, ver |-> None, live |-> TRUE]}
    /\ spinner' = TRUE

\* loadOrders: abort the previous request, clear the error, ask.
CallOrders(d) ==
    /\ calls' = {[c EXCEPT !.live = FALSE] : c \in calls} \cup {[day |-> d, live |-> TRUE]}
    /\ orders' = [orders EXCEPT !.error = FALSE]

\* Mutant: the interval is not set again when the date changes.
NoPollingAgain == FALSE

\* The polling effect ran again: its interval is set unless a dialog is open.
PollingAgain == ~ModalOpen

DSInit ==
    /\ \E v \in {0, 1} : srv = [d \in Days |-> v]
    /\ news = {} /\ told = [d \in Days |-> 0]
    /\ status = "disconnected" /\ shut = FALSE /\ polling = TRUE
    /\ day = Tomorrow
    /\ plan = None /\ spinner = FALSE /\ timer = day /\ asks = {}
    /\ orders = [of |-> None, error |-> FALSE]
    /\ calls = {[day |-> day, live |-> TRUE]} /\ bases = 1
    /\ details = [open |-> None, shown |-> None] /\ reads = {}
    /\ past = {}
    /\ events = 0

-----------------------------------------------------------------------------
(* The server and the link                                                   *)

\* A day's plan changes.  Its publication and an order's change of status are told
\* to the page if it is connected; a moved order is told to its driver only, and
\* the page ignores order.exception.
Change(d) ==
    /\ Event
    /\ srv' = [srv EXCEPT ![d] = @ + 1]
    /\ \E heard \in {FALSE, Linked} : news' = IF heard THEN news \cup {d} ELSE news
    /\ UNCHANGED <<told, linkVars, past, pageVars>>

\* Mutant: the reload is not scheduled while the plan is being loaded.
HearUnlessLoading(d) ==
    /\ d \in news /\ news' = news \ {d}
    /\ told' = [told EXCEPT ![d] = srv[d]]
    /\ timer' = IF timer = None /\ ~spinner THEN day ELSE timer
    /\ UNCHANGED <<srv, linkVars, day, plan, spinner, asks, orders, calls, bases,
                   polling, details, reads, past, events>>

\* The order_update handler: the message names no date, so any of them schedules
\* a reload of the selected day, unless one is already scheduled.
Hear(d) ==
    /\ d \in news /\ news' = news \ {d}
    /\ told' = [told EXCEPT ![d] = srv[d]]
    /\ timer' = IF timer = None THEN day ELSE timer
    /\ UNCHANGED <<srv, linkVars, day, plan, spinner, asks, orders, calls, bases,
                   polling, details, reads, past, events>>

\* The status, looked at every second, is another one: the link came up, it was
\* lost with what was on its way, or an attempt to connect again began or failed.
\* The polling effect runs again in each case.
LinkChanges(s) ==
    /\ Event
    /\ s # status /\ status' = s /\ news' = {}
    /\ polling' = PollingAgain /\ shut' = ModalOpen
    /\ UNCHANGED <<srv, told, day, planVars, orders, calls, bases, details, reads,
                   past>>

-----------------------------------------------------------------------------
(* The plan of the day                                                       *)

\* The date changes: the pending reload is replaced by one for the new date,
\* the requests in flight are outdated, loadData asks for the orders and the other
\* lists, and the live link is closed and opened again.
PickDate(d) ==
    /\ Click
    /\ ~ModalOpen /\ d # day
    /\ day' = d /\ timer' = d
    /\ asks' = Outdated
    /\ CallOrders(d) /\ bases' = bases + 1
    /\ status' = "disconnected" /\ news' = {}
    /\ polling' = PollingAgain /\ shut' = ModalOpen
    /\ UNCHANGED <<plan, spinner, details, reads, past>>

TimerFires ==
    /\ timer # None /\ timer' = None
    /\ AskPlan(timer, "summary")
    /\ UNCHANGED <<srv, news, told, linkVars, day, plan, orders, calls, bases,
                   polling, details, reads, past, events>>

\* loadCurrentPlan: the newest plan of the day, empty routes without one.
CurrentPlan(d) == srv[d]

\* getDashboardDistribution or getDailyRoutes reads the plan.
ServeAsk(a) ==
    /\ a.ver = None
    /\ asks' = (asks \ {a}) \cup {[a EXCEPT !.ver = CurrentPlan(a.day)]}
    /\ UNCHANGED <<srv, news, told, linkVars, day, plan, spinner, timer, orders,
                   calls, bases, polling, details, reads, past, events>>

\* Mutant: the answer is not compared with the current request number.
AskArrivesUnchecked(a) ==
    /\ a.ver # None
    /\ asks' = asks \ {a}
    /\ plan' = [day |-> a.day, ver |-> a.ver]
    /\ spinner' = FALSE
    /\ UNCHANGED <<srv, news, told, linkVars, day, timer, orders, calls, bases,
                   polling, details, reads, past, events>>

\* An answer of the current request is shown, one of another is dropped.  A full
\* load of a day without assigned routes goes on to ask for the routes.
AskArrives(a) ==
    LET goesOn == a.live /\ a.step = "plan" /\ a.ver = 0
    IN  /\ a.ver # None
        /\ asks' = (asks \ {a}) \cup
             (IF goesOn THEN {[a EXCEPT !.step = "routes", !.ver = None]} ELSE {})
        /\ plan' = IF a.live THEN [day |-> a.day, ver |-> a.ver] ELSE plan
        /\ spinner' = (spinner /\ (goesOn \/ ~a.live))
        /\ UNCHANGED <<srv, news, told, linkVars, day, timer, orders, calls, bases,
                       polling, details, reads, past, events>>

AskFails(a) ==
    /\ Event
    /\ asks' = asks \ {a}
    /\ spinner' = (spinner /\ ~a.live)
    /\ past' = IF a.live THEN past \cup {"lost"} ELSE past
    /\ UNCHANGED <<srv, news, told, linkVars, day, plan, timer, orders, calls, bases,
                   polling, details, reads>>

\* The refresh button: orders, and the full plan.
Refresh ==
    /\ Click
    /\ ~ModalOpen
    /\ CallOrders(day) /\ AskPlan(day, "plan")
    /\ UNCHANGED <<news, linkVars, day, plan, timer, bases, polling, details, reads,
                   past>>

\* handleOptimize: outdate the request in flight and hide the spinner; the call
\* that should start a job is refused, and nothing is loaded again.
Optimize ==
    /\ Click
    /\ ~ModalOpen
    /\ asks' = Outdated /\ spinner' = FALSE
    /\ past' = IF asks # Outdated THEN past \cup {"dropped"} ELSE past
    /\ UNCHANGED <<news, linkVars, day, plan, timer, orders, calls, bases, polling,
                   details, reads>>

-----------------------------------------------------------------------------
(* The orders of the day                                                     *)

\* The poll: requests are answered before the next tick, 20 s later.
PollTick ==
    /\ polling /\ ~Linked
    /\ calls = {}
    /\ CallOrders(day)
    /\ UNCHANGED <<srv, news, told, linkVars, day, planVars, bases, polling, details,
                   reads, past, events>>

CallArrives(c) ==
    /\ calls' = calls \ {c}
    /\ orders' = IF c.live THEN [orders EXCEPT !.of = c.day] ELSE orders
    /\ UNCHANGED <<srv, news, told, linkVars, day, planVars, bases, polling, details,
                   reads, past, events>>

\* The signal is not passed to the request and not looked at when it fails: a
\* late failure clears the newer list and shows its error.
CallFails(c) ==
    /\ Event
    /\ calls' = calls \ {c}
    /\ orders' = [of |-> None, error |-> TRUE]
    /\ past' = IF c.live THEN past ELSE past \cup {"late"}
    /\ UNCHANGED <<srv, news, told, linkVars, day, planVars, bases, polling, details,
                   reads>>

\* loadData awaits the orders, drivers, regions and cities together; loadOrders
\* catches its own failure, and the others' is shown over whatever orders there
\* are.  Their answers change nothing modelled here.
BasesFail ==
    /\ Event
    /\ bases > 0 /\ bases' = bases - 1
    /\ orders' = [orders EXCEPT !.error = TRUE]
    /\ past' = past \cup {"bare"}
    /\ UNCHANGED <<srv, news, told, linkVars, day, planVars, calls, polling, details,
                   reads>>

-----------------------------------------------------------------------------
(* The details of an order                                                   *)

\* A marker of the selected driver's waybill is clicked.
OpenDetails(o) ==
    /\ Click
    /\ ~ModalOpen /\ plan # None
    /\ details' = [details EXCEPT !.open = o]
    /\ reads' = reads \cup {o}
    /\ UNCHANGED <<news, linkVars, day, planVars, orders, calls, bases, polling, past>>

CloseDetails ==
    /\ Click
    /\ ModalOpen /\ details' = [open |-> None, shown |-> None]
    /\ UNCHANGED <<news, linkVars, day, planVars, orders, calls, bases, polling,
                   reads, past>>

\* The answer is shown whatever the dialog is open for by then; a failed request
\* only raises a message.
DetailsArrive(o) ==
    /\ o \in reads /\ reads' = reads \ {o}
    /\ \/ /\ details' = [details EXCEPT !.shown = o]
          /\ past' = IF o = details.open THEN past ELSE past \cup {"crossed"}
          /\ UNCHANGED events
       \/ Event /\ UNCHANGED <<details, past>>
    /\ UNCHANGED <<srv, news, told, linkVars, day, planVars, orders, calls, bases,
                   polling>>

-----------------------------------------------------------------------------
DSNext ==
    \/ \E d \in Days : Change(d) \/ Hear(d) \/ PickDate(d)
    \/ \E s \in Statuses : LinkChanges(s)
    \/ TimerFires \/ Refresh \/ Optimize \/ PollTick \/ BasesFail \/ CloseDetails
    \/ \E a \in asks : ServeAsk(a) \/ AskArrives(a) \/ AskFails(a)
    \/ \E c \in calls : CallArrives(c) \/ CallFails(c)
    \/ \E o \in Orders : OpenDetails(o) \/ DetailsArrive(o)

\* The polling interval ticks and the requests it makes are answered.
DSFair == WF_dsVars(PollTick) /\ WF_dsVars(\E c \in calls : CallArrives(c))

DSSpec == DSInit /\ [][DSNext]_dsVars /\ DSFair

-----------------------------------------------------------------------------
(* Properties                                                                *)

\* The page's state stays within what its code produces.
DispatchScreenTypeOK ==
    /\ srv \in [Days -> Vers] /\ told \in [Days -> Vers] /\ news \subseteq Days
    /\ status \in Statuses /\ shut \in BOOLEAN /\ polling \in BOOLEAN
    /\ spinner \in BOOLEAN /\ bases \in 0..(MaxEvents + 1)
    /\ day \in Days /\ timer \in Days \cup {None}
    /\ plan \in Plan \cup {None}
    /\ asks \subseteq Ask /\ calls \subseteq Call
    /\ orders \in [of: Days \cup {None}, error: BOOLEAN]
    /\ details \in [open: Orders \cup {None}, shown: Orders \cup {None}]
    /\ reads \subseteq Orders /\ past \subseteq Mishaps

\* What the panel of routes shows: a plan without routes under a spinner is a panel
\* with nothing in it.
PanelView ==
    CASE plan = None /\ spinner -> "spinner"
      [] plan = None /\ ~spinner -> "hint"
      [] plan # None /\ plan.ver > 0 -> "routes"
      [] plan # None /\ plan.ver = 0 /\ spinner -> "blank"
      [] OTHER -> "no routes"

PlanAtRest == timer = None /\ \A a \in asks : ~a.live

\* At rest the page shows its date: once the timer has fired and the current
\* request is answered, the spinner is gone and the panel shows that date's routes
\* or says that there are none, and with no orders request in flight the orders
\* are of that date, or they are empty with an error.  Only a failed request, the
\* optimise button, which drops an answer on its way, or the failure of an aborted
\* orders request leave another date's there, and an error over the orders of the
\* date is that of another list.  The dialog shows no details but those of its
\* order, unless answers crossed.
SettledPageIsOfDate ==
    /\ PlanAtRest /\ past \cap {"lost", "dropped"} = {} =>
         PanelView \in {"routes", "no routes"} /\ plan.day = day
    /\ PlanAtRest => ~spinner
    /\ calls = {} /\ "late" \notin past =>
         \/ orders \in {[of |-> day, error |-> FALSE], [of |-> None, error |-> TRUE]}
         \/ orders = [of |-> day, error |-> TRUE] /\ "bare" \in past
    /\ ModalOpen /\ "crossed" \notin past => DetailsView \in {"spinner", details.open}

\* A plan at rest is as new as the last change the page has heard of, although
\* a message is ignored while a reload is scheduled and a load may have read
\* the server just before the message.
FreshAfterEvent ==
    PlanAtRest /\ past \cap {"lost", "dropped"} = {} => plan.ver >= told[day]

\* The plan shown is replaced only by one of the selected date, and on the same
\* date never by an older version, in whatever order the answers arrive.
PlanNeverGoesBack ==
    [][plan' # plan => /\ plan'.day = day
                       /\ plan # None /\ plan.day = day => plan'.ver >= plan.ver]_dsVars

\* While the link is down the page recovers from an error by itself: it polls.
\* Only a change of the link's status under an open dialog ends the polling, a
\* retry's "connecting" or "error" as much as a connection won or lost, and the
\* page stays deaf until the status changes without a dialog.
DeafPageRecovers ==
    (orders.error /\ ~Linked) ~> (~orders.error \/ Linked \/ shut)
=============================================================================
