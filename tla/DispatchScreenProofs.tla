------------------------- MODULE DispatchScreenProofs -------------------------
(***************************************************************************)
(* The dispatch page for any dates and any number of clicks, changes and   *)
(* failures, and its maps for any drivers, legs and size of a batch.       *)
(*                                                                         *)
(* PlanNeverGoesBack rests on the request number: at most one request is   *)
(* the current one and it is for the selected date.  It asked after the    *)
(* answer now shown was given, and the server's versions only grow.        *)
(* FreshAfterEvent adds what the current request cannot miss: it is read   *)
(* after the last news, or a reload is scheduled.  MapsShowTheChosen rests *)
(* on a drawing being outdated, and the layers taken off, in one step with *)
(* every change of the choice.                                             *)
(***************************************************************************)
EXTENDS DispatchScreen, WaybillMap, TLAPS

PlanTypes ==
    /\ srv \in [Days -> Nat] /\ day \in Days
    /\ plan \in [day: Days, ver: Nat] \cup {None}
    /\ asks \subseteq [day: Days, step: Steps, ver: Nat \cup {None}, live: BOOLEAN]

\* The current request, and the one the timer will make, are for the selected date.
CurrentIsOfDate ==
    /\ timer \in {None, day}
    /\ \A a \in asks : a.live => a.day = day

OneCurrent == \A a, b \in asks : a.live /\ b.live => a = b

\* The plan shown was the server's at some time, and an answer to the current
\* request is from no earlier time.
PlanWasServed ==
    plan # None =>
      /\ plan.ver <= srv[plan.day]
      /\ \A a \in asks : a.live /\ a.ver # None /\ a.day = plan.day => plan.ver <= a.ver

AnswersWereServed == \A a \in asks : a.ver # None => a.ver <= srv[a.day]

PlanInv == PlanTypes /\ CurrentIsOfDate /\ OneCurrent /\ PlanWasServed /\ AnswersWereServed

\* The part of the state the argument is about.
planState == <<srv, day, plan, timer, asks>>

\* The page is opened with no plan and no request.
LEMMA InitPlan == DSInit => PlanInv
BY DispatchScreenAssumption DEF DSInit, PlanInv, PlanTypes, CurrentIsOfDate, OneCurrent,
   PlanWasServed, AnswersWereServed

\* A step that touches none of it.
LEMMA SamePlanState == ASSUME PlanInv, UNCHANGED planState PROVE PlanInv'
BY DEF PlanInv, PlanTypes, CurrentIsOfDate, OneCurrent, PlanWasServed, AnswersWereServed, planState

\* The requests outdated are typed, none is current, and what they carry was served.
LEMMA OutdatedRequests ==
    ASSUME PlanTypes, AnswersWereServed
    PROVE  /\ Outdated \subseteq [day: Days, step: Steps, ver: Nat \cup {None}, live: BOOLEAN]
           /\ \A a \in Outdated : ~a.live /\ a.ver # None /\ a.ver <= srv[a.day]
<1> SUFFICES ASSUME NEW o \in Outdated
             PROVE  /\ o \in [day: Days, step: Steps, ver: Nat \cup {None}, live: BOOLEAN]
                    /\ ~o.live /\ o.ver # None /\ o.ver <= srv[o.day]
  OBVIOUS
<1>1. PICK a \in asks :
        o = [day |-> a.day, step |-> "summary", live |-> FALSE,
             ver |-> IF a.ver = None THEN srv[a.day] ELSE a.ver]
  BY DEF Outdated
<1>2. a.day \in Days /\ a.ver \in Nat \cup {None} /\ srv[a.day] \in Nat
  BY DEF PlanTypes
<1>3. o.day = a.day /\ o.ver \in Nat /\ o.ver <= srv[a.day]
  BY <1>1, <1>2 DEF AnswersWereServed
<1> QED
  BY <1>1, <1>2, <1>3, DispatchScreenAssumption DEF Steps

\* The server's versions grow.
LEMMA ChangeKeepsPlan == ASSUME PlanInv, NEW d \in Days, Change(d) PROVE PlanInv'
<1>1. srv' = [srv EXCEPT ![d] = @ + 1] /\ UNCHANGED <<day, plan, timer, asks>>
  BY DEF Change, pageVars
<1>2. \A e \in Days : srv'[e] \in Nat /\ srv[e] \in Nat /\ srv[e] <= srv'[e]
  BY <1>1 DEF PlanInv, PlanTypes
<1>3. PlanTypes'
  BY <1>1 DEF PlanInv, PlanTypes
<1>4. CurrentIsOfDate' /\ OneCurrent'
  BY <1>1 DEF PlanInv, CurrentIsOfDate, OneCurrent
<1>5. PlanWasServed'
  <2> SUFFICES ASSUME plan # None PROVE PlanWasServed'
    BY <1>1 DEF PlanWasServed
  <2>1. plan.day \in Days /\ plan.ver \in Nat /\ plan.ver <= srv[plan.day]
    BY DEF PlanInv, PlanTypes, PlanWasServed
  <2>2. plan.ver <= srv'[plan.day]
    BY <1>2, <2>1
  <2> QED
    BY <1>1, <2>2 DEF PlanInv, PlanWasServed
<1>6. AnswersWereServed'
  <2> SUFFICES ASSUME NEW a \in asks, a.ver # None PROVE a.ver <= srv'[a.day]
    BY <1>1 DEF AnswersWereServed
  <2>1. a.day \in Days /\ a.ver \in Nat /\ a.ver <= srv[a.day]
    BY DEF PlanInv, PlanTypes, AnswersWereServed
  <2> QED
    BY <1>2, <2>1
<1> QED
  BY <1>3, <1>4, <1>5, <1>6 DEF PlanInv

\* Requests are outdated and none is made: a new date, or the optimise button.
LEMMA OutdatingKeepsPlan ==
    ASSUME PlanInv, asks' = Outdated, UNCHANGED <<srv, plan>>,
           day' \in Days, timer' \in {None, day'}
    PROVE  PlanInv'
<1>1. PlanTypes'
  BY OutdatedRequests DEF PlanInv, PlanTypes
<1>2. CurrentIsOfDate' /\ OneCurrent'
  BY OutdatedRequests DEF PlanInv, CurrentIsOfDate, OneCurrent
<1>3. PlanWasServed' /\ AnswersWereServed'
  BY OutdatedRequests DEF PlanInv, PlanWasServed, AnswersWereServed
<1> QED
  BY <1>1, <1>2, <1>3 DEF PlanInv

\* Requests are outdated and one is made for the selected date.
LEMMA AskingKeepsPlan ==
    ASSUME PlanInv, NEW step \in Steps, AskPlan(day, step), UNCHANGED <<srv, day, plan>>,
           timer' \in {None, day}
    PROVE  PlanInv'
<1> DEFINE new == [day |-> day, step |-> step, ver |-> None, live |-> TRUE]
<1>1. asks' = Outdated \cup {new}
  BY DEF AskPlan
<1>2. new \in [day: Days, step: Steps, ver: Nat \cup {None}, live: BOOLEAN]
  BY DEF PlanInv, PlanTypes
<1>3. PlanTypes'
  BY <1>1, <1>2, OutdatedRequests DEF PlanInv, PlanTypes
<1>4. \A a \in asks' : a # new => ~a.live /\ a.ver # None /\ a.ver <= srv[a.day]
  BY <1>1, OutdatedRequests DEF PlanInv
<1>5. CurrentIsOfDate'
  BY <1>4 DEF CurrentIsOfDate
<1>6. OneCurrent'
  BY <1>4 DEF OneCurrent
<1>7. PlanWasServed' /\ AnswersWereServed'
  BY <1>4 DEF PlanInv, PlanWasServed, AnswersWereServed
<1> QED
  BY <1>3, <1>5, <1>6, <1>7 DEF PlanInv

\* The server reads its newest version, which the plan shown does not exceed.
LEMMA ServingKeepsPlan == ASSUME PlanInv, NEW a \in asks, ServeAsk(a) PROVE PlanInv'
<1> DEFINE answered == [a EXCEPT !.ver = srv[a.day]]
<1>1. asks' = (asks \ {a}) \cup {answered} /\ UNCHANGED <<srv, day, plan, timer>>
  BY DEF ServeAsk, CurrentPlan
<1>2. a \in [day: Days, step: Steps, ver: Nat \cup {None}, live: BOOLEAN] /\ srv[a.day] \in Nat
  BY DEF PlanInv, PlanTypes
<1>3. /\ answered \in [day: Days, step: Steps, ver: Nat \cup {None}, live: BOOLEAN]
      /\ answered.day = a.day /\ answered.live = a.live /\ answered.ver = srv[a.day]
  BY <1>2
<1>4. PlanTypes'
  BY <1>1, <1>3 DEF PlanInv, PlanTypes
<1>5. CurrentIsOfDate' /\ OneCurrent'
  BY <1>1, <1>3 DEF PlanInv, CurrentIsOfDate, OneCurrent
<1>6. PlanWasServed'
  BY <1>1, <1>3 DEF PlanInv, PlanWasServed
<1>7. AnswersWereServed'
  BY <1>1, <1>2, <1>3 DEF PlanInv, AnswersWereServed
<1> QED
  BY <1>4, <1>5, <1>6, <1>7 DEF PlanInv

\* An answer is shown if it is the current one's, and then no request is current,
\* or the one that goes on to the routes is.
LEMMA AnswerKeepsPlan == ASSUME PlanInv, NEW a \in asks, AskArrives(a) PROVE PlanInv'
<1> DEFINE more == [a EXCEPT !.step = "routes", !.ver = None]
<1>1. /\ a.ver # None
      /\ asks' \subseteq (asks \ {a}) \cup {more}
      /\ more \in asks' => a.live \/ more \in asks \ {a}
      /\ plan' = IF a.live THEN [day |-> a.day, ver |-> a.ver] ELSE plan
      /\ UNCHANGED <<srv, day, timer>>
  BY DEF AskArrives
<1>2. a \in [day: Days, step: Steps, ver: Nat \cup {None}, live: BOOLEAN]
  BY DEF PlanInv, PlanTypes
<1>3. /\ more \in [day: Days, step: Steps, ver: Nat \cup {None}, live: BOOLEAN]
      /\ more.day = a.day /\ more.live = a.live /\ more.ver = None
  BY <1>2 DEF Steps
<1>4. a.ver \in Nat /\ a.ver <= srv[a.day]
  BY <1>1, <1>2 DEF PlanInv, AnswersWereServed
<1>5. PlanTypes'
  BY <1>1, <1>2, <1>3, <1>4 DEF PlanInv, PlanTypes
<1>6. CurrentIsOfDate'
  BY <1>1, <1>3 DEF PlanInv, CurrentIsOfDate
<1>7. OneCurrent'
  BY <1>1, <1>3 DEF PlanInv, OneCurrent
<1>8. PlanWasServed'
  <2>1. CASE a.live
    <3>1. plan' = [day |-> a.day, ver |-> a.ver]
      BY <1>1, <2>1
    <3>2. \A b \in asks' : b.live => b.ver = None
      BY <1>1, <1>3, <2>1 DEF PlanInv, OneCurrent
    <3> QED
      BY <1>1, <1>4, <3>1, <3>2 DEF PlanWasServed
  <2>2. CASE ~a.live
    BY <1>1, <1>3, <2>2 DEF PlanInv, PlanWasServed
  <2> QED
    BY <2>1, <2>2
<1>9. AnswersWereServed'
  BY <1>1, <1>3 DEF PlanInv, AnswersWereServed
<1> QED
  BY <1>5, <1>6, <1>7, <1>8, <1>9 DEF PlanInv

\* A request that fails is forgotten.
LEMMA FailureKeepsPlan == ASSUME PlanInv, NEW a \in asks, AskFails(a) PROVE PlanInv'
<1>1. asks' \subseteq asks /\ UNCHANGED <<srv, day, plan, timer>>
  BY DEF AskFails
<1> QED
  BY <1>1 DEF PlanInv, PlanTypes, CurrentIsOfDate, OneCurrent, PlanWasServed, AnswersWereServed

\* Every step of the page.
LEMMA StepKeepsPlan == ASSUME PlanInv, DSNext PROVE PlanInv'
<1>1. ASSUME NEW d \in Days, Change(d) PROVE PlanInv'
  BY <1>1, ChangeKeepsPlan
<1>2. ASSUME NEW d \in Days, Hear(d) PROVE PlanInv'
  BY <1>2 DEF Hear, PlanInv, PlanTypes, CurrentIsOfDate, OneCurrent, PlanWasServed, AnswersWereServed
<1>3. ASSUME NEW d \in Days, PickDate(d) PROVE PlanInv'
  BY <1>3, OutdatingKeepsPlan DEF PickDate, Click
<1>4. CASE TimerFires
  <2>1. timer = day /\ timer' = None /\ AskPlan(day, "summary") /\ UNCHANGED <<srv, day, plan>>
    BY <1>4 DEF TimerFires, PlanInv, CurrentIsOfDate
  <2> QED
    BY <2>1, AskingKeepsPlan DEF Steps
<1>5. CASE Refresh
  <2>1. AskPlan(day, "plan") /\ UNCHANGED <<srv, day, plan, timer>>
    BY <1>5 DEF Refresh, Click
  <2> QED
    BY <2>1, AskingKeepsPlan DEF Steps, PlanInv, CurrentIsOfDate
<1>6. CASE Optimize
  BY <1>6, OutdatingKeepsPlan DEF Optimize, Click, PlanInv, PlanTypes, CurrentIsOfDate
<1>7. CASE (\E s \in Statuses : LinkChanges(s)) \/ PollTick \/ BasesFail \/ CloseDetails
  <2>1. UNCHANGED planState
    BY <1>7 DEF LinkChanges, PollTick, BasesFail, CloseDetails, Click, planVars, planState
  <2> QED
    BY <2>1, SamePlanState
<1>8. ASSUME NEW a \in asks, ServeAsk(a) \/ AskArrives(a) \/ AskFails(a) PROVE PlanInv'
  BY <1>8, ServingKeepsPlan, AnswerKeepsPlan, FailureKeepsPlan
<1>9. ASSUME NEW c \in calls, CallArrives(c) \/ CallFails(c) PROVE PlanInv'
  <2>1. UNCHANGED planState
    BY <1>9 DEF CallArrives, CallFails, planVars, planState
  <2> QED
    BY <2>1, SamePlanState
<1>10. ASSUME NEW o \in Orders, OpenDetails(o) \/ DetailsArrive(o) PROVE PlanInv'
  <2>1. UNCHANGED planState
    BY <1>10 DEF OpenDetails, DetailsArrive, Click, planVars, planState
  <2> QED
    BY <2>1, SamePlanState
<1> QED
  BY <1>1, <1>2, <1>3, <1>4, <1>5, <1>6, <1>7, <1>8, <1>9, <1>10 DEF DSNext

\* What PlanNeverGoesBack says of a step: only an answer changes the plan shown.
LEMMA StepShowsNewer ==
    ASSUME PlanInv, DSNext, plan' # plan
    PROVE  /\ plan'.day = day
           /\ plan # None /\ plan.day = day => plan'.ver >= plan.ver
           /\ UNCHANGED day
<1>1. PICK a \in asks : AskArrives(a)
  BY DEF DSNext, Change, Hear, PickDate, LinkChanges, TimerFires, Refresh, Optimize, PollTick,
     BasesFail, CloseDetails, ServeAsk, AskFails, CallArrives, CallFails, OpenDetails, DetailsArrive,
     planVars, pageVars
<1>2. a.live /\ a.ver # None /\ plan' = [day |-> a.day, ver |-> a.ver] /\ UNCHANGED day
  BY <1>1 DEF AskArrives
<1>3. a.day = day
  BY <1>2 DEF PlanInv, CurrentIsOfDate
<1>4. ASSUME plan # None, plan.day = day PROVE plan'.ver >= plan.ver
  <2>1. plan.ver <= a.ver
    BY <1>2, <1>3, <1>4 DEF PlanInv, PlanWasServed
  <2> QED
    BY <1>2, <2>1 DEF PlanInv, PlanTypes
<1> QED
  BY <1>2, <1>3, <1>4

\* The plan on the dispatch page (components/Dispatch.tsx, dayRoutesRequestIdRef)
\* is replaced only by one of the selected date, and on the same date never by an
\* older version, in whatever order the answers arrive.
THEOREM ShownPlanOnlyGrows == DSSpec => PlanNeverGoesBack
<1>1. DSInit => PlanInv
  BY InitPlan
<1>2. PlanInv /\ [DSNext]_dsVars => PlanInv'
  <2>1. ASSUME PlanInv, UNCHANGED dsVars PROVE PlanInv'
    <3>1. UNCHANGED planState
      BY <2>1 DEF dsVars, planState
    <3> QED
      BY <2>1, <3>1, SamePlanState
  <2> QED
    BY <2>1, StepKeepsPlan
<1>3. PlanInv /\ [DSNext]_dsVars =>
        [plan' # plan => /\ plan'.day = day
                         /\ plan # None /\ plan.day = day => plan'.ver >= plan.ver]_dsVars
  BY StepShowsNewer
<1> QED
  BY <1>1, <1>2, <1>3, PTL DEF DSSpec, PlanNeverGoesBack

-----------------------------------------------------------------------------
(* The page at rest                                                          *)

Undisturbed == past \cap {"lost", "dropped"} = {}
Asking == \E a \in asks : a.live

\* A reload is due, or asked for, or what is shown is of the selected date and
\* no older than what the page has heard.
PlanComes ==
    timer = None /\ Undisturbed =>
        Asking \/ (plan # None /\ plan.day = day /\ plan.ver >= told[day])

\* What the page hears makes a reload due, so a request under way with none due
\* was served after it.
AnswerIsFresh ==
    timer = None => \A a \in asks : a.live /\ a.ver # None => a.ver >= told[day]

SpinnerEnds == spinner => timer # None \/ Asking

ToldTypes ==
    /\ told \in [Days -> Nat] /\ \A d \in Days : told[d] <= srv[d]
    /\ spinner \in BOOLEAN

FreshInv == PlanInv /\ ToldTypes /\ PlanComes /\ AnswerIsFresh /\ SpinnerEnds

\* The current orders request is for the selected date; once it is over its
\* answer is what is shown, under the error of another list that failed.
OrdersInv ==
    /\ orders \in [of: Days \cup {None}, error: BOOLEAN]
    /\ \A c \in calls : c.live => c.day = day
    /\ \A c, e \in calls : c.live /\ e.live => c = e
    /\ calls \subseteq [day: Days, live: BOOLEAN]
    /\ "late" \notin past =>
         IF \E c \in calls : c.live THEN ~orders.error \/ "bare" \in past
         ELSE \/ orders \in {[of |-> day, error |-> FALSE], [of |-> None, error |-> TRUE]}
              \/ orders = [of |-> day, error |-> TRUE] /\ "bare" \in past

DetailsInv ==
    /\ details \in [open: Orders \cup {None}, shown: Orders \cup {None}]
    /\ "crossed" \notin past => details.shown \in {None, details.open}

\* What the argument about the plan at rest looks at, but for the mishaps.
freshState == <<srv, told, day, plan, spinner, timer, asks>>

\* The page is opened with a reload due.
LEMMA InitFresh == DSInit => FreshInv
<1> SUFFICES ASSUME DSInit PROVE FreshInv
  OBVIOUS
<1>1. timer # None /\ asks = {} /\ spinner = FALSE
  BY DispatchScreenAssumption DEF DSInit
<1>2. ToldTypes
  <2>1. \A d \in Days : srv[d] \in {0, 1}
    BY DEF DSInit
  <2>2. told = [d \in Days |-> 0] /\ told \in [Days -> Nat] /\ \A d \in Days : told[d] <= srv[d]
    BY <2>1 DEF DSInit
  <2> QED
    BY <1>1, <2>2 DEF ToldTypes
<1> QED
  BY <1>1, <1>2, InitPlan DEF FreshInv, PlanComes, AnswerIsFresh, SpinnerEnds

\* A step that touches none of it; mishaps only become more.
LEMMA SameFreshState ==
    ASSUME FreshInv, UNCHANGED freshState, past \subseteq past' PROVE FreshInv'
<1>1. PlanInv'
  BY SamePlanState DEF FreshInv, freshState, planState
<1>2. ToldTypes' /\ AnswerIsFresh' /\ SpinnerEnds'
  BY DEF FreshInv, freshState, ToldTypes, AnswerIsFresh, SpinnerEnds, Asking
<1>3. PlanComes'
  BY DEF FreshInv, freshState, PlanComes, Undisturbed, Asking
<1> QED
  BY <1>1, <1>2, <1>3 DEF FreshInv

\* A reload is due after the step: whatever was asked for no longer matters.
LEMMA DueKeepsFresh ==
    ASSUME PlanInv', ToldTypes', timer' # None PROVE FreshInv'
BY DEF FreshInv, PlanComes, AnswerIsFresh, SpinnerEnds

\* Mishaps apart, a step that asks anew, with nothing served yet.
LEMMA AskingKeepsFresh ==
    ASSUME FreshInv, PlanInv', NEW step \in Steps, AskPlan(day, step), UNCHANGED <<srv, told, day, plan>>
    PROVE  FreshInv'
<1> DEFINE new == [day |-> day, step |-> step, ver |-> None, live |-> TRUE]
<1>1. asks' = Outdated \cup {new} /\ spinner' = TRUE
  BY DEF AskPlan
<1>2. \A a \in asks' : a.live => a = new
  BY <1>1, OutdatedRequests DEF FreshInv, PlanInv
<1>3. new \in asks' /\ new.live /\ new.ver = None
  BY <1>1
<1>4. AnswerIsFresh' /\ PlanComes' /\ SpinnerEnds'
  BY <1>2, <1>3 DEF AnswerIsFresh, PlanComes, SpinnerEnds, Asking
<1>5. ToldTypes'
  BY <1>1 DEF FreshInv, ToldTypes
<1> QED
  BY <1>4, <1>5 DEF FreshInv

\* The server's versions grow.
LEMMA ChangeKeepsFresh == ASSUME FreshInv, NEW d \in Days, Change(d) PROVE FreshInv'
<1>1. /\ srv' = [srv EXCEPT ![d] = @ + 1]
      /\ UNCHANGED <<told, day, plan, spinner, timer, asks, past>>
  BY DEF Change, pageVars
<1>2. PlanInv'
  BY ChangeKeepsPlan DEF FreshInv
<1>3. ToldTypes'
  BY <1>1 DEF FreshInv, ToldTypes, PlanInv, PlanTypes
<1>4. PlanComes' /\ AnswerIsFresh' /\ SpinnerEnds'
  BY <1>1 DEF FreshInv, PlanComes, AnswerIsFresh, SpinnerEnds, Undisturbed, Asking
<1> QED
  BY <1>2, <1>3, <1>4 DEF FreshInv

\* What is heard makes a reload due, unless one is.
LEMMA HearKeepsFresh == ASSUME FreshInv, NEW d \in Days, Hear(d) PROVE FreshInv'
<1>1. /\ told' = [told EXCEPT ![d] = srv[d]] /\ timer' = IF timer = None THEN day ELSE timer
      /\ UNCHANGED <<srv, day, plan, spinner, asks>>
  BY DEF Hear
<1>2. PlanInv'
  BY <1>1 DEF FreshInv, PlanInv, PlanTypes, CurrentIsOfDate, OneCurrent, PlanWasServed, AnswersWereServed
<1>3. ToldTypes'
  BY <1>1 DEF FreshInv, ToldTypes, PlanInv, PlanTypes
<1>4. timer' # None
  BY <1>1, DispatchScreenAssumption DEF FreshInv, PlanInv, PlanTypes
<1> QED
  BY <1>2, <1>3, <1>4, DueKeepsFresh

\* Another date: a reload of it is due.
LEMMA PickKeepsFresh == ASSUME FreshInv, NEW d \in Days, PickDate(d) PROVE FreshInv'
<1>1. timer' = d /\ day' = d /\ asks' = Outdated /\ UNCHANGED <<srv, told, plan, spinner>>
  BY DEF PickDate, Click
<1>2. PlanInv'
  BY <1>1, OutdatingKeepsPlan DEF FreshInv
<1>3. ToldTypes' /\ timer' # None
  BY <1>1, DispatchScreenAssumption DEF FreshInv, ToldTypes
<1> QED
  BY <1>2, <1>3, DueKeepsFresh

\* Optimise: the page is as it was if nothing current was under way.
LEMMA OptimizeKeepsFresh == ASSUME FreshInv, Optimize PROVE FreshInv'
<1>1. /\ asks' = Outdated /\ spinner' = FALSE /\ UNCHANGED <<srv, told, day, plan, timer>>
      /\ past' = IF asks # Outdated THEN past \cup {"dropped"} ELSE past
  BY DEF Optimize, Click
<1>2. PlanInv'
  BY <1>1, OutdatingKeepsPlan DEF FreshInv, PlanInv, PlanTypes, CurrentIsOfDate
<1>3. ToldTypes' /\ SpinnerEnds'
  BY <1>1 DEF FreshInv, ToldTypes, SpinnerEnds
<1>4. \A a \in asks' : ~a.live
  BY <1>1, OutdatedRequests DEF FreshInv, PlanInv
<1>5. AnswerIsFresh'
  BY <1>4 DEF AnswerIsFresh
<1>6. PlanComes'
  <2>1. CASE asks = Outdated
    BY <1>1, <1>4, <2>1 DEF FreshInv, PlanComes, Undisturbed, Asking
  <2>2. CASE asks # Outdated
    BY <1>1, <2>2 DEF PlanComes, Undisturbed
  <2> QED
    BY <2>1, <2>2
<1> QED
  BY <1>2, <1>3, <1>5, <1>6 DEF FreshInv

\* The server answers with a version no older than what was heard of it.
LEMMA ServingKeepsFresh == ASSUME FreshInv, NEW a \in asks, ServeAsk(a) PROVE FreshInv'
<1> DEFINE answered == [a EXCEPT !.ver = srv[a.day]]
<1>1. /\ asks' = (asks \ {a}) \cup {answered} /\ a.ver = None
      /\ UNCHANGED <<srv, told, day, plan, spinner, timer, past>>
  BY DEF ServeAsk, CurrentPlan
<1>2. PlanInv'
  BY ServingKeepsPlan DEF FreshInv
<1>3. /\ answered.day = a.day /\ answered.live = a.live /\ answered.ver = srv[a.day]
      /\ a.day \in Days /\ srv[a.day] \in Nat
  BY DEF FreshInv, PlanInv, PlanTypes
<1>4. Asking => Asking'
  BY <1>1, <1>3 DEF Asking
<1>5. ToldTypes' /\ SpinnerEnds' /\ PlanComes'
  BY <1>1, <1>4 DEF FreshInv, ToldTypes, SpinnerEnds, PlanComes, Undisturbed
<1>6. AnswerIsFresh'
  <2>1. a.live => a.day = day
    BY DEF FreshInv, PlanInv, CurrentIsOfDate
  <2>2. answered.live => answered.ver >= told[day]
    BY <1>3, <2>1 DEF FreshInv, ToldTypes
  <2> QED
    BY <1>1, <2>2 DEF FreshInv, AnswerIsFresh
<1> QED
  BY <1>2, <1>5, <1>6 DEF FreshInv

\* The current answer is shown; another changes nothing.
LEMMA AnswerKeepsFresh == ASSUME FreshInv, NEW a \in asks, AskArrives(a) PROVE FreshInv'
<1> DEFINE more == [a EXCEPT !.step = "routes", !.ver = None]
           goesOn == a.live /\ a.step = "plan" /\ a.ver = 0
<1>1. /\ a.ver # None
      /\ asks' = (asks \ {a}) \cup (IF goesOn THEN {more} ELSE {})
      /\ plan' = IF a.live THEN [day |-> a.day, ver |-> a.ver] ELSE plan
      /\ spinner' = (spinner /\ (goesOn \/ ~a.live))
      /\ UNCHANGED <<srv, told, day, timer, past>>
  BY DEF AskArrives
<1>2. PlanInv'
  BY AnswerKeepsPlan DEF FreshInv
<1>3. a \in [day: Days, step: Steps, ver: Nat \cup {None}, live: BOOLEAN]
  BY DEF FreshInv, PlanInv, PlanTypes
<1>4. more.live = a.live /\ more.ver = None
  BY <1>3
<1>5. ToldTypes'
  BY <1>1 DEF FreshInv, ToldTypes
<1>6. AnswerIsFresh'
  BY <1>1, <1>4 DEF FreshInv, AnswerIsFresh
<1> HIDE DEF more
<1>7. CASE ~a.live
  <2>1. Asking <=> Asking'
    BY <1>1, <1>7 DEF Asking
  <2>2. PlanComes' /\ SpinnerEnds'
    BY <1>1, <1>7, <2>1 DEF FreshInv, PlanComes, SpinnerEnds, Undisturbed
  <2> QED
    BY <1>2, <1>5, <1>6, <2>2 DEF FreshInv
<1>8. CASE a.live
  <2>1. a.day = day /\ plan' = [day |-> day, ver |-> a.ver] /\ plan' # None
    BY <1>1, <1>2, <1>3, <1>8, DispatchScreenAssumption DEF FreshInv, PlanInv, CurrentIsOfDate
  <2>2. PlanComes'
    BY <1>1, <1>8, <2>1 DEF FreshInv, AnswerIsFresh, PlanComes
  <2>3. SpinnerEnds'
    BY <1>1, <1>4, <1>8 DEF SpinnerEnds, Asking
  <2> QED
    BY <1>2, <1>5, <1>6, <2>2, <2>3 DEF FreshInv
<1> QED
  BY <1>7, <1>8

\* A current request that fails is a mishap.
LEMMA FailureKeepsFresh == ASSUME FreshInv, NEW a \in asks, AskFails(a) PROVE FreshInv'
<1>1. /\ asks' = asks \ {a} /\ spinner' = (spinner /\ ~a.live)
      /\ past' = IF a.live THEN past \cup {"lost"} ELSE past
      /\ UNCHANGED <<srv, told, day, plan, timer>>
  BY DEF AskFails
<1>2. PlanInv'
  BY FailureKeepsPlan DEF FreshInv
<1>3. ToldTypes' /\ AnswerIsFresh'
  BY <1>1 DEF FreshInv, ToldTypes, AnswerIsFresh
<1>4. CASE a.live
  BY <1>1, <1>2, <1>3, <1>4 DEF FreshInv, PlanComes, SpinnerEnds, Undisturbed
<1>5. CASE ~a.live
  <2>1. Asking <=> Asking'
    BY <1>1, <1>5 DEF Asking
  <2> QED
    BY <1>1, <1>2, <1>3, <1>5, <2>1 DEF FreshInv, PlanComes, SpinnerEnds, Undisturbed
<1> QED
  BY <1>4, <1>5

\* Every step of the page.
LEMMA StepKeepsFresh == ASSUME FreshInv, [DSNext]_dsVars PROVE FreshInv'
<1>1. CASE UNCHANGED dsVars
  <2>1. UNCHANGED freshState /\ past' = past
    BY <1>1 DEF dsVars, freshState
  <2> QED
    BY <2>1, SameFreshState
<1>2. ASSUME NEW d \in Days, Change(d) \/ Hear(d) \/ PickDate(d) PROVE FreshInv'
  BY <1>2, ChangeKeepsFresh, HearKeepsFresh, PickKeepsFresh
<1>3. CASE TimerFires
  <2>1. AskPlan(day, "summary") /\ UNCHANGED <<srv, told, day, plan>>
    BY <1>3 DEF TimerFires, FreshInv, PlanInv, CurrentIsOfDate
  <2>2. PlanInv'
    BY <1>3, StepKeepsPlan DEF FreshInv, DSNext
  <2> QED
    BY <2>1, <2>2, AskingKeepsFresh DEF Steps
<1>4. CASE Refresh
  <2>1. AskPlan(day, "plan") /\ UNCHANGED <<srv, told, day, plan>>
    BY <1>4 DEF Refresh, Click
  <2>2. PlanInv'
    BY <1>4, StepKeepsPlan DEF FreshInv, DSNext
  <2> QED
    BY <2>1, <2>2, AskingKeepsFresh DEF Steps
<1>5. CASE Optimize
  BY <1>5, OptimizeKeepsFresh
<1>6. CASE (\E s \in Statuses : LinkChanges(s)) \/ PollTick \/ BasesFail \/ CloseDetails
  <2>1. UNCHANGED freshState /\ past \subseteq past'
    BY <1>6 DEF LinkChanges, PollTick, BasesFail, CloseDetails, Click, planVars, freshState
  <2> QED
    BY <2>1, SameFreshState
<1>7. ASSUME NEW a \in asks, ServeAsk(a) \/ AskArrives(a) \/ AskFails(a) PROVE FreshInv'
  BY <1>7, ServingKeepsFresh, AnswerKeepsFresh, FailureKeepsFresh
<1>8. ASSUME NEW c \in calls, CallArrives(c) \/ CallFails(c) PROVE FreshInv'
  <2>1. UNCHANGED freshState /\ past \subseteq past'
    BY <1>8 DEF CallArrives, CallFails, planVars, freshState
  <2> QED
    BY <2>1, SameFreshState
<1>9. ASSUME NEW o \in Orders, OpenDetails(o) \/ DetailsArrive(o) PROVE FreshInv'
  <2>1. UNCHANGED freshState /\ past \subseteq past'
    BY <1>9 DEF OpenDetails, DetailsArrive, Click, planVars, freshState
  <2> QED
    BY <2>1, SameFreshState
<1> QED
  BY <1>1, <1>2, <1>3, <1>4, <1>5, <1>6, <1>7, <1>8, <1>9 DEF DSNext

-----------------------------------------------------------------------------
(* The orders and the details at rest                                        *)

\* The list asked for as the page is opened is of its date.
LEMMA InitOrders == DSInit => OrdersInv /\ DetailsInv
<1> SUFFICES ASSUME DSInit PROVE OrdersInv /\ DetailsInv
  OBVIOUS
<1>1. calls = {[day |-> day, live |-> TRUE]} /\ day \in Days
  BY DispatchScreenAssumption DEF DSInit
<1>2. OrdersInv
  BY <1>1 DEF DSInit, OrdersInv
<1>3. DetailsInv
  BY DEF DSInit, DetailsInv
<1> QED
  BY <1>2, <1>3

\* loadOrders: the only current request is the new one, and no error is shown.
LEMMA CallingKeepsOrders ==
    ASSUME OrdersInv, NEW d \in Days, CallOrders(d), day' = d PROVE OrdersInv'
<1> DEFINE new == [day |-> d, live |-> TRUE]
<1>1. /\ calls' = {[c EXCEPT !.live = FALSE] : c \in calls} \cup {new}
      /\ orders' = [orders EXCEPT !.error = FALSE]
  BY DEF CallOrders
<1>2. \A c \in calls' : c = new \/ (~c.live /\ c \in [day: Days, live: BOOLEAN])
  BY ZenonT(60), <1>1 DEF OrdersInv
<1>3. new \in calls' /\ new.live /\ new.day = d /\ new \in [day: Days, live: BOOLEAN]
  BY <1>1
<1>4. orders' \in [of: Days \cup {None}, error: BOOLEAN] /\ ~orders'.error
  BY <1>1 DEF OrdersInv
<1> HIDE DEF new
<1> QED
  BY <1>2, <1>3, <1>4 DEF OrdersInv

\* A step that leaves the orders alone; mishaps only become more.
LEMMA SameOrders ==
    ASSUME OrdersInv, UNCHANGED <<day, orders, calls>>, past \subseteq past' PROVE OrdersInv'
BY DEF OrdersInv

\* The current answer is what is shown from then on, another is dropped.
LEMMA CallEndsKeepsOrders ==
    ASSUME OrdersInv, NEW c \in calls, CallArrives(c) \/ CallFails(c), day \in Days PROVE OrdersInv'
<1>1. calls' = calls \ {c} /\ day' = day /\ c \in [day: Days, live: BOOLEAN]
  BY DEF CallArrives, CallFails, OrdersInv
<1>2. c.live => c.day = day /\ ~ \E e \in calls' : e.live
  BY <1>1 DEF OrdersInv
<1>3. ~c.live => ((\E e \in calls' : e.live) <=> (\E e \in calls : e.live))
  BY <1>1
<1>4. CASE CallArrives(c) /\ c.live
  <2>1. orders' = [orders EXCEPT !.of = day] /\ past' = past
    BY <1>2, <1>4 DEF CallArrives
  <2>2. orders' \in [of: Days \cup {None}, error: BOOLEAN] /\ orders'.of = day /\ orders'.error = orders.error
    BY <2>1 DEF OrdersInv
  <2>3. "late" \notin past =>
          \/ orders' = [of |-> day, error |-> FALSE]
          \/ orders' = [of |-> day, error |-> TRUE] /\ "bare" \in past
    BY <1>4, <2>1, <2>2 DEF OrdersInv
  <2> QED
    BY <1>1, <1>2, <1>4, <2>1, <2>2, <2>3 DEF OrdersInv
<1>5. CASE CallArrives(c) /\ ~c.live
  BY <1>1, <1>3, <1>5 DEF OrdersInv, CallArrives
<1>6. CASE CallFails(c)
  <2>1. orders' = [of |-> None, error |-> TRUE] /\ (~c.live => "late" \in past')
    BY <1>6 DEF CallFails
  <2> QED
    BY <1>1, <1>2, <2>1 DEF OrdersInv
<1> QED
  BY <1>4, <1>5, <1>6

\* Another list fails: its error is shown over the orders, which stay.
LEMMA BasesFailKeepsOrders == ASSUME OrdersInv, BasesFail PROVE OrdersInv'
<1>1. /\ orders' = [orders EXCEPT !.error = TRUE] /\ calls' = calls /\ day' = day
      /\ past' = past \cup {"bare"}
  BY DEF BasesFail
<1>2. /\ orders' \in [of: Days \cup {None}, error: BOOLEAN] /\ orders'.error
      /\ orders'.of = orders.of /\ orders' = [of |-> orders.of, error |-> TRUE]
  BY <1>1 DEF OrdersInv
<1>3. "bare" \in past' /\ ("late" \notin past' => "late" \notin past)
  BY <1>1
<1>4. ASSUME "late" \notin past, ~ \E c \in calls : c.live PROVE orders.of \in {day, None}
  BY <1>4 DEF OrdersInv
<1>5. ASSUME "late" \notin past, ~ \E c \in calls : c.live
      PROVE  orders' \in {[of |-> day, error |-> TRUE], [of |-> None, error |-> TRUE]}
  BY <1>2, <1>4, <1>5
<1> QED
  BY <1>1, <1>2, <1>3, <1>5 DEF OrdersInv

\* Every step keeps what is said of the orders.
LEMMA StepKeepsOrders == ASSUME OrdersInv, day \in Days, [DSNext]_dsVars PROVE OrdersInv'
<1>1. CASE UNCHANGED dsVars
  BY <1>1, SameOrders DEF dsVars
<1>2. ASSUME NEW d \in Days, Change(d) \/ Hear(d) PROVE OrdersInv'
  BY <1>2, SameOrders DEF Change, Hear, pageVars
<1>3. ASSUME NEW d \in Days, PickDate(d) PROVE OrdersInv'
  BY <1>3, CallingKeepsOrders DEF PickDate
<1>4. CASE Refresh \/ PollTick
  BY <1>4, CallingKeepsOrders DEF Refresh, PollTick
<1>5. CASE (\E s \in Statuses : LinkChanges(s)) \/ TimerFires \/ Optimize \/ CloseDetails
  BY <1>5, SameOrders DEF LinkChanges, TimerFires, Optimize, CloseDetails, Click, planVars
<1>6. ASSUME NEW a \in asks, ServeAsk(a) \/ AskArrives(a) \/ AskFails(a) PROVE OrdersInv'
  BY <1>6, SameOrders DEF ServeAsk, AskArrives, AskFails
<1>7. ASSUME NEW c \in calls, CallArrives(c) \/ CallFails(c) PROVE OrdersInv'
  BY <1>7, CallEndsKeepsOrders
<1>8. ASSUME NEW o \in Orders, OpenDetails(o) \/ DetailsArrive(o) PROVE OrdersInv'
  BY <1>8, SameOrders DEF OpenDetails, DetailsArrive, Click, planVars
<1>9. CASE BasesFail
  BY <1>9, BasesFailKeepsOrders
<1> QED
  BY <1>1, <1>2, <1>3, <1>4, <1>5, <1>6, <1>7, <1>8, <1>9 DEF DSNext

\* Every step keeps what is said of the details: only an answer changes them under
\* an open dialog, and one of another order is a mishap.
LEMMA StepKeepsDetails == ASSUME DetailsInv, [DSNext]_dsVars PROVE DetailsInv'
<1>1. ASSUME UNCHANGED details, past \subseteq past' PROVE DetailsInv'
  BY <1>1 DEF DetailsInv
<1>2. CASE UNCHANGED dsVars
  BY <1>1, <1>2 DEF dsVars
<1>3. ASSUME NEW d \in Days, Change(d) \/ Hear(d) \/ PickDate(d) PROVE DetailsInv'
  BY <1>1, <1>3 DEF Change, Hear, PickDate, pageVars
<1>4. CASE \/ \E s \in Statuses : LinkChanges(s)
           \/ TimerFires \/ Refresh \/ Optimize \/ PollTick \/ BasesFail
  BY <1>1, <1>4 DEF LinkChanges, TimerFires, Refresh, Optimize, PollTick, BasesFail
<1>5. CASE CloseDetails
  BY <1>5 DEF CloseDetails, DetailsInv
<1>6. ASSUME NEW a \in asks, ServeAsk(a) \/ AskArrives(a) \/ AskFails(a) PROVE DetailsInv'
  BY <1>1, <1>6 DEF ServeAsk, AskArrives, AskFails
<1>7. ASSUME NEW c \in calls, CallArrives(c) \/ CallFails(c) PROVE DetailsInv'
  BY <1>1, <1>7 DEF CallArrives, CallFails
<1>8. ASSUME NEW o \in Orders, OpenDetails(o) PROVE DetailsInv'
  BY <1>8 DEF OpenDetails, ModalOpen, DetailsInv
<1>9. ASSUME NEW o \in Orders, DetailsArrive(o) PROVE DetailsInv'
  BY <1>1, <1>9 DEF DetailsArrive, DetailsInv
<1> QED
  BY <1>2, <1>3, <1>4, <1>5, <1>6, <1>7, <1>8, <1>9 DEF DSNext

\* At rest the dispatch page (components/Dispatch.tsx) shows its date: routes or
\* the word that there are none, without a spinner; the orders of that date or an
\* error, which lies over them when it is another list's; in the details dialog its
\* own order.  Only the mishaps named excuse it.
THEOREM RestingPageIsOfDate == DSSpec => []SettledPageIsOfDate
<1>1. DSInit => FreshInv /\ OrdersInv /\ DetailsInv
  BY InitFresh, InitOrders
<1>2. FreshInv /\ OrdersInv /\ DetailsInv /\ [DSNext]_dsVars => (FreshInv /\ OrdersInv /\ DetailsInv)'
  BY StepKeepsFresh, StepKeepsOrders, StepKeepsDetails DEF FreshInv, PlanInv, PlanTypes
<1>3. FreshInv /\ OrdersInv /\ DetailsInv => SettledPageIsOfDate
  <2> SUFFICES ASSUME FreshInv, OrdersInv, DetailsInv PROVE SettledPageIsOfDate
    OBVIOUS
  <2>1. PlanAtRest => ~Asking /\ timer = None
    BY DEF PlanAtRest, Asking
  <2>2. PlanAtRest => ~spinner
    BY <2>1 DEF FreshInv, SpinnerEnds
  <2>3. PlanAtRest /\ past \cap {"lost", "dropped"} = {} =>
          PanelView \in {"routes", "no routes"} /\ plan.day = day
    <3> SUFFICES ASSUME PlanAtRest, Undisturbed
                 PROVE  PanelView \in {"routes", "no routes"} /\ plan.day = day
      BY DEF Undisturbed
    <3>1. plan # None /\ plan.day = day
      BY <2>1 DEF FreshInv, PlanComes
    <3>2. plan.ver > 0 \/ plan.ver = 0
      BY <3>1 DEF FreshInv, PlanInv, PlanTypes
    <3> QED
      BY <2>2, <3>1, <3>2 DEF PanelView
  <2>4. calls = {} /\ "late" \notin past =>
          \/ orders \in {[of |-> day, error |-> FALSE], [of |-> None, error |-> TRUE]}
          \/ orders = [of |-> day, error |-> TRUE] /\ "bare" \in past
    BY DEF OrdersInv
  <2>5. ModalOpen /\ "crossed" \notin past => DetailsView \in {"spinner", details.open}
    BY DEF DetailsInv, DetailsView
  <2> QED
    BY <2>2, <2>3, <2>4, <2>5 DEF SettledPageIsOfDate
<1> QED
  BY <1>1, <1>2, <1>3, PTL DEF DSSpec

\* A plan at rest is as new as the last change the page has heard of, although the
\* handler ignores a message while a reload is due (components/Dispatch.tsx,
\* dayRoutesDebounceRef) and the load may have read the server before it.
THEOREM HeardChangesAreShown == DSSpec => []FreshAfterEvent
<1>1. DSInit => FreshInv
  BY InitFresh
<1>2. FreshInv /\ [DSNext]_dsVars => FreshInv'
  BY StepKeepsFresh
<1>3. FreshInv => FreshAfterEvent
  BY DEF FreshInv, PlanComes, FreshAfterEvent, PlanAtRest, Asking, Undisturbed
<1> QED
  BY <1>1, <1>2, <1>3, PTL DEF DSSpec

-----------------------------------------------------------------------------
(* The maps                                                                  *)

OnMap(k) == [driver |-> chosen, leg |-> k] \in layers

WaybillTypes ==
    /\ mapReady \in BOOLEAN /\ chosen \in Crew \cup {Nobody} /\ routed \subseteq Crew /\ strayed \in BOOLEAN
    /\ drawings \subseteq [driver: Crew, next: Nat \ {0}, legs: SUBSET Legs, live: BOOLEAN]
    /\ layers \subseteq [driver: Crew, leg: 0..NumLegs]

OneDrawing == \A v, w \in drawings : v.live /\ w.live => v = w

\* Only the chosen driver is drawn, and the current drawing has put on the map what
\* it has begun, but for the legs it waits for.
DrawnOfChosen ==
    /\ \A l \in layers : l.driver = chosen /\ chosen \in routed
    /\ \A w \in drawings : w.live =>
         /\ w.driver = chosen /\ chosen \in routed /\ \A k \in w.legs : k < w.next
         /\ \A k \in 0..NumLegs : OnMap(k) <=> k < w.next /\ k \notin w.legs

\* With no current drawing the waybill is whole, or there is none.
WholeAtRest ==
    (\A w \in drawings : ~w.live) =>
        \/ layers = {}
        \/ (\A k \in 0..NumLegs : OnMap(k)) /\ (strayed \/ view = chosen)

WaybillInv == WaybillTypes /\ OneDrawing /\ DrawnOfChosen /\ WholeAtRest

LEMMA InitWaybill == WMInit => WaybillInv
BY DEF WMInit, WaybillInv, WaybillTypes, OneDrawing, DrawnOfChosen, WholeAtRest

\* Outdated drawings stay drawings, and none of them is current.
LEMMA OutdatedDrawings ==
    ASSUME WaybillTypes
    PROVE  /\ Outdate(drawings) \subseteq [driver: Crew, next: Nat \ {0}, legs: SUBSET Legs, live: BOOLEAN]
           /\ \A w \in Outdate(drawings) : ~w.live
<1> SUFFICES ASSUME NEW o \in Outdate(drawings)
             PROVE  o \in [driver: Crew, next: Nat \ {0}, legs: SUBSET Legs, live: BOOLEAN] /\ ~o.live
  OBVIOUS
<1>1. PICK w \in drawings : o = [w EXCEPT !.live = FALSE]
  BY DEF Outdate
<1>2. w \in [driver: Crew, next: Nat \ {0}, legs: SUBSET Legs, live: BOOLEAN]
  BY DEF WaybillTypes
<1> QED
  BY <1>1, <1>2

\* What a batch draws at once and what it waits for.
LEMMA BatchBegins ==
    ASSUME NEW d \in Crew, NEW i \in Nat \ {0}, NEW known
    PROVE  /\ Begin(d, i, known) \in [driver: Crew, next: Nat \ {0}, legs: SUBSET Legs, live: BOOLEAN]
           /\ Begin(d, i, known).live /\ Begin(d, i, known).driver = d /\ Begin(d, i, known).next = i + Batch
           /\ \A k \in Begin(d, i, known).legs : k \in Legs /\ k >= i /\ k < i + Batch
           /\ Known(d, i, known) \subseteq [driver: Crew, leg: 0..NumLegs]
           /\ \A l \in Known(d, i, known) : l.driver = d
           /\ \A k \in 0..NumLegs : [driver |-> d, leg |-> k] \in Known(d, i, known)
                <=> k >= i /\ k < i + Batch /\ k \notin Begin(d, i, known).legs
<1> DEFINE L == {l \in BatchFrom(i) : <<d, l>> \notin known}
           K == {k \in BatchFrom(i) : <<d, k>> \in known}
<1>1. NumLegs \in Nat /\ Batch \in Nat /\ i \in Nat /\ i > 0
  BY WaybillMapAssumption
<1>2. \A k : k \in BatchFrom(i) <=> k \in Legs /\ k >= i /\ k < i + Batch
  BY <1>1 DEF BatchFrom, Legs
<1>3. L \subseteq Legs /\ K \subseteq Legs /\ \A k \in BatchFrom(i) : k \in K <=> k \notin L
  BY <1>2
<1>4. L \subseteq BatchFrom(i) /\ K \subseteq BatchFrom(i)
  OBVIOUS
<1>5. Begin(d, i, known) = [driver |-> d, next |-> i + Batch, live |-> TRUE, legs |-> L]
  BY DEF Begin
<1>6. Known(d, i, known) = {[driver |-> d, leg |-> l] : l \in K}
  BY DEF Known
<1> HIDE DEF L, K
<1>7. /\ Begin(d, i, known) \in [driver: Crew, next: Nat \ {0}, legs: SUBSET Legs, live: BOOLEAN]
      /\ Begin(d, i, known).live /\ Begin(d, i, known).driver = d /\ Begin(d, i, known).next = i + Batch
      /\ Begin(d, i, known).legs = L
  BY <1>1, <1>3, <1>5
<1>8. Known(d, i, known) \subseteq [driver: Crew, leg: 0..NumLegs] /\ \A l \in Known(d, i, known) : l.driver = d
  BY <1>1, <1>3, <1>6 DEF Legs
<1>9. ASSUME NEW k \in 0..NumLegs
      PROVE  [driver |-> d, leg |-> k] \in Known(d, i, known) <=> k \in K
  BY <1>6, <1>9
<1>10. \A k \in 0..NumLegs : k \in K <=> k >= i /\ k < i + Batch /\ k \notin L
  BY <1>1, <1>2, <1>3, <1>4 DEF Legs
<1> QED
  BY <1>2, <1>3, <1>4, <1>7, <1>8, <1>9, <1>10

\* A drawing starts over, or the map stays empty.
LEMMA RedrawKeepsWaybill ==
    ASSUME WaybillTypes, mapReady' \in BOOLEAN, strayed' \in BOOLEAN, chosen' \in Crew \cup {Nobody},
           routed' \subseteq Crew, NEW known, Redraw(chosen', routed', known)
    PROVE  WaybillInv'
<1>1. NumLegs \in Nat /\ Batch \in Nat \ {0} /\ 1 \in Nat \ {0}
  BY WaybillMapAssumption
<1>2. CASE ~(mapReady /\ chosen' \in routed')
  <2>1. drawings' = Outdate(drawings) /\ layers' = {}
    BY <1>2 DEF Redraw
  <2> QED
    BY <2>1, OutdatedDrawings DEF WaybillInv, WaybillTypes, OneDrawing, DrawnOfChosen, WholeAtRest
<1>3. CASE mapReady /\ chosen' \in routed'
  <2> DEFINE b == Begin(chosen', 1, known)
             m == Known(chosen', 1, known)
             stop == [driver |-> chosen', leg |-> 0]
  <2>1. drawings' = Outdate(drawings) \cup {b} /\ layers' = {stop} \cup m /\ chosen' \in Crew
    BY <1>3 DEF Redraw
  <2>2. /\ b \in [driver: Crew, next: Nat \ {0}, legs: SUBSET Legs, live: BOOLEAN]
        /\ b.live /\ b.driver = chosen' /\ b.next = 1 + Batch
        /\ \A k \in b.legs : k \in Legs /\ k >= 1 /\ k < 1 + Batch
        /\ m \subseteq [driver: Crew, leg: 0..NumLegs] /\ \A l \in m : l.driver = chosen'
        /\ \A k \in 0..NumLegs : [driver |-> chosen', leg |-> k] \in m <=> k >= 1 /\ k < 1 + Batch /\ k \notin b.legs
    BY <1>1, <2>1, BatchBegins
  <2>3. stop \in [driver: Crew, leg: 0..NumLegs] /\ stop.driver = chosen'
    BY <1>1, <2>1
  <2>4. \A k \in 0..NumLegs : [driver |-> chosen', leg |-> k] = stop <=> k = 0
    OBVIOUS
  <2> HIDE DEF b, m, stop
  <2>5. \A w \in drawings' : w.live => w = b
    BY <2>1, OutdatedDrawings
  <2>6. WaybillTypes'
    BY <2>1, <2>2, <2>3, OutdatedDrawings DEF WaybillTypes
  <2>7. \A l \in layers' : l.driver = chosen'
    BY <2>1, <2>2, <2>3
  <2>8. ASSUME NEW k \in 0..NumLegs PROVE OnMap(k)' <=> k < b.next /\ k \notin b.legs
    <3>1. OnMap(k)' <=> [driver |-> chosen', leg |-> k] = stop \/ [driver |-> chosen', leg |-> k] \in m
      BY <2>1 DEF OnMap
    <3>2. k \in Nat /\ (k = 0 => k < b.next /\ k \notin b.legs)
      BY <1>1, <2>2 DEF Legs
    <3> QED
      BY <1>1, <2>2, <2>4, <3>1, <3>2
  <2> QED
    BY <1>3, <2>1, <2>2, <2>5, <2>6, <2>7, <2>8 DEF WaybillInv, OneDrawing, DrawnOfChosen, WholeAtRest
<1> QED
  BY <1>2, <1>3

\* A drawing that changes stays the current one, or stays outdated.
LEMMA LegKeepsWaybill ==
    ASSUME WaybillInv, NEW w \in drawings, NEW l \in Legs, LegArrives(w, l) PROVE WaybillInv'
<1> DEFINE v == [w EXCEPT !.legs = @ \ {l}]
           line == [driver |-> w.driver, leg |-> l]
<1>1. /\ NumLegs \in Nat /\ l \in 0..NumLegs
      /\ w \in [driver: Crew, next: Nat \ {0}, legs: SUBSET Legs, live: BOOLEAN]
  BY WaybillMapAssumption DEF WaybillInv, WaybillTypes, Legs
<1>2. /\ drawings' = (drawings \ {w}) \cup {v} /\ UNCHANGED <<mapReady, chosen, routed, view, strayed>>
      /\ layers' = IF w.live THEN layers \cup {line} ELSE layers
  BY DEF LegArrives
<1>3. /\ v \in [driver: Crew, next: Nat \ {0}, legs: SUBSET Legs, live: BOOLEAN]
      /\ v.live = w.live /\ v.driver = w.driver /\ v.next = w.next /\ v.legs = w.legs \ {l} /\ l \in w.legs
  BY <1>1 DEF LegArrives
<1>4. line \in [driver: Crew, leg: 0..NumLegs] /\ line.driver = w.driver
      /\ \A k \in 0..NumLegs : [driver |-> w.driver, leg |-> k] = line <=> k = l
  BY <1>1
<1> HIDE DEF v, line
<1>5. WaybillTypes'
  BY <1>2, <1>3, <1>4 DEF WaybillInv, WaybillTypes
<1>6. OneDrawing'
  BY <1>2, <1>3 DEF WaybillInv, OneDrawing
<1>7. CASE w.live
  <2>1. /\ w.driver = chosen /\ chosen \in routed /\ \A k \in w.legs : k < w.next
        /\ \A k \in 0..NumLegs : OnMap(k) <=> k < w.next /\ k \notin w.legs
        /\ \A u \in drawings' : u.live => u = v
    BY <1>2, <1>3, <1>7 DEF WaybillInv, DrawnOfChosen, OneDrawing
  <2>2. \A k \in 0..NumLegs : OnMap(k)' <=> OnMap(k) \/ k = l
    BY <1>2, <1>4, <1>7, <2>1 DEF OnMap
  <2>3. \A k \in 0..NumLegs : OnMap(k)' <=> k < v.next /\ k \notin v.legs
    BY <1>3, <2>1, <2>2
  <2>4. DrawnOfChosen'
    BY <1>2, <1>3, <1>4, <1>7, <2>1, <2>3 DEF WaybillInv, DrawnOfChosen
  <2>5. WholeAtRest'
    BY <1>2, <1>3, <1>7 DEF WholeAtRest
  <2> QED
    BY <1>5, <1>6, <2>4, <2>5 DEF WaybillInv
<1>8. CASE ~w.live
  <2>1. \A u : u.live => (u \in drawings' <=> u \in drawings)
    BY <1>2, <1>3, <1>8
  <2>2. UNCHANGED <<layers, chosen, routed, view, strayed>> /\ \A k : OnMap(k)' = OnMap(k)
    BY <1>2, <1>8 DEF OnMap
  <2> QED
    BY <1>5, <1>6, <2>1, <2>2 DEF WaybillInv, DrawnOfChosen, WholeAtRest
<1> QED
  BY <1>7, <1>8

\* The next batch joins what the current drawing has put on the map.
LEMMA BatchKeepsWaybill == ASSUME WaybillInv, NEW w \in drawings, NextBatch(w) PROVE WaybillInv'
<1> DEFINE b == Begin(w.driver, w.next, roads)
           m == Known(w.driver, w.next, roads)
<1>1. /\ NumLegs \in Nat /\ Batch \in Nat \ {0}
      /\ w \in [driver: Crew, next: Nat \ {0}, legs: SUBSET Legs, live: BOOLEAN]
      /\ w.legs = {} /\ w.live
  BY WaybillMapAssumption DEF WaybillInv, WaybillTypes, NextBatch
<1>2. /\ w.driver = chosen /\ chosen \in routed
      /\ \A k \in 0..NumLegs : OnMap(k) <=> k < w.next
  BY <1>1 DEF WaybillInv, DrawnOfChosen
<1>3. /\ drawings' = (drawings \ {w}) \cup {b} /\ layers' = layers \cup m
      /\ UNCHANGED <<mapReady, chosen, routed, view, strayed>>
  BY DEF NextBatch
<1>4. w.driver \in Crew /\ w.next \in Nat \ {0}
  BY <1>1
<1>5. /\ b \in [driver: Crew, next: Nat \ {0}, legs: SUBSET Legs, live: BOOLEAN]
      /\ b.live /\ b.driver = w.driver /\ b.next = w.next + Batch
      /\ \A k \in b.legs : k \in Legs /\ k >= w.next /\ k < w.next + Batch
      /\ m \subseteq [driver: Crew, leg: 0..NumLegs] /\ \A l \in m : l.driver = w.driver
      /\ \A k \in 0..NumLegs : [driver |-> w.driver, leg |-> k] \in m
           <=> k >= w.next /\ k < w.next + Batch /\ k \notin b.legs
  BY <1>4, BatchBegins
<1> HIDE DEF b, m
<1>6. \A u \in drawings' : u.live => u = b
  BY <1>1, <1>3 DEF WaybillInv, OneDrawing
<1>7. WaybillTypes'
  BY <1>3, <1>5 DEF WaybillInv, WaybillTypes
<1>8. \A l \in layers' : l.driver = chosen /\ chosen \in routed
  BY <1>2, <1>3, <1>5 DEF WaybillInv, DrawnOfChosen
<1>9. ASSUME NEW k \in 0..NumLegs PROVE OnMap(k)' <=> k < b.next /\ k \notin b.legs
  <2>1. OnMap(k)' <=> OnMap(k) \/ [driver |-> w.driver, leg |-> k] \in m
    BY <1>2, <1>3 DEF OnMap
  <2>2. k \in Nat
    BY <1>1
  <2> QED
    BY <1>1, <1>2, <1>4, <1>5, <2>1, <2>2
<1>10. \A k \in b.legs : k < b.next
  BY <1>5
<1> QED
  BY <1>2, <1>3, <1>5, <1>6, <1>7, <1>8, <1>9, <1>10 DEF WaybillInv, OneDrawing, DrawnOfChosen, WholeAtRest

\* The current drawing ends whole and zoomed to; an outdated one may stray.
LEMMA EndKeepsWaybill == ASSUME WaybillInv, NEW w \in drawings, DrawingEnds(w) PROVE WaybillInv'
<1>1. /\ NumLegs \in Nat /\ w.legs = {} /\ (w.next > NumLegs \/ ~w.live)
      /\ w \in [driver: Crew, next: Nat \ {0}, legs: SUBSET Legs, live: BOOLEAN]
  BY WaybillMapAssumption DEF WaybillInv, WaybillTypes, DrawingEnds
<1>2. /\ drawings' = drawings \ {w} /\ UNCHANGED <<mapReady, chosen, routed, layers>>
      /\ view' = (IF w.next > NumLegs THEN w.driver ELSE view)
      /\ strayed' = (IF w.next > NumLegs THEN ~w.live ELSE strayed)
  BY DEF DrawingEnds
<1>3. \A k : OnMap(k)' <=> OnMap(k)
  BY <1>2 DEF OnMap
<1>4. WaybillTypes'
  BY <1>1, <1>2 DEF WaybillInv, WaybillTypes
<1>5. OneDrawing' /\ DrawnOfChosen'
  BY <1>2, <1>3 DEF WaybillInv, OneDrawing, DrawnOfChosen
<1>6. WholeAtRest'
  <2>1. CASE w.live
    <3>1. w.driver = chosen /\ \A k \in 0..NumLegs : OnMap(k) <=> k < w.next
      BY <1>1, <2>1 DEF WaybillInv, DrawnOfChosen
    <3>2. \A k \in 0..NumLegs : OnMap(k)
      BY <1>1, <2>1, <3>1
    <3> QED
      BY <1>1, <1>2, <1>3, <2>1, <3>1, <3>2 DEF WholeAtRest
  <2>2. CASE ~w.live
    <3>1. (\A u \in drawings' : ~u.live) => \A u \in drawings : ~u.live
      BY <1>2, <2>2
    <3>2. strayed' \/ (strayed' = strayed /\ view' = view)
      BY <1>2, <2>2
    <3> QED
      BY <1>2, <1>3, <3>1, <3>2 DEF WaybillInv, WholeAtRest
  <2> QED
    BY <2>1, <2>2
<1> QED
  BY <1>4, <1>5, <1>6 DEF WaybillInv

\* The map loads, the driver, the plan or the list of drivers is a new one, a
\* drawing goes on: whatever the page does.
LEMMA NextWaybill == WaybillInv /\ [WMNext \/ RVNext]_wmVars => WaybillInv'
<1> SUFFICES ASSUME WaybillInv, [WMNext \/ RVNext]_wmVars PROVE WaybillInv'
  OBVIOUS
<1>1. WaybillTypes
  BY DEF WaybillInv
<1>2. CASE MapLoads
  BY <1>2 DEF MapLoads, WaybillInv, WaybillTypes, OneDrawing, DrawnOfChosen, WholeAtRest, OnMap
<1>3. ASSUME NEW d \in Crew, ChooseDriver(d) PROVE WaybillInv'
  <2>1. /\ Redraw(chosen', routed', roads) /\ mapReady' \in BOOLEAN /\ strayed' \in BOOLEAN
        /\ chosen' \in Crew \cup {Nobody} /\ routed' \subseteq Crew
    BY <1>1, <1>3 DEF ChooseDriver, WaybillTypes
  <2> QED
    BY <1>1, <2>1, RedrawKeepsWaybill
<1>4. CASE DropChoice
  <2>1. /\ Redraw(chosen', routed', roads) /\ mapReady' \in BOOLEAN /\ strayed' \in BOOLEAN
        /\ chosen' \in Crew \cup {Nobody} /\ routed' \subseteq Crew
    BY <1>1, <1>4 DEF DropChoice, WaybillTypes
  <2> QED
    BY <1>1, <2>1, RedrawKeepsWaybill
<1>5. CASE PlanLoads
  <2>1. /\ Redraw(chosen', routed', roads) /\ mapReady' \in BOOLEAN /\ strayed' \in BOOLEAN
        /\ chosen' \in Crew \cup {Nobody} /\ routed' \subseteq Crew
    BY <1>1, <1>5 DEF PlanLoads, WaybillTypes
  <2> QED
    BY <1>1, <2>1, RedrawKeepsWaybill
<1>6. CASE NewDrivers
  <2>1. PICK known : Redraw(chosen, routed, known)
    BY <1>6 DEF NewDrivers
  <2>2. /\ Redraw(chosen', routed', known) /\ mapReady' \in BOOLEAN /\ strayed' \in BOOLEAN
        /\ chosen' \in Crew \cup {Nobody} /\ routed' \subseteq Crew
    BY <1>1, <1>6, <2>1 DEF NewDrivers, WaybillTypes
  <2> QED
    BY <1>1, <2>2, RedrawKeepsWaybill
<1>7. ASSUME NEW w \in drawings, NextBatch(w) \/ DrawingEnds(w) \/ \E l \in Legs : LegArrives(w, l)
      PROVE  WaybillInv'
  BY <1>7, BatchKeepsWaybill, EndKeepsWaybill, LegKeepsWaybill
<1>8. CASE RVNext \/ UNCHANGED wmVars
  <2>1. UNCHANGED waybillVars
    BY <1>8 DEF RVNext, ViewRoute, CloseView, ViewMapLoads, ViewTimer, RoadArrives, wmVars, waybillVars
  <2> QED
    BY <2>1 DEF waybillVars, WaybillInv, WaybillTypes, OneDrawing, DrawnOfChosen, WholeAtRest, OnMap
<1> QED
  BY <1>2, <1>3, <1>4, <1>5, <1>6, <1>7, <1>8 DEF WMNext

\* The line in the view dialog: a request under way is for the present route, the
\* spinner has one to wait for, and a dialog without a map has a timer or had it.
RoadInv ==
    /\ road \in RoadView
    /\ \A a \in road.asks : a.live => a.geom = road.geom
    /\ road.spinner => road.map /\ \E a \in road.asks : a.live
    /\ road.timer => road.open /\ road.geom > 0
    /\ road.open /\ ~road.map => road.timer \/ road.tried
    /\ road.open /\ road.map /\ ~road.timer /\ (\A a \in road.asks : ~a.live) =>
         road.line = road.geom \/ road.tried

LEMMA InitRoad == RVInit => RoadInv
BY WaybillMapAssumption DEF RVInit, RoadInv, RoadView

\* What outdating leaves of the requests.
LEMMA OutdatedAsks ==
    ASSUME NEW S \in SUBSET [geom: 1..MaxViews, live: BOOLEAN]
    PROVE  Outdate(S) \subseteq [geom: 1..MaxViews, live: BOOLEAN] /\ \A a \in Outdate(S) : ~a.live
<1> SUFFICES ASSUME NEW o \in Outdate(S)
             PROVE  o \in [geom: 1..MaxViews, live: BOOLEAN] /\ ~o.live
  OBVIOUS
<1>1. PICK a \in S : o = [a EXCEPT !.live = FALSE]
  BY DEF Outdate
<1> QED
  BY <1>1

\* A request is for the route the dialog shows, and without a map the timer runs.
LEMMA LoadRouteKeepsRoad ==
    ASSUME NEW r \in RoadView, r.open, r.geom > 0, ~r.map => ~r.spinner,
           \A a \in r.asks : a.live => a.geom = r.geom, road' = LoadRoute(r)
    PROVE  RoadInv'
<1>1. CASE r.map
  <2> DEFINE n == [geom |-> r.geom, live |-> TRUE]
  <2>1. n \in [geom: 1..MaxViews, live: BOOLEAN] /\ n.live /\ n.geom = r.geom
    BY WaybillMapAssumption DEF RoadView
  <2> DEFINE S == r.asks \cup {n}
             ask == [geom: 1..MaxViews, live: BOOLEAN]
  <2>2. road' = [r EXCEPT !.spinner = TRUE, !.timer = FALSE, !.asks = S]
    BY <1>1 DEF LoadRoute
  <2> HIDE DEF n
  <2>5. S \in SUBSET ask
    BY <2>1 DEF RoadView
  <2> HIDE DEF S, ask
  <2>3. road' \in RoadView
    BY <2>2, <2>5 DEF RoadView, ask
  <2>4. /\ road'.spinner /\ ~road'.timer /\ road'.asks = r.asks \cup {n} /\ road'.geom = r.geom
        /\ road'.map
    BY <1>1, <2>2 DEF RoadView, S
  <2> QED
    BY <2>1, <2>3, <2>4 DEF RoadInv
<1>2. CASE ~r.map
  <2>1. road' = [r EXCEPT !.timer = TRUE]
    BY <1>2 DEF LoadRoute
  <2>2. road' \in RoadView
    BY <2>1 DEF RoadView
  <2>3. /\ road'.timer /\ road'.asks = r.asks /\ road'.geom = r.geom /\ road'.map = r.map
        /\ road'.spinner = r.spinner /\ road'.open
    BY <2>1 DEF RoadView
  <2> QED
    BY <1>2, <2>2, <2>3 DEF RoadInv
<1> QED
  BY <1>1, <1>2

\* Whatever the dialog, its map, its timer and the route server do.
LEMMA NextRoad == RoadInv /\ [WMNext \/ RVNext]_wmVars => RoadInv'
<1> SUFFICES ASSUME RoadInv, [WMNext \/ RVNext]_wmVars PROVE RoadInv'
  OBVIOUS
<1> DEFINE u == Unmounted(road)
<1>1. road \in RoadView /\ Outdate(road.asks) \subseteq [geom: 1..MaxViews, live: BOOLEAN]
      /\ \A a \in Outdate(road.asks) : ~a.live
  BY OutdatedAsks DEF RoadInv, RoadView
<1>2. u = [road EXCEPT !.asks = Outdate(@), !.timer = FALSE, !.tried = FALSE]
  BY DEF Unmounted
<1>3. u \in RoadView /\ u.asks = Outdate(road.asks) /\ ~u.timer /\ ~u.tried
      /\ u.open = road.open /\ u.map = road.map /\ u.geom = road.geom /\ u.spinner = road.spinner
  BY <1>1, <1>2 DEF RoadView
<1> HIDE DEF u
<1>4. CASE ViewRoute
  <2> DEFINE r == [u EXCEPT !.open = TRUE, !.geom = @ + 1]
  <2>1. road.geom < MaxViews /\ road' = LoadRoute(r)
    BY <1>4 DEF ViewRoute, u
  <2>3. u.geom \in 0..MaxViews /\ u.geom + 1 \in 0..MaxViews /\ u.geom + 1 > 0
    BY <1>3, <2>1, WaybillMapAssumption DEF RoadView
  <2> DEFINE g == u.geom + 1
  <2>4. r = [u EXCEPT !.open = TRUE, !.geom = g] /\ g \in 0..MaxViews /\ g > 0
    BY <1>3, <2>3 DEF RoadView
  <2> HIDE DEF r, g
  <2>2. r \in RoadView /\ r.open /\ r.geom > 0 /\ r.asks = u.asks /\ r.map = u.map /\ r.spinner = u.spinner
    BY <1>3, <2>4 DEF RoadView
  <2> QED
    BY <1>1, <1>3, <2>1, <2>2, LoadRouteKeepsRoad DEF RoadInv
<1>5. CASE CloseView
  <2>1. road' = [u EXCEPT !.open = FALSE, !.map = FALSE, !.line = 0, !.spinner = FALSE]
    BY <1>5 DEF CloseView, u
  <2>3. 0 \in 0..MaxViews
    BY WaybillMapAssumption
  <2>2. road' \in RoadView /\ ~road'.open /\ road'.asks = u.asks /\ ~road'.timer /\ ~road'.spinner
    BY <1>3, <2>1, <2>3 DEF RoadView
  <2> QED
    BY <1>1, <1>3, <2>2 DEF RoadInv
<1>6. CASE ViewMapLoads
  <2>1. road' = [road EXCEPT !.map = TRUE] /\ road.open /\ ~road.map
    BY <1>6 DEF ViewMapLoads
  <2>2. /\ road' \in RoadView /\ road'.asks = road.asks /\ road'.geom = road.geom
        /\ road'.timer = road.timer /\ road'.tried = road.tried /\ road'.spinner = road.spinner
    BY <1>1, <2>1 DEF RoadView
  <2> QED
    BY <2>1, <2>2 DEF RoadInv
<1>7. CASE ViewTimer /\ road.map
  <2>1. road.timer /\ road' = LoadRoute(road)
    BY <1>7 DEF ViewTimer
  <2>2. road.open
    BY <2>1 DEF RoadInv
  <2> QED
    BY <1>1, <1>7, <2>1, <2>2, LoadRouteKeepsRoad DEF RoadInv
<1>8. CASE ViewTimer /\ ~road.map
  <2>1. road' = [road EXCEPT !.timer = FALSE, !.tried = TRUE]
    BY <1>8 DEF ViewTimer
  <2>2. /\ road' \in RoadView /\ road'.asks = road.asks /\ road'.geom = road.geom
        /\ ~road'.timer /\ road'.tried /\ road'.spinner = road.spinner /\ road'.map = road.map
    BY <1>1, <2>1 DEF RoadView
  <2> QED
    BY <2>2 DEF RoadInv
<1>9. ASSUME NEW a \in road.asks, RoadArrives(a), a.live PROVE RoadInv'
  <2>1. road' = [road EXCEPT !.asks = @ \ {a}, !.line = a.geom, !.spinner = FALSE]
    BY <1>9 DEF RoadArrives
  <2>2. a.geom = road.geom
    BY <1>9 DEF RoadInv
  <2>3. /\ road' \in RoadView /\ road'.asks = road.asks \ {a} /\ road'.geom = road.geom
        /\ road'.line = road.geom /\ ~road'.spinner /\ road'.timer = road.timer
        /\ road'.open = road.open /\ road'.map = road.map /\ road'.tried = road.tried
    BY <1>1, <2>1, <2>2 DEF RoadView
  <2> QED
    BY <2>3 DEF RoadInv
<1>10. ASSUME NEW a \in road.asks, RoadArrives(a), ~a.live PROVE RoadInv'
  <2>1. road' = [road EXCEPT !.asks = @ \ {a}]
    BY <1>10 DEF RoadArrives
  <2>2. /\ road' \in RoadView /\ road'.asks = road.asks \ {a} /\ road'.geom = road.geom
        /\ road'.line = road.line /\ road'.spinner = road.spinner /\ road'.timer = road.timer
        /\ road'.open = road.open /\ road'.map = road.map /\ road'.tried = road.tried
    BY <1>1, <2>1 DEF RoadView
  <2> QED
    BY <1>10, <2>2 DEF RoadInv
<1>11. CASE WMNext \/ UNCHANGED wmVars
  <2>1. road' = road
    BY <1>11 DEF WMNext, MapLoads, DropChoice, PlanLoads, NewDrivers, ChooseDriver, NextBatch,
       DrawingEnds, LegArrives, wmVars
  <2> QED
    BY <2>1 DEF RoadInv
<1> QED
  BY <1>4, <1>5, <1>6, <1>7, <1>8, <1>9, <1>10, <1>11 DEF RVNext

\* MapsShowTheChosen for any crew, any number of legs and size of a batch, any
\* number of drawings under way and answers in any order.
THEOREM MapsFollowTheChoice == WMSpec => []MapsShowTheChosen
<1>1. WaybillInv /\ RoadInv => MapsShowTheChosen
  <2> SUFFICES ASSUME WaybillInv, RoadInv PROVE MapsShowTheChosen
    OBVIOUS
  <2>1. \A l \in layers : l.driver = chosen /\ chosen \in routed
    BY DEF WaybillInv, DrawnOfChosen
  <2>2. ASSUME \A w \in drawings : ~w.live
        PROVE  /\ {l.leg : l \in layers} \in {{}, 0..NumLegs}
               /\ layers # {} /\ ~strayed => view = chosen
    <3>1. CASE layers = {}
      BY <3>1
    <3>2. CASE layers # {}
      <4>1. (\A k \in 0..NumLegs : OnMap(k)) /\ (strayed \/ view = chosen)
        BY <2>2, <3>2 DEF WaybillInv, WholeAtRest
      <4>2. \A l \in layers : l.leg \in 0..NumLegs
        BY DEF WaybillInv, WaybillTypes
      <4>3. \A k \in 0..NumLegs : \E l \in layers : l.leg = k
        BY <4>1 DEF OnMap
      <4>4. {l.leg : l \in layers} = 0..NumLegs
        BY <4>2, <4>3
      <4> QED
        BY <4>1, <4>4
    <3> QED
      BY <3>1, <3>2
  <2> QED
    BY <2>1, <2>2 DEF RoadInv, MapsShowTheChosen
<1> QED
  BY <1>1, InitWaybill, NextWaybill, InitRoad, NextRoad, PTL DEF WMSpec

=============================================================================
