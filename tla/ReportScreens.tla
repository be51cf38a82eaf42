----------------------------- MODULE ReportScreens -----------------------------
(***************************************************************************)
(* The dashboard and the analytics page (components/Dashboard.tsx,         *)
(* components/Analytics.tsx, components/DateRangePicker.tsx) and the       *)
(* numbers under them (services/analytics.ts, the two reports of           *)
(* services/dispatch.ts).                                                  *)
(*                                                                         *)
(* The calls of one page load ask for the same orders and share one        *)
(* request through a cache kept outside the pages; an answer changes what  *)
(* is shown whatever has been chosen since.  Each call reads the clock     *)
(* itself, so the cached request may run out between two calls of a load.  *)
(*                                                                         *)
(* Chosen dates begin at midnight in Atyrau (UTC+5) and are sent as the    *)
(* UTC date of that moment: the reports ask for the day before as well.    *)
(***************************************************************************)
EXTENDS Integers, Sequences, FiniteSets

CONSTANTS
    NumDays,     \* days that are chosen from, the last is today
    Hours,       \* hours with orders
    MaxPicks,    \* bound: what the dispatcher does
    MaxEdits,    \* bound: orders created or cancelled
    NumRequests, \* bound: order requests at a time
    Missing      \* nothing

ASSUME ReportScreensAssumption ==
    /\ NumDays \in Nat \ {0} /\ Hours \subseteq 0..23
    /\ MaxPicks \in Nat /\ MaxEdits \in Nat /\ NumRequests \in Nat \ {0}
    /\ Missing \notin Int

VARIABLES
    due,       \* hours of the orders of each day
    edits,     \* up to MaxEdits
    cache,     \* ordersCache: the requests in it that are fresh, one of any dates
    requests,  \* order requests
    screen,    \* the page shown
    choice,    \* Analytics: reportPeriod, anchorDate, dateRange
    loads,     \* page loads and exports that wait, in the order they began
    panels,    \* what the last load set
    failed,    \* error
    plans,     \* workload reports asked for, by date, in that order
    workload,  \* driverWorkloadRows: the date they are of
    date,      \* Dashboard: distributionDate
    days,      \* distributions asked for, in that order
    day,       \* distributionData
    hour,      \* selectedHour
    spinning,  \* distributionLoading
    late,      \* an answer overtook an older one's
    picks      \* up to MaxPicks

dataVars == <<due, edits>>
cacheVars == <<cache, requests>>
reportVars == <<choice, loads, panels, failed>>
dayVars == <<date, days, day, hour, spinning>>
rsVars == <<dataVars, cacheVars, screen, reportVars, plans, workload, dayVars, late, picks>>

Days == 1..NumDays
Today == NumDays
\* Days the reports ask for, see UtcDates and Before.
AllDays == (0 - NumDays - 1)..NumDays
\* From one day to another; typed dates may be the wrong way round.
Ranges == [from: Days, to: Days]
One(d) == [from |-> d, to |-> d]
RequestIds == 1..NumRequests
\* getMetrics, getTimeSeries, getRegionDistribution, getPeakHours, getComparison.
Parts == {"metrics", "series", "regions", "hours", "comparison"}
NotAsked == [of |-> Missing, state |-> "none", orders |-> {}]
Pick == picks < MaxPicks /\ picks' = picks + 1
Past(s, i) == SubSeq(s, 1, i - 1) \o SubSeq(s, i + 1, Len(s))

-----------------------------------------------------------------------------
(* allOrders: one request for the same dates, for five seconds               *)

\* toISOString and normalizedDate: the dates start at 00:00 and end at 23:59:59.999
\* in Atyrau, which in UTC is the day before and the same day.
UtcDates(range) == [from |-> range.from - 1, to |-> range.to]

\* getComparison: as many days before those.
Before(k) ==
    LET n == IF k.to < k.from THEN 1 ELSE k.to - k.from + 1
    IN  [from |-> k.from - n, to |-> k.from - 1]

\* The orders of these dates.
DueOn(k) == {o \in AllDays \X Hours : k.from <= o[1] /\ o[1] <= k.to /\ o[2] \in due[o[1]]}

\* Requests nobody can refer to any more are forgotten.
Kept(reqs, c, ls) ==
    [r \in RequestIds |->
       IF \/ reqs[r].state = "pending" \/ r \in c
          \/ \E i \in DOMAIN ls : ls[i].before = r \/ \E p \in Parts : ls[i].rows[p] = r
       THEN reqs[r] ELSE NotAsked]

Spare == {r \in RequestIds : requests[r] = NotAsked}
First(S) == CHOOSE r \in S : \A s \in S : r <= s

\* ordersCache.get(key), if it has not expired.
Hit(k) == {r \in cache : requests[r].of = k}

\* The request a call gets: the cached one, answered or under way, or its own.
Joined(k) == First(IF Hit(k) # {} THEN Hit(k) ELSE Spare)

\* Mutant: the comparison's call does not find the request of the others.
JoinApart(k) ==
    [p \in Parts |-> IF p = "comparison" /\ ~(Spare \subseteq {Joined(k)})
                     THEN First(Spare \ {Joined(k)}) ELSE Joined(k)]

\* The calls of one load: the first of them asks, unless the cache has the request,
\* and the others join it.
Join(k) == [p \in Parts |-> Joined(k)]

\* Between two of them the cached request runs out: the later ones ask anew.
Earlier == {{"metrics"}, {"metrics", "series"}, {"metrics", "series", "regions"},
            Parts \ {"comparison"}}
JoinTorn(k, early) == [p \in Parts |-> IF p \in early THEN First(Hit(k)) ELSE First(Spare)]

\* What is not in the cache is asked for; the last request made is the cached one.
Asking(k, ids) ==
    /\ cache' = (cache \ Hit(k)) \cup {ids["comparison"]}
    /\ requests' = [r \in RequestIds |->
         IF r \notin cache /\ \E p \in Parts : ids[p] = r
         THEN [of |-> k, state |-> "pending", orders |-> {}] ELSE requests[r]]

ServeOrders ==
    /\ \E r \in RequestIds :
         /\ requests[r].state = "pending"
         /\ requests' = Kept([requests EXCEPT ![r].state = "done", ![r].orders = DueOn(requests[r].of)],
                             cache, loads)
    /\ UNCHANGED <<dataVars, cache, screen, reportVars, plans, workload, dayVars, late, picks>>

\* ordersCache.delete(key): the entry of the dates, be it a newer one by now.
Forget(k) == cache \ Hit(k)

FailRequest ==
    /\ \E r \in RequestIds :
         /\ requests[r].state = "pending"
         /\ cache' = Forget(requests[r].of)
         /\ requests' = Kept([requests EXCEPT ![r].state = "failed"], cache', loads)
    /\ UNCHANGED <<dataVars, screen, reportVars, plans, workload, dayVars, late, picks>>

\* Five seconds after the request was made.
Expire ==
    /\ \E r \in cache : cache' = cache \ {r}
    /\ requests' = Kept(requests, cache', loads)
    /\ UNCHANGED <<dataVars, screen, reportVars, plans, workload, dayVars, late, picks>>

-----------------------------------------------------------------------------
(* The page loads                                                            *)

NoPanels == [of |-> Missing, rows |-> [p \in Parts |-> {}], before |-> {}, torn |-> FALSE]

\* torn: the cached request ran out between its calls.
Load(k, kind, ids, torn) ==
    [of |-> k, kind |-> kind, rows |-> ids, before |-> Missing, torn |-> torn]

Begin(k, kind, others, ids, torn) ==
    Asking(k, ids) /\ loads' = Append(others, Load(k, kind, ids, torn))

\* loadAnalyticsData, loadDashboardData and, of one call, the export.
StartLoad(range, kind, others) ==
    LET k == UtcDates(range) IN
    \/ Hit(k) \cup Spare # {} /\ Begin(k, kind, others, Join(k), FALSE)
    \/ /\ kind # "export" /\ Hit(k) # {} /\ Spare # {}
       /\ \E early \in Earlier : Begin(k, kind, others, JoinTorn(k, early), TRUE)

\* What a page that goes away leaves behind.
Orphaned == [i \in DOMAIN loads |->
               IF loads[i].kind = "export" THEN loads[i] ELSE [loads[i] EXCEPT !.kind = "gone"]]

\* getComparison, once it has the orders, asks for those of the dates before.
Compare ==
    /\ \E i \in DOMAIN loads :
         LET l == loads[i]
             k == Before(l.of)
         IN /\ l.kind # "export" /\ l.before = Missing
            /\ requests[l.rows["comparison"]].state = "done"
            /\ Hit(k) \cup Spare # {}
            /\ Asking(k, Join(k))
            /\ loads' = [loads EXCEPT ![i].before = Joined(k)]
    /\ UNCHANGED <<dataVars, screen, choice, panels, failed, plans, workload, dayVars, late, picks>>

\* Loads of the page shown; those of a page that has gone set nothing.
Live == {i \in DOMAIN loads : loads[i].kind = screen}

Over(i) == /\ loads' = Past(loads, i)
           /\ requests' = Kept(requests, cache, loads')
           /\ late' = (late \/ (i \in Live /\ \E j \in Live : j < i))

\* All six calls have answered.
LoadEnds ==
    \E i \in DOMAIN loads :
        LET l == loads[i] IN
        /\ \A p \in Parts : requests[l.rows[p]].state = "done"
        /\ l.kind # "export" => l.before # Missing /\ requests[l.before].state = "done"
        /\ Over(i)
        /\ panels' = IF i \in Live
                     THEN [of |-> l.of, rows |-> [p \in Parts |-> requests[l.rows[p]].orders],
                           before |-> requests[l.before].orders, torn |-> l.torn]
                     ELSE panels
        /\ UNCHANGED <<dataVars, cache, screen, choice, failed, plans, workload, dayVars, picks>>

\* One of them failed, or the list of drivers did: the dashboard's charts are
\* emptied, the analytics page keeps what it shows under an error.
LoadFails ==
    \E i \in DOMAIN loads :
        /\ Over(i)
        /\ failed' = (failed \/ i \in Live)
        /\ panels' = IF i \in Live /\ screen = "dashboard" THEN NoPanels ELSE panels
        /\ UNCHANGED <<dataVars, cache, screen, choice, plans, workload, dayVars, picks>>

\* The page is a spinner while it loads without anything to show.
Controls == screen = "analytics" /\ (panels.of # Missing \/ Live = {})

\* handleExport: the file is made of the same cached orders.
Export ==
    /\ Pick /\ Controls
    /\ StartLoad(choice.range, "export", loads)
    /\ UNCHANGED <<dataVars, screen, choice, panels, failed, plans, workload, dayVars, late>>

-----------------------------------------------------------------------------
(* The analytics page                                                        *)

\* buildDriverReportParams: of a range, only the last day.
WorkloadDate(c) == IF c.kind = "range" THEN c.range.to ELSE c.anchor

\* The day a page opens with.
ThisDay == [kind |-> "fixed", anchor |-> Today, range |-> One(Today)]

RSInit ==
    /\ due = [d \in AllDays |-> Hours] /\ edits = 0
    /\ cache = {} /\ requests = [r \in RequestIds |-> NotAsked]
    /\ screen = "none" /\ choice = ThisDay
    /\ loads = <<>> /\ panels = NoPanels /\ failed = FALSE
    /\ plans = <<>> /\ workload = Missing
    /\ date = Today /\ days = <<>> /\ day = Missing /\ hour = Missing /\ spinning = TRUE
    /\ late = FALSE /\ picks = 0

\* An order is created or cancelled.
Edit ==
    /\ edits < MaxEdits /\ edits' = edits + 1
    /\ \E d \in AllDays, h \in Hours :
         due' = [due EXCEPT ![d] = IF h \in @ THEN @ \ {h} ELSE @ \cup {h}]
    /\ UNCHANGED <<cacheVars, screen, reportVars, plans, workload, dayVars, late, picks>>

\* A page appears with nothing but its first requests (and the state of the other
\* is gone); what the other had asked for still arrives, for nobody.
OpenAnalytics ==
    /\ Pick /\ screen # "analytics" /\ screen' = "analytics"
    /\ choice' = ThisDay
    /\ StartLoad(One(Today), "analytics", Orphaned)
    /\ panels' = NoPanels /\ failed' = FALSE
    /\ plans' = <<Today>> /\ workload' = Missing
    /\ date' = Today /\ days' = <<>> /\ day' = Missing /\ hour' = Missing /\ spinning' = TRUE
    /\ late' = FALSE /\ UNCHANGED dataVars

\* The dashboard's loads are of the last days, here of all that are chosen from.
OpenDashboard ==
    /\ Pick /\ screen # "dashboard" /\ screen' = "dashboard"
    /\ StartLoad([from |-> 1, to |-> Today], "dashboard", Orphaned)
    /\ panels' = NoPanels /\ failed' = FALSE
    /\ plans' = <<>> /\ workload' = Missing
    /\ date' = Today /\ days' = <<[of |-> Today, answer |-> Missing]>> /\ day' = Missing
    /\ hour' = Missing /\ spinning' = TRUE /\ late' = FALSE
    /\ choice' = ThisDay
    /\ UNCHANGED dataVars

\* Mutant: the effect depends on the period's name, not on its dates.
ReloadIfRenamed(c) ==
    IF c.kind # choice.kind THEN StartLoad(c.range, "analytics", loads) /\ failed' = FALSE
    ELSE UNCHANGED <<cacheVars, loads, failed>>

\* The two effects: the orders when the dates changed, the workload always.
ReloadReport(c) ==
    IF c.range # choice.range THEN StartLoad(c.range, "analytics", loads) /\ failed' = FALSE
    ELSE UNCHANGED <<cacheVars, loads, failed>>

Choose(c) ==
    /\ c # choice /\ choice' = c
    /\ ReloadReport(c)
    /\ plans' = Append(plans, WorkloadDate(c))
    /\ UNCHANGED <<dataVars, screen, panels, workload, dayVars, late>>

\* applyReportPeriod: day and week are dates computed from the anchor (one stands
\* for both); a range starts as the dates shown.
ApplyPeriod ==
    /\ Pick /\ Controls
    /\ \/ Choose([choice EXCEPT !.kind = "range"])
       \/ Choose([choice EXCEPT !.kind = "fixed", !.range = One(choice.anchor)])

\* handleAnchorDateChange, where the field is shown.
PickAnchor ==
    /\ Pick /\ Controls /\ choice.kind = "fixed"
    /\ \E d \in Days : Choose([choice EXCEPT !.anchor = d, !.range = One(d)])

\* DateRangePicker: a preset or a typed date, each change at once; a field that is
\* emptied is left out.
PickRange ==
    /\ Pick /\ Controls /\ choice.kind = "range"
    /\ \E range \in Ranges : Choose([choice EXCEPT !.range = range])

\* The region: the same orders again, analyticsApi takes no region.
PickRegion ==
    /\ Pick /\ Controls
    /\ StartLoad(choice.range, "analytics", loads) /\ failed' = FALSE
    /\ UNCHANGED <<dataVars, screen, choice, panels, plans, workload, dayVars, late>>

\* getDriverWorkloadReport answers, or fails and empties the table.
WorkloadArrives ==
    /\ \E i \in DOMAIN plans :
         /\ plans' = Past(plans, i) /\ late' = (late \/ i > 1)
         /\ workload' \in {plans[i], Missing}
    /\ UNCHANGED <<dataVars, cacheVars, screen, reportVars, dayVars, picks>>

-----------------------------------------------------------------------------
(* The dashboard's distribution of a day                                     *)

\* The decimal digits of an hour, padded to two or not.
Padded(h) == <<h \div 10, h % 10>>
Plain(h) == IF h < 10 THEN <<h>> ELSE Padded(h)

\* getDashboardDistribution: totals by hour, and the orders under padded hours.
Distribution(k) ==
    [of |-> k, total |-> [h \in Hours |-> IF h \in due[k] THEN 1 ELSE 0],
     byHour |-> [key \in {Padded(h) : h \in due[k]} |-> 1]]

AskDay(k) == days' = Append(days, [of |-> k, answer |-> Missing]) /\ spinning' = TRUE

\* The effect on the date; the chosen hour is cleared, the data is not.
PickDate ==
    /\ Pick /\ screen = "dashboard"
    /\ \E d \in Days \ {date} : date' = d /\ AskDay(d)
    /\ hour' = Missing
    /\ UNCHANGED <<dataVars, cacheVars, screen, reportVars, plans, workload, day, late>>

ServeDay ==
    /\ \E i \in DOMAIN days :
         days[i].answer = Missing /\ days' = [days EXCEPT ![i].answer = Distribution(days[i].of)]
    /\ UNCHANGED <<dataVars, cacheVars, screen, reportVars, plans, workload, date, day, hour, spinning, late, picks>>

DayArrives ==
    /\ \E i \in DOMAIN days :
         /\ days' = Past(days, i) /\ late' = (late \/ i > 1) /\ spinning' = FALSE
         /\ day' \in {days[i].answer, Missing}
    /\ UNCHANGED <<dataVars, cacheVars, screen, reportVars, plans, workload, date, hour, picks>>

\* The panels of the day: a spinner, a line of text, or cards and charts.
DayDrawn ==
    /\ screen = "dashboard" /\ ~spinning
    /\ day # Missing /\ \E h \in Hours : day.total[h] > 0

\* hourlyChartData.
Bars == {h \in Hours : h >= 6 \/ day.total[h] > 0}

\* handleHourChartClick; the table has a button that does the same.
ClickHour ==
    /\ Pick /\ DayDrawn
    /\ \E h \in Bars : hour' = IF hour = h THEN Missing ELSE h
    /\ UNCHANGED <<dataVars, cacheVars, screen, reportVars, plans, workload, date, days, day, spinning, late>>

\* selectedHourOrders.
HourOrders == IF Plain(hour) \in DOMAIN day.byHour THEN day.byHour[Plain(hour)] ELSE 0

\* The table under the chart: its rows.
HourTable == IF DayDrawn /\ hour # Missing THEN HourOrders ELSE Missing

-----------------------------------------------------------------------------
(* What is drawn of the panels when no spinner covers them                   *)

\* baseMetrics: of its numbers the orders alone.
Counted(orders) == Cardinality(orders)

\* The data of a chart: as many orders as its bars add up to.
ChartTotal(part) == Cardinality(panels.rows[part])

\* The cards of the analytics page: the orders, and under them how many more they
\* are than in the period before.
Cards == [orders |-> Counted(panels.rows["metrics"]),
          more |-> Counted(panels.rows["comparison"]) - Counted(panels.before)]

\* Its table of the same numbers.
SummaryTable == [orders |-> Counted(panels.rows["metrics"])]

\* Its charts, by day, by region and by hour: the orders in them.
AnalyticsCharts == {ChartTotal("series"), ChartTotal("regions"), ChartTotal("hours")}

\* Those of the dashboard, by day, by status and by region.
DashboardCharts == {ChartTotal("series"), ChartTotal("metrics"), ChartTotal("regions")}

\* The workload table names its date, unless it is of a range.
WorkloadTable == [title |-> IF choice.kind = "range" THEN Missing ELSE choice.anchor, rows |-> workload]

RSNext ==
    \/ ServeOrders \/ FailRequest \/ Expire \/ Compare \/ LoadEnds \/ LoadFails \/ Export
    \/ Edit \/ OpenAnalytics \/ OpenDashboard \/ ApplyPeriod \/ PickAnchor \/ PickRange
    \/ PickRegion \/ WorkloadArrives \/ PickDate \/ ServeDay \/ DayArrives \/ ClickHour

RSSpec == RSInit /\ [][RSNext]_rsVars

-----------------------------------------------------------------------------
ReportScreensTypeOK ==
    /\ due \in [AllDays -> SUBSET Hours] /\ cache \subseteq RequestIds
    /\ \A r, q \in cache : requests[r].of = requests[q].of => r = q
    /\ screen \in {"none", "analytics", "dashboard"}
    /\ choice.kind \in {"fixed", "range"} /\ choice.anchor \in Days /\ choice.range \in Ranges
    /\ workload \in Days \cup {Missing} /\ hour \in Hours \cup {Missing}

\* The numbers and the charts of a page are of the same orders, although each is
\* computed by a call of its own and orders change meanwhile; unless the cached
\* request ran out between two of the calls.
PanelsAgree ==
    panels.of # Missing /\ ~panels.torn =>
      /\ screen = "analytics" =>
           /\ AnalyticsCharts = {Cards.orders} /\ SummaryTable.orders = Cards.orders
           /\ Cards.more = Cards.orders - Counted(panels.before)
      /\ screen = "dashboard" => Cardinality(DashboardCharts) = 1

\* At rest, unless an answer overtook another, each report is of what is chosen:
\* the panels of the dates and, by their conversion to UTC, of the day before them
\* (or an error is shown), the workload of the day in its title, the distribution
\* of its date.
SettledReportIsAsked ==
    ~late =>
      /\ screen = "analytics" /\ Live = {} =>
           failed \/ panels.of = [from |-> choice.range.from - 1, to |-> choice.range.to]
      /\ screen = "analytics" /\ plans = <<>> =>
           /\ workload \in {WorkloadDate(choice), Missing}
           /\ WorkloadTable.title # Missing => WorkloadTable.rows \in {WorkloadTable.title, Missing}
      /\ screen = "dashboard" /\ days = <<>> => ~spinning /\ (day = Missing \/ day.of = date)

\* The table under the chart lists the orders its chosen bar counts.
ChosenHourShowsItsOrders == HourTable # Missing => HourTable = day.total[hour]
=============================================================================
