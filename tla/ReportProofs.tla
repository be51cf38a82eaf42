------------------------------ MODULE ReportProofs ------------------------------
(***************************************************************************)
(* PanelsAgree and SettledReportIsAsked for any number of days, hours,     *)
(* requests and page loads.  The first rests on the shared request: the    *)
(* calls of one load name the same one, whatever the cache does meanwhile, *)
(* unless it ran out between them, which the load is marked with.          *)
(* The second rests on the order of the answers: as long as none overtakes *)
(* an older one, the last load under way, the last workload report and the *)
(* last distribution asked for are of what is chosen.                      *)
(***************************************************************************)
EXTENDS ReportScreens, SequenceTheorems, FiniteSetTheorems, WellFoundedInduction, TLAPS

PageLoad == [of: [from: Int, to: Int], kind: {"analytics", "dashboard", "export", "gone"},
             rows: [Parts -> RequestIds], before: RequestIds \cup {Missing}, torn: BOOLEAN]
Choices == [kind: {"fixed", "range"}, anchor: Days, range: Ranges]

\* An answer to the request for day k, whatever orders there were.
DayAnswer(k) ==
    {[of |-> k, total |-> [h \in Hours |-> IF h \in H THEN 1 ELSE 0],
      byHour |-> [key \in {Padded(h) : h \in H} |-> 1]] : H \in SUBSET Hours}
DayRequest == UNION {[of: {k}, answer: DayAnswer(k) \cup {Missing}] : k \in Days}

ReportTypes ==
    /\ due \in [AllDays -> SUBSET Hours] /\ cache \subseteq RequestIds
    /\ loads \in Seq(PageLoad) /\ plans \in Seq(Days) /\ days \in Seq(DayRequest)
    /\ choice \in Choices
    /\ screen \in {"none", "analytics", "dashboard"} /\ late \in BOOLEAN /\ failed \in BOOLEAN

\* The calls of a load have one request between them, unless it was torn.
OneRequest(l) == l.torn \/ \A p, q \in Parts : l.rows[p] = l.rows[q]
RowsAgree == OneRequest(panels) /\ \A i \in DOMAIN loads : OneRequest(loads[i])

\* The load that no later one of the page follows.
LastLive(i) == i \in Live /\ \A j \in Live : j <= i

PanelsFollow ==
    screen = "analytics" /\ ~late =>
      /\ Live = {} => failed \/ panels.of = UtcDates(choice.range)
      /\ \A i \in Live : LastLive(i) => loads[i].of = UtcDates(choice.range)

WorkloadFollows ==
    screen = "analytics" /\ ~late =>
      /\ plans = <<>> => workload \in {WorkloadDate(choice), Missing}
      /\ plans # <<>> => plans[Len(plans)] = WorkloadDate(choice)

DayFollows ==
    screen = "dashboard" /\ ~late =>
      /\ days = <<>> => ~spinning /\ (day = Missing \/ day.of = date)
      /\ days # <<>> => days[Len(days)].of = date

ReportInv == ReportTypes /\ RowsAgree /\ PanelsFollow /\ WorkloadFollows /\ DayFollows

-----------------------------------------------------------------------------
(* Lemmas                                                                    *)

Below == {ss \in Nat \X Nat : ss[1] < ss[2]}

\* First(S) is one of S.
LEMMA FirstIsOne == ASSUME NEW S \in SUBSET RequestIds, S # {} PROVE First(S) \in S
<1>1. S \subseteq Nat
  BY DEF RequestIds
<1>2. IsWellFoundedOn(Below, Nat)
  BY NatLessThanWellFounded DEF OpToRel, Below
<1>3. PICK r \in S : \A s \in S : <<s, r>> \notin Below
  BY <1>1, <1>2, WFMin
<1>4. \A s \in S : r <= s
  <2> SUFFICES ASSUME NEW s \in S, s < r PROVE FALSE
    BY <1>1
  <2>1. <<s, r>> \in Below
    BY <1>1 DEF Below
  <2> QED
    BY <1>3, <2>1
<1> QED
  BY <1>3, <1>4 DEF First

\* An answered request leaves, the others close up.
LEMMA PastCloses ==
    ASSUME NEW S, NEW s \in Seq(S), NEW i \in DOMAIN s
    PROVE  /\ i \in 1..Len(s) /\ Len(s) \in Nat
           /\ Past(s, i) \in Seq(S) /\ Len(Past(s, i)) = Len(s) - 1
           /\ \A j \in 1..(i - 1) : Past(s, i)[j] = s[j]
           /\ \A j \in i..(Len(s) - 1) : Past(s, i)[j] = s[j + 1]
<1> DEFINE a == SubSeq(s, 1, i - 1)
           b == SubSeq(s, i + 1, Len(s))
<1>0. i \in 1..Len(s) /\ Len(s) \in Nat
  OBVIOUS
<1>1. a \in Seq(S) /\ Len(a) = i - 1 /\ \A j \in 1..(i - 1) : a[j] = s[j]
  BY <1>0
<1>2. b \in Seq(S) /\ Len(b) = Len(s) - i /\ \A j \in 1..(Len(s) - i) : b[j] = s[i + j]
  BY <1>0
<1> HIDE DEF a, b
<1>3. a \o b \in Seq(S) /\ Len(a \o b) = Len(s) - 1
  BY <1>0, <1>1, <1>2
<1>4. \A j \in 1..(i - 1) : (a \o b)[j] = s[j]
  BY <1>0, <1>1, <1>2
<1>5. \A j \in i..(Len(s) - 1) : (a \o b)[j] = s[j + 1]
  <2> SUFFICES ASSUME NEW j \in i..(Len(s) - 1) PROVE (a \o b)[j] = s[j + 1]
    OBVIOUS
  <2>1. (a \o b)[j] = b[j - (i - 1)]
    BY SMTT(30), <1>0, <1>1, <1>2
  <2>2. j - (i - 1) \in 1..(Len(s) - i) /\ i + (j - (i - 1)) = j + 1
    BY <1>0
  <2> QED
    BY <1>2, <2>1, <2>2
<1> QED
  BY <1>0, <1>3, <1>4, <1>5 DEF Past, a, b

\* When the oldest request answers, what follows the last one asked follows still.
LEMMA LastStaysLast ==
    ASSUME NEW S, NEW s \in Seq(S), NEW i \in DOMAIN s, i <= 1
    PROVE  /\ i = 1 /\ s # <<>> /\ Past(s, i) \in Seq(S)
           /\ Past(s, i) = <<>> => s[Len(s)] = s[1]
           /\ Past(s, i) # <<>> => Past(s, i)[Len(Past(s, i))] = s[Len(s)]
<1>1. i = 1 /\ Len(s) \in Nat /\ Len(s) > 0
  BY PastCloses
<1>2. /\ Past(s, i) \in Seq(S) /\ Len(Past(s, i)) = Len(s) - 1
      /\ \A j \in 1..(Len(s) - 1) : Past(s, i)[j] = s[j + 1]
  BY <1>1, PastCloses
<1> HIDE DEF Past
<1>3. Past(s, i) = <<>> => Len(s) = 1
  BY <1>1, <1>2
<1>4. Past(s, i) # <<>> => Len(s) - 1 \in 1..(Len(s) - 1) /\ (Len(s) - 1) + 1 = Len(s)
  BY <1>1, <1>2
<1>5. s # <<>>
  BY <1>1
<1> QED
  BY <1>1, <1>2, <1>3, <1>4, <1>5

\* The only request, and the newest one, is the last.
LEMMA NewestIsLast ==
    ASSUME NEW S, NEW s \in Seq(S), NEW e \in S
    PROVE  /\ <<e>> \in Seq(S) /\ <<e>> # <<>> /\ <<e>>[Len(<<e>>)] = e
           /\ Append(s, e) \in Seq(S) /\ Append(s, e) # <<>> /\ Append(s, e)[Len(Append(s, e))] = e
<1>1. <<e>> \in Seq(S) /\ Len(<<e>>) = 1 /\ <<e>>[1] = e
  OBVIOUS
<1>2. /\ Append(s, e) \in Seq(S) /\ Len(Append(s, e)) = Len(s) + 1 /\ Len(s) \in Nat
      /\ Append(s, e)[Len(s) + 1] = e
  OBVIOUS
<1>3. Len(<<>>) = 0
  OBVIOUS
<1> QED
  BY <1>1, <1>2, <1>3

-----------------------------------------------------------------------------
(* The loads                                                                 *)

\* A page starts with nothing.
LEMMA InitReport == RSInit => ReportInv
<1> SUFFICES ASSUME RSInit PROVE ReportInv
  OBVIOUS
<1>1. ReportTypes
  <2>1. Today \in Days
    BY ReportScreensAssumption DEF Days, Today
  <2>2. /\ due \in [AllDays -> SUBSET Hours] /\ cache \subseteq RequestIds
        /\ screen = "none" /\ late = FALSE /\ failed = FALSE
    BY DEF RSInit
  <2>3. choice \in Choices
    BY <2>1 DEF RSInit, ThisDay, One, Choices, Ranges
  <2>4. loads \in Seq(PageLoad) /\ plans \in Seq(Days) /\ days \in Seq(DayRequest)
    BY DEF RSInit
  <2> QED
    BY <2>2, <2>3, <2>4 DEF ReportTypes
<1>2. RowsAgree
  BY DEF RSInit, RowsAgree, OneRequest, NoPanels
<1> QED
  BY <1>1, <1>2 DEF RSInit, ReportInv, PanelsFollow, WorkloadFollows, DayFollows

\* The cached request of some dates, or a new one.
LEMMA JoinedIsOne ==
    ASSUME cache \subseteq RequestIds, NEW k, Hit(k) \cup Spare # {} PROVE Joined(k) \in RequestIds
<1>1. Hit(k) \subseteq RequestIds /\ Spare \subseteq RequestIds
  BY DEF Hit, Spare
<1>2. CASE Hit(k) # {}
  BY <1>1, <1>2, FirstIsOne DEF Joined
<1>3. CASE Hit(k) = {}
  BY <1>1, <1>3, FirstIsOne DEF Joined
<1> QED
  BY <1>2, <1>3

\* One request for all the calls of a load, unless it ran out between them, and the
\* load is the last.
LEMMA StartAppends ==
    ASSUME cache \subseteq RequestIds, NEW range \in Ranges, NEW others \in Seq(PageLoad),
           NEW kind \in {"analytics", "dashboard", "export"}, StartLoad(range, kind, others)
    PROVE  /\ cache' \subseteq RequestIds
           /\ \E l \in PageLoad : /\ loads' = Append(others, l) /\ OneRequest(l)
                                  /\ l.of = UtcDates(range) /\ l.kind = kind
<1> DEFINE k == UtcDates(range)
<1>1. k \in [from: Int, to: Int]
  BY ReportScreensAssumption DEF UtcDates, Ranges, Days
<1> HIDE DEF k
<1>2. ASSUME NEW ids \in [Parts -> RequestIds], NEW torn \in BOOLEAN, Begin(k, kind, others, ids, torn),
             torn \/ \A p, q \in Parts : ids[p] = ids[q]
      PROVE  /\ cache' \subseteq RequestIds
             /\ \E l \in PageLoad : /\ loads' = Append(others, l) /\ OneRequest(l)
                                    /\ l.of = k /\ l.kind = kind
  <2> DEFINE l == Load(k, kind, ids, torn)
  <2>1. l \in PageLoad /\ OneRequest(l) /\ l.of = k /\ l.kind = kind
    BY <1>1, <1>2 DEF Load, PageLoad, OneRequest
  <2>2. loads' = Append(others, l)
    BY <1>2 DEF Begin
  <2>3. cache' \subseteq RequestIds
    <3>1. cache' = (cache \ Hit(k)) \cup {ids["comparison"]} /\ ids["comparison"] \in RequestIds
      BY <1>2 DEF Begin, Asking, Parts
    <3> QED
      BY <3>1
  <2> QED
    BY <2>1, <2>2, <2>3
<1>3. CASE Hit(k) \cup Spare # {} /\ Begin(k, kind, others, Join(k), FALSE)
  <2>1. Join(k) = [p \in Parts |-> Joined(k)] /\ Joined(k) \in RequestIds
    BY <1>3, JoinedIsOne DEF Join
  <2>2. Join(k) \in [Parts -> RequestIds] /\ \A p, q \in Parts : Join(k)[p] = Join(k)[q]
    BY <2>1
  <2> QED
    BY <1>2, <1>3, <2>2 DEF k
<1>4. CASE Hit(k) # {} /\ Spare # {} /\ \E early \in Earlier : Begin(k, kind, others, JoinTorn(k, early), TRUE)
  <2>1. PICK early \in Earlier : Begin(k, kind, others, JoinTorn(k, early), TRUE)
    BY <1>4
  <2>2. First(Hit(k)) \in RequestIds /\ First(Spare) \in RequestIds
    <3>1. Hit(k) \subseteq RequestIds /\ Spare \subseteq RequestIds
      BY DEF Hit, Spare
    <3> QED
      BY <1>4, <3>1, FirstIsOne
  <2>3. JoinTorn(k, early) \in [Parts -> RequestIds]
    BY <2>2 DEF JoinTorn
  <2> QED
    BY <1>2, <2>1, <2>3 DEF k
<1> QED
  BY <1>3, <1>4 DEF StartLoad, k

\* A load of the page shown is the last one: what follows it is up to it alone.
LEMMA StartFollows ==
    ASSUME NEW others \in Seq(PageLoad), \A i \in DOMAIN others : OneRequest(others[i]),
           NEW l \in PageLoad, OneRequest(l), loads' = Append(others, l),
           l.kind = screen', screen' = "analytics" => l.of = UtcDates(choice'.range),
           OneRequest(panels')
    PROVE  loads' \in Seq(PageLoad) /\ RowsAgree' /\ PanelsFollow'
<1> DEFINE n == Len(others) + 1
<1>1. /\ loads' \in Seq(PageLoad) /\ DOMAIN loads' = 1..n /\ n \in Nat /\ n > 0
      /\ loads'[n] = l /\ \A i \in 1..(n - 1) : loads'[i] = others[i]
  OBVIOUS
<1>2. DOMAIN others = 1..(n - 1)
  OBVIOUS
<1> HIDE DEF n
<1>3. RowsAgree'
  <2> SUFFICES ASSUME NEW i \in DOMAIN loads' PROVE OneRequest(loads'[i])
    BY DEF RowsAgree, OneRequest
  <2>1. i = n \/ i \in 1..(n - 1)
    BY <1>1
  <2> QED
    BY <1>1, <1>2, <2>1
<1>4. n \in Live'
  BY <1>1 DEF Live
<1>5. \A i \in Live' : LastLive(i)' => i = n
  BY <1>1, <1>4 DEF Live, LastLive
<1> QED
  BY <1>1, <1>3, <1>4, <1>5 DEF PanelsFollow

\* An export is no load of the page.
LEMMA ExportFollows ==
    ASSUME ReportInv, NEW l \in PageLoad, OneRequest(l), loads' = Append(loads, l),
           l.kind = "export", UNCHANGED <<screen, choice, late, failed, panels>>
    PROVE  loads' \in Seq(PageLoad) /\ RowsAgree' /\ PanelsFollow'
<1> DEFINE n == Len(loads) + 1
<1>0. loads \in Seq(PageLoad) /\ screen # "export"
  BY DEF ReportInv, ReportTypes
<1>1. /\ loads' \in Seq(PageLoad) /\ DOMAIN loads' = 1..n /\ n \in Nat /\ n > 0
      /\ loads'[n] = l /\ \A i \in 1..(n - 1) : loads'[i] = loads[i]
  BY <1>0
<1>2. DOMAIN loads = 1..(n - 1)
  BY <1>0
<1> HIDE DEF n
<1>3. RowsAgree'
  <2>1. OneRequest(panels')
    BY DEF ReportInv, RowsAgree
  <2>2. ASSUME NEW i \in DOMAIN loads' PROVE OneRequest(loads'[i])
    <3>1. i = n \/ i \in 1..(n - 1)
      BY <1>1, <2>2
    <3> QED
      BY <1>1, <1>2, <3>1 DEF ReportInv, RowsAgree
  <2> QED
    BY <2>1, <2>2 DEF RowsAgree, OneRequest
<1>4. Live' = Live
  <2>1. n \notin Live'
    BY <1>0, <1>1 DEF Live
  <2>2. \A i \in 1..(n - 1) : i \in Live' <=> i \in Live
    BY <1>1, <1>2 DEF Live
  <2>3. Live' \subseteq 1..n /\ Live \subseteq 1..(n - 1)
    BY <1>1, <1>2 DEF Live
  <2>4. \A i \in 1..n : i = n \/ i \in 1..(n - 1)
    BY <1>1
  <2> QED
    BY <2>1, <2>2, <2>3, <2>4
<1>5. \A i \in Live : loads'[i] = loads[i]
  BY <1>1, <1>2 DEF Live
<1> QED
  BY <1>1, <1>3, <1>4, <1>5 DEF ReportInv, PanelsFollow, LastLive

\* A load that is over leaves the last one last, unless it overtook an older one.
LEMMA LoadsShrink ==
    ASSUME ReportInv, NEW i \in DOMAIN loads, loads' = Past(loads, i),
           late' = (late \/ (i \in Live /\ \E j \in Live : j < i)), UNCHANGED <<screen, choice>>,
           i \in Live => failed' \/ panels'.of = loads[i].of,
           i \notin Live => panels' = panels /\ failed' = failed,
           OneRequest(panels')
    PROVE  loads' \in Seq(PageLoad) /\ RowsAgree' /\ PanelsFollow'
<1> DEFINE f(j) == IF j < i THEN j ELSE j + 1
<1>1. loads \in Seq(PageLoad)
  BY DEF ReportInv, ReportTypes
<1> DEFINE n == Len(loads)
<1>2. /\ i \in 1..n /\ n \in Nat /\ DOMAIN loads = 1..n
      /\ loads' \in Seq(PageLoad) /\ DOMAIN loads' = 1..(n - 1)
      /\ \A j \in 1..(i - 1) : loads'[j] = loads[j]
      /\ \A j \in i..(n - 1) : loads'[j] = loads[j + 1]
  <2>1. /\ i \in 1..Len(loads) /\ Len(loads) \in Nat
        /\ loads' \in Seq(PageLoad) /\ Len(loads') = Len(loads) - 1
        /\ \A j \in 1..(i - 1) : loads'[j] = loads[j]
        /\ \A j \in i..(Len(loads) - 1) : loads'[j] = loads[j + 1]
    BY <1>1, PastCloses
  <2>2. DOMAIN loads = 1..Len(loads) /\ DOMAIN loads' = 1..Len(loads')
    BY <1>1, <2>1
  <2> QED
    BY <2>1, <2>2
<1> HIDE DEF n
<1>3. ASSUME NEW j \in DOMAIN loads'
      PROVE  f(j) \in DOMAIN loads /\ f(j) # i /\ loads'[j] = loads[f(j)]
  <2>1. CASE j < i
    <3>1. j \in 1..(i - 1)
      BY <1>2, <1>3, <2>1
    <3> QED
      BY <1>2, <1>3, <2>1, <3>1
  <2>2. CASE ~(j < i)
    <3>1. j \in i..(n - 1)
      BY <1>2, <1>3, <2>2
    <3> QED
      BY <1>2, <1>3, <2>2, <3>1
  <2> QED
    BY <2>1, <2>2
<1>4. ASSUME NEW m \in DOMAIN loads, m # i
      PROVE  \E j \in DOMAIN loads' : m = f(j)
  <2> DEFINE j == IF m < i THEN m ELSE m - 1
  <2>1. j \in DOMAIN loads' /\ m = f(j)
    BY <1>2, <1>4
  <2> QED
    BY <2>1
<1>5. \A j, k \in DOMAIN loads' : j <= k => f(j) <= f(k)
  BY <1>2
<1>6. RowsAgree'
  BY <1>3 DEF ReportInv, RowsAgree
<1>7. \A j \in DOMAIN loads' : j \in Live' <=> f(j) \in Live
  BY <1>3 DEF Live
<1>8. ASSUME screen' = "analytics", ~late'
      PROVE  /\ Live' = {} => failed' \/ panels'.of = UtcDates(choice'.range)
             /\ \A j \in Live' : LastLive(j)' => loads'[j].of = UtcDates(choice'.range)
  <2>1. screen = "analytics" /\ ~late /\ (i \in Live => \A j \in Live : ~(j < i))
    BY <1>8
  <2>2. ASSUME Live' = {} PROVE failed' \/ panels'.of = UtcDates(choice'.range)
    <3>1. \A m \in Live : m = i
      <4> SUFFICES ASSUME NEW m \in Live, m # i PROVE FALSE
        OBVIOUS
      <4>1. m \in DOMAIN loads
        BY DEF Live
      <4>2. PICK j \in DOMAIN loads' : m = f(j)
        BY <1>4, <4>1
      <4> QED
        BY <1>7, <2>2, <4>2
    <3>2. CASE i \in Live
      <4>1. LastLive(i)
        BY <1>2, <3>1, <3>2 DEF LastLive
      <4> QED
        BY <2>1, <3>2, <4>1 DEF ReportInv, PanelsFollow
    <3>3. CASE i \notin Live
      BY <2>1, <3>1, <3>3 DEF ReportInv, PanelsFollow
    <3> QED
      BY <3>2, <3>3
  <2>3. ASSUME NEW j \in Live', LastLive(j)' PROVE loads'[j].of = UtcDates(choice'.range)
    <3>1. j \in DOMAIN loads' /\ f(j) \in Live
      BY <1>7, <2>3 DEF Live
    <3>2. ASSUME NEW m \in Live PROVE m <= f(j)
      <4>1. m \in DOMAIN loads
        BY <3>2 DEF Live
      <4>2. CASE m = i
        <5>1. ~(f(j) < i)
          BY <2>1, <3>1, <3>2, <4>2
        <5> QED
          BY <1>2, <3>1, <4>2, <5>1
      <4>3. CASE m # i
        <5>1. PICK k \in DOMAIN loads' : m = f(k)
          BY <1>4, <4>1, <4>3
        <5>2. k \in Live'
          BY <1>7, <3>2, <5>1
        <5>3. k <= j
          BY <2>3, <5>2 DEF LastLive
        <5> QED
          BY <1>5, <3>1, <5>1, <5>3
      <4> QED
        BY <4>2, <4>3
    <3>3. LastLive(f(j))
      BY <3>1, <3>2 DEF LastLive
    <3>4. loads[f(j)].of = UtcDates(choice.range)
      BY <2>1, <3>1, <3>3 DEF ReportInv, PanelsFollow
    <3> QED
      BY <1>3, <3>1, <3>4
  <2> QED
    BY <2>2, <2>3
<1> QED
  BY <1>2, <1>6, <1>8 DEF PanelsFollow

-----------------------------------------------------------------------------
(* What an action leaves alone                                               *)

LEMMA LoadsStay ==
    ASSUME RowsAgree, PanelsFollow, late' \in BOOLEAN, late => late',
           UNCHANGED <<screen, loads, panels, failed, choice>>
    PROVE  RowsAgree' /\ PanelsFollow'
BY DEF RowsAgree, OneRequest, PanelsFollow, Live, LastLive

LEMMA WorkloadStays ==
    ASSUME WorkloadFollows, late' \in BOOLEAN, late => late', UNCHANGED <<screen, choice, plans, workload>>
    PROVE  WorkloadFollows'
BY DEF WorkloadFollows, WorkloadDate

LEMMA DayStays ==
    ASSUME DayFollows, late' \in BOOLEAN, late => late', UNCHANGED <<screen, date, days, day, spinning>>
    PROVE  DayFollows'
BY DEF DayFollows

\* Orders are created and cancelled, the server answers, the cache forgets.
LEMMA CacheKeepsReport ==
    ASSUME ReportInv, due' \in [AllDays -> SUBSET Hours], cache' \subseteq RequestIds,
           UNCHANGED <<screen, reportVars, plans, workload, date, days, day, spinning, late>>
    PROVE  ReportInv'
<1>1. RowsAgree' /\ PanelsFollow'
  BY LoadsStay DEF ReportInv, ReportTypes, reportVars
<1>2. WorkloadFollows' /\ DayFollows'
  BY WorkloadStays, DayStays DEF ReportInv, ReportTypes, reportVars
<1>3. ReportTypes'
  BY DEF ReportInv, ReportTypes, reportVars
<1> QED
  BY <1>1, <1>2, <1>3 DEF ReportInv

\* The comparison joins a second request to its load.
LEMMA CompareKeepsReport == ASSUME ReportInv, Compare PROVE ReportInv'
<1> DEFINE k(i) == Before(loads[i].of)
           r(i) == Joined(k(i))
<1>1. PICK i \in DOMAIN loads :
        /\ Hit(k(i)) \cup Spare # {} /\ Asking(k(i), Join(k(i)))
        /\ loads' = [loads EXCEPT ![i].before = r(i)]
  BY DEF Compare
<1>2. loads \in Seq(PageLoad) /\ cache \subseteq RequestIds /\ i \in 1..Len(loads) /\ loads[i] \in PageLoad
  BY DEF ReportInv, ReportTypes
<1>4. r(i) \in RequestIds
  BY <1>1, <1>2, JoinedIsOne
<1>3. cache' \subseteq RequestIds
  <2>1. cache' = (cache \ Hit(k(i))) \cup {r(i)}
    BY <1>1 DEF Asking, Join, Parts
  <2> QED
    BY <1>2, <1>4, <2>1
<1> HIDE DEF k, r
<1> DEFINE l == [loads[i] EXCEPT !.before = r(i)]
<1>5. /\ l \in PageLoad /\ l.of = loads[i].of /\ l.kind = loads[i].kind /\ l.rows = loads[i].rows
      /\ l.torn = loads[i].torn
  BY <1>2, <1>4 DEF PageLoad
<1>6. loads' = [loads EXCEPT ![i] = l]
  BY <1>1
<1> HIDE DEF l
<1>7. /\ loads' \in Seq(PageLoad) /\ Len(loads') = Len(loads) /\ DOMAIN loads' = DOMAIN loads
      /\ \A j \in DOMAIN loads : /\ loads'[j].of = loads[j].of /\ loads'[j].kind = loads[j].kind
                                 /\ loads'[j].rows = loads[j].rows /\ loads'[j].torn = loads[j].torn
  <2>1. /\ [loads EXCEPT ![i] = l] \in Seq(PageLoad)
        /\ Len([loads EXCEPT ![i] = l]) = Len(loads)
        /\ \A j \in 1..Len(loads) : [loads EXCEPT ![i] = l][j] = IF j = i THEN l ELSE loads[j]
    BY <1>2, <1>5, ExceptSeq
  <2>2. DOMAIN loads = 1..Len(loads) /\ DOMAIN loads' = 1..Len(loads)
    BY <1>2, <1>6, <2>1
  <2> QED
    BY <1>5, <1>6, <2>1, <2>2
<1>9. UNCHANGED <<due, screen, choice, panels, failed, plans, workload, date, days, day, spinning, late>>
  BY DEF Compare, dataVars, dayVars
<1>10. ReportTypes'
  BY <1>3, <1>7, <1>9 DEF ReportInv, ReportTypes
<1>11. RowsAgree'
  BY <1>7, <1>9 DEF ReportInv, RowsAgree, OneRequest
<1>12. PanelsFollow'
  <2>1. Live' = Live
    BY <1>7, <1>9 DEF Live
  <2>2. \A j \in Live : loads'[j].of = loads[j].of
    BY <1>7 DEF Live
  <2> QED
    BY <1>9, <2>1, <2>2 DEF ReportInv, PanelsFollow, LastLive
<1>13. WorkloadFollows' /\ DayFollows'
  BY <1>9, WorkloadStays, DayStays DEF ReportInv, ReportTypes
<1> QED
  BY <1>10, <1>11, <1>12, <1>13 DEF ReportInv

\* All calls of a load have answered, or one has failed.
LEMMA EndKeepsReport == ASSUME ReportInv, LoadEnds \/ LoadFails PROVE ReportInv'
<1>1. PICK i \in DOMAIN loads :
        /\ Over(i) /\ UNCHANGED <<due, cache, screen, choice, plans, workload, date, days, day, spinning>>
        /\ OneRequest(panels') /\ failed' \in BOOLEAN
        /\ i \in Live => failed' \/ panels'.of = loads[i].of
        /\ i \notin Live => panels' = panels /\ failed' = failed
  <2>1. OneRequest(panels) /\ \A i \in DOMAIN loads : OneRequest(loads[i])
    BY DEF ReportInv, RowsAgree
  <2>2. failed \in BOOLEAN /\ OneRequest(NoPanels)
    BY DEF ReportInv, ReportTypes, OneRequest, NoPanels
  <2>3. CASE LoadEnds
    <3>1. PICK i \in DOMAIN loads :
            /\ Over(i) /\ UNCHANGED <<dataVars, cache, screen, choice, failed, plans, workload, dayVars, picks>>
            /\ panels' = IF i \in Live
                         THEN [of |-> loads[i].of, rows |-> [p \in Parts |-> requests[loads[i].rows[p]].orders],
                               before |-> requests[loads[i].before].orders, torn |-> loads[i].torn]
                         ELSE panels
      BY <2>3 DEF LoadEnds
    <3>3. OneRequest(panels') /\ (i \in Live => panels'.of = loads[i].of)
      BY <2>1, <3>1 DEF OneRequest
    <3> QED
      BY <2>2, <3>1, <3>3 DEF dataVars, dayVars
  <2>4. CASE LoadFails
    <3>1. PICK i \in DOMAIN loads :
            /\ Over(i) /\ UNCHANGED <<dataVars, cache, screen, choice, plans, workload, dayVars, picks>>
            /\ failed' = (failed \/ i \in Live)
            /\ panels' = IF i \in Live /\ screen = "dashboard" THEN NoPanels ELSE panels
      BY <2>4 DEF LoadFails
    <3>2. OneRequest(panels')
      BY <2>1, <2>2, <3>1
    <3> QED
      BY <2>2, <3>1, <3>2 DEF dataVars, dayVars
  <2> QED
    BY <2>3, <2>4
<1>2. /\ loads' = Past(loads, i)
      /\ late' = (late \/ (i \in Live /\ \E j \in Live : j < i))
  BY <1>1 DEF Over
<1>3. loads' \in Seq(PageLoad) /\ RowsAgree' /\ PanelsFollow'
  BY <1>1, <1>2, LoadsShrink
<1>4. late' \in BOOLEAN /\ (late => late')
  BY <1>2 DEF ReportInv, ReportTypes
<1>5. ReportTypes'
  BY <1>1, <1>3, <1>4 DEF ReportInv, ReportTypes
<1>6. WorkloadFollows' /\ DayFollows'
  BY <1>1, <1>4, WorkloadStays, DayStays DEF ReportInv
<1> QED
  BY <1>3, <1>5, <1>6 DEF ReportInv

\* The file of an export is one more load, of nobody's page.
LEMMA ExportKeepsReport == ASSUME ReportInv, Export PROVE ReportInv'
<1>1. /\ StartLoad(choice.range, "export", loads) /\ loads \in Seq(PageLoad) /\ choice.range \in Ranges
      /\ cache \subseteq RequestIds
  BY DEF Export, ReportInv, ReportTypes, Choices
<1>2. UNCHANGED <<due, screen, choice, panels, failed, plans, workload, date, days, day, spinning, late>>
  BY DEF Export, dataVars, dayVars
<1>3. PICK l \in PageLoad : loads' = Append(loads, l) /\ OneRequest(l) /\ l.kind = "export"
  BY <1>1, StartAppends
<1>4. cache' \subseteq RequestIds
  BY <1>1, StartAppends
<1>5. loads' \in Seq(PageLoad) /\ RowsAgree' /\ PanelsFollow'
  BY <1>2, <1>3, ExportFollows
<1>6. ReportTypes'
  BY <1>2, <1>4, <1>5 DEF ReportInv, ReportTypes
<1>7. WorkloadFollows' /\ DayFollows'
  BY <1>2, WorkloadStays, DayStays DEF ReportInv, ReportTypes
<1> QED
  BY <1>5, <1>6, <1>7 DEF ReportInv

\* What a page that went away asked for stays, as nobody's.
LEMMA OrphansTyped ==
    ASSUME loads \in Seq(PageLoad), RowsAgree
    PROVE  Orphaned \in Seq(PageLoad) /\ \A i \in DOMAIN Orphaned : OneRequest(Orphaned[i])
<1>1. Orphaned = [i \in 1..Len(loads) |-> IF loads[i].kind = "export" THEN loads[i]
                                          ELSE [loads[i] EXCEPT !.kind = "gone"]]
  BY DEF Orphaned
<1>2. ASSUME NEW i \in 1..Len(loads)
      PROVE  Orphaned[i] \in PageLoad /\ i \in DOMAIN loads
             /\ Orphaned[i].rows = loads[i].rows /\ Orphaned[i].torn = loads[i].torn
  <2>1. loads[i] \in PageLoad /\ i \in DOMAIN loads
    BY <1>2
  <2> QED
    BY <1>1, <2>1 DEF PageLoad
<1>3. DOMAIN Orphaned = 1..Len(loads) /\ Len(loads) \in Nat
  BY <1>1
<1>4. Orphaned \in Seq(PageLoad)
  BY <1>1, <1>2, <1>3, IsASeq
<1> QED
  BY <1>2, <1>3, <1>4 DEF RowsAgree, OneRequest

\* A page opens on today with everything asked for.
LEMMA OpenKeepsReport == ASSUME ReportInv, OpenAnalytics \/ OpenDashboard PROVE ReportInv'
<1>1. /\ loads \in Seq(PageLoad) /\ RowsAgree /\ cache \subseteq RequestIds
      /\ Today \in Days /\ 1 \in Days /\ due \in [AllDays -> SUBSET Hours]
  BY ReportScreensAssumption DEF ReportInv, ReportTypes, Days, Today
<1>2. PICK kind \in {"analytics", "dashboard"}, range \in Ranges :
        /\ screen' = kind /\ StartLoad(range, kind, Orphaned)
        /\ kind = "analytics" => range = One(Today)
  <2>1. One(Today) \in Ranges /\ [from |-> 1, to |-> Today] \in Ranges
    BY <1>1 DEF One, Ranges
  <2> QED
    BY <2>1 DEF OpenAnalytics, OpenDashboard
<1>3. /\ choice' = ThisDay /\ date' = Today
      /\ panels' = NoPanels /\ failed' = FALSE /\ late' = FALSE /\ due' = due
  BY DEF OpenAnalytics, OpenDashboard, dataVars
<1>4. Orphaned \in Seq(PageLoad) /\ \A i \in DOMAIN Orphaned : OneRequest(Orphaned[i])
  BY <1>1, OrphansTyped
<1>5. PICK l \in PageLoad : /\ loads' = Append(Orphaned, l) /\ OneRequest(l)
                            /\ l.of = UtcDates(range) /\ l.kind = kind
  BY <1>1, <1>2, <1>4, StartAppends
<1>6. cache' \subseteq RequestIds
  BY <1>1, <1>2, <1>4, StartAppends
<1>7. OneRequest(panels')
  BY <1>3 DEF NoPanels, OneRequest
<1>8. /\ l.kind = screen'
      /\ screen' = "analytics" => l.of = UtcDates(choice'.range)
      /\ WorkloadDate(choice') = Today /\ choice' \in Choices
  <2>1. ThisDay.range = One(Today) /\ WorkloadDate(ThisDay) = Today /\ ThisDay \in Choices
    BY <1>1 DEF ThisDay, WorkloadDate, Choices, Ranges, One
  <2> QED
    BY <1>2, <1>3, <1>5, <2>1
<1>9. loads' \in Seq(PageLoad) /\ RowsAgree' /\ PanelsFollow'
  BY <1>4, <1>5, <1>7, <1>8, StartFollows
<1> DEFINE d == [of |-> Today, answer |-> Missing]
<1>10. d \in DayRequest
  BY <1>1 DEF DayRequest
<1>11. /\ plans' = <<Today>> \/ plans' = <<>>
       /\ screen' = "analytics" => plans' = <<Today>>
       /\ days' = <<d>> \/ days' = <<>>
       /\ screen' = "dashboard" => days' = <<d>>
  BY DEF OpenAnalytics, OpenDashboard
<1>12. /\ plans' \in Seq(Days)
       /\ screen' = "analytics" => plans' # <<>> /\ plans'[Len(plans')] = Today
  <2>1. <<>> \in Seq(Days) /\ <<Today>> \in Seq(Days)
        /\ <<Today>> # <<>> /\ <<Today>>[Len(<<Today>>)] = Today
    BY <1>1, NewestIsLast
  <2> QED
    BY <1>11, <2>1
<1>13. d.of = Today
  OBVIOUS
<1> HIDE DEF d
<1>14. <<>> \in Seq(DayRequest) /\ <<d>> \in Seq(DayRequest) /\ <<d>> # <<>> /\ <<d>>[Len(<<d>>)] = d
  BY <1>10, NewestIsLast
<1>15. days' \in Seq(DayRequest)
  BY <1>11, <1>14
<1>16. ReportTypes'
  BY <1>1, <1>2, <1>3, <1>6, <1>8, <1>9, <1>12, <1>15 DEF ReportTypes
<1>17. WorkloadFollows'
  <2>1. WorkloadDate(choice)' = Today
    BY <1>8 DEF WorkloadDate
  <2> QED
    BY <1>12, <2>1 DEF WorkloadFollows
<1>18. DayFollows'
  BY <1>3, <1>11, <1>13, <1>14 DEF DayFollows
<1> QED
  BY <1>9, <1>16, <1>17, <1>18 DEF ReportInv

\* The dates or their names change, or the region does: the workload is asked for
\* again whenever the choice is another one, the orders when the dates are.
LEMMA ChooseKeepsReport ==
    ASSUME ReportInv, Controls, NEW c \in Choices,
           choice' = c, UNCHANGED <<due, screen, panels, late, date, days, day, spinning>>,
           \/ StartLoad(c.range, "analytics", loads) /\ failed' = FALSE
           \/ c.range = choice.range /\ UNCHANGED <<cacheVars, loads, failed>>,
           \/ plans' = Append(plans, WorkloadDate(c)) /\ workload' = workload
           \/ c = choice /\ UNCHANGED <<plans, workload>>
    PROVE  ReportInv'
<1>1. /\ loads \in Seq(PageLoad) /\ RowsAgree /\ PanelsFollow /\ cache \subseteq RequestIds
      /\ plans \in Seq(Days) /\ screen = "analytics" /\ failed \in BOOLEAN /\ late \in BOOLEAN
  BY DEF ReportInv, ReportTypes, Controls
<1>2. c.range \in Ranges /\ WorkloadDate(c) \in Days
  BY DEF Choices, Ranges, WorkloadDate
<1>3. /\ cache' \subseteq RequestIds /\ failed' \in BOOLEAN
      /\ loads' \in Seq(PageLoad) /\ RowsAgree' /\ PanelsFollow'
  <2>1. CASE StartLoad(c.range, "analytics", loads) /\ failed' = FALSE
    <3>1. PICK l \in PageLoad : /\ loads' = Append(loads, l) /\ OneRequest(l)
                                /\ l.of = UtcDates(c.range) /\ l.kind = "analytics"
      BY <1>1, <1>2, <2>1, StartAppends
    <3>2. cache' \subseteq RequestIds
      BY <1>1, <1>2, <2>1, StartAppends
    <3>3. OneRequest(panels') /\ \A i \in DOMAIN loads : OneRequest(loads[i])
      BY <1>1 DEF RowsAgree
    <3>4. l.kind = screen' /\ l.of = UtcDates(choice'.range)
      BY <1>1, <3>1
    <3>5. loads' \in Seq(PageLoad) /\ RowsAgree' /\ PanelsFollow'
      BY <1>1, <3>1, <3>3, <3>4, StartFollows
    <3> QED
      BY <2>1, <3>2, <3>5
  <2>2. CASE c.range = choice.range /\ UNCHANGED <<cacheVars, loads, failed>>
    <3>1. RowsAgree'
      BY <1>1, <2>2 DEF RowsAgree, OneRequest
    <3>2. PanelsFollow'
      BY <1>1, <2>2 DEF PanelsFollow, Live, LastLive
    <3> QED
      BY <1>1, <2>2, <3>1, <3>2 DEF cacheVars
  <2> QED
    BY <2>1, <2>2
<1>4. plans' \in Seq(Days) /\ WorkloadFollows'
  <2>1. CASE plans' = Append(plans, WorkloadDate(c)) /\ workload' = workload
    <3>1. /\ plans' \in Seq(Days) /\ plans' # <<>> /\ plans'[Len(plans')] = WorkloadDate(c)
      BY <1>1, <1>2, <2>1, NewestIsLast
    <3>2. WorkloadDate(choice)' = WorkloadDate(c)
      BY DEF WorkloadDate
    <3> QED
      BY <3>1, <3>2 DEF WorkloadFollows
  <2>2. CASE c = choice /\ UNCHANGED <<plans, workload>>
    BY <1>1, <2>2, WorkloadStays DEF ReportInv
  <2> QED
    BY <2>1, <2>2
<1>5. ReportTypes'
  BY <1>3, <1>4 DEF ReportInv, ReportTypes
<1>6. DayFollows'
  BY <1>1 DEF DayFollows
<1> QED
  BY <1>3, <1>4, <1>5, <1>6 DEF ReportInv

-----------------------------------------------------------------------------
(* The workload and the distribution                                         *)

\* The workload answered is of the day asked for last, unless it was overtaken.
LEMMA WorkloadKeepsReport == ASSUME ReportInv, WorkloadArrives PROVE ReportInv'
<1>1. PICK i \in DOMAIN plans :
        plans' = Past(plans, i) /\ late' = (late \/ i > 1) /\ workload' \in {plans[i], Missing}
  BY DEF WorkloadArrives
<1>2. plans \in Seq(Days) /\ late \in BOOLEAN
  BY DEF ReportInv, ReportTypes
<1>3. UNCHANGED <<due, cache, screen, choice, loads, panels, failed, date, days, day, spinning>>
  BY DEF WorkloadArrives, dataVars, cacheVars, reportVars, dayVars
<1>4. plans' \in Seq(Days) /\ i \in 1..Len(plans) /\ Len(plans) \in Nat
  BY <1>1, <1>2, PastCloses
<1>5. late' \in BOOLEAN /\ (late => late')
  BY <1>1, <1>2
<1>6. ReportTypes'
  BY <1>3, <1>4, <1>5 DEF ReportInv, ReportTypes
<1>7. RowsAgree' /\ PanelsFollow' /\ DayFollows'
  BY <1>3, <1>5, LoadsStay, DayStays DEF ReportInv
<1>8. WorkloadFollows'
  <2> SUFFICES ASSUME screen' = "analytics", ~late'
               PROVE  /\ plans' = <<>> => workload' \in {WorkloadDate(choice'), Missing}
                      /\ plans' # <<>> => plans'[Len(plans')] = WorkloadDate(choice')
    BY DEF WorkloadFollows, WorkloadDate
  <2>1. i <= 1 /\ screen = "analytics" /\ ~late /\ choice' = choice
    <3>1. ~late /\ ~(i > 1)
      BY <1>1, Zenon
    <3> QED
      BY <1>3, <1>4, <3>1
  <2>2. /\ i = 1 /\ plans # <<>>
        /\ plans' = <<>> => plans[Len(plans)] = plans[1]
        /\ plans' # <<>> => plans'[Len(plans')] = plans[Len(plans)]
    BY <1>1, <1>2, <2>1, LastStaysLast
  <2>3. plans[Len(plans)] = WorkloadDate(choice)
    BY <2>1, <2>2 DEF ReportInv, WorkloadFollows
  <2> QED
    BY <1>1, <2>1, <2>2, <2>3
<1> QED
  BY <1>6, <1>7, <1>8 DEF ReportInv

\* A request for a day, and the answer to it.
LEMMA DayRequests ==
    ASSUME NEW r \in DayRequest
    PROVE  /\ r.of \in Days /\ (r.answer = Missing \/ r.answer.of = r.of)
           /\ \A a \in DayAnswer(r.of) :
                [r EXCEPT !.answer = a] \in DayRequest /\ [r EXCEPT !.answer = a].of = r.of
<1>1. PICK k \in Days : r \in [of: {k}, answer: DayAnswer(k) \cup {Missing}]
  BY DEF DayRequest
<1>2. \A a \in DayAnswer(k) : a.of = k
  <2> SUFFICES ASSUME NEW a \in DayAnswer(k) PROVE a.of = k
    OBVIOUS
  <2>1. PICK H \in SUBSET Hours :
          a = [of |-> k, total |-> [h \in Hours |-> IF h \in H THEN 1 ELSE 0],
               byHour |-> [key \in {Padded(h) : h \in H} |-> 1]]
    BY Zenon DEF DayAnswer
  <2> DEFINE t == [h \in Hours |-> IF h \in H THEN 1 ELSE 0]
             b == [key \in {Padded(h) : h \in H} |-> 1]
  <2>2. a = [of |-> k, total |-> t, byHour |-> b]
    BY <2>1, Zenon
  <2> HIDE DEF t, b
  <2> QED
    BY <2>2
<1>3. \A a \in DayAnswer(k) : [r EXCEPT !.answer = a] \in [of: {k}, answer: DayAnswer(k) \cup {Missing}]
  BY <1>1
<1> QED
  BY <1>1, <1>2, <1>3 DEF DayRequest

\* The day chosen is asked for last.
LEMMA PickDateKeepsReport == ASSUME ReportInv, PickDate PROVE ReportInv'
<1>1. PICK k \in Days : date' = k /\ days' = Append(days, [of |-> k, answer |-> Missing]) /\ spinning' = TRUE
  BY DEF PickDate, AskDay
<1>2. UNCHANGED <<due, cache, screen, choice, loads, panels, failed, plans, workload, late>>
  BY DEF PickDate, dataVars, cacheVars, reportVars
<1>3. days \in Seq(DayRequest)
  BY DEF ReportInv, ReportTypes
<1> DEFINE d == [of |-> k, answer |-> Missing]
<1>4. d \in DayRequest /\ d.of = k
  BY DEF DayRequest
<1>5. days' = Append(days, d)
  BY <1>1
<1> HIDE DEF d
<1>6. days' \in Seq(DayRequest) /\ days' # <<>> /\ days'[Len(days')] = d
  BY <1>3, <1>4, <1>5, NewestIsLast
<1>7. ReportTypes'
  BY <1>2, <1>6 DEF ReportInv, ReportTypes
<1>8. RowsAgree' /\ PanelsFollow' /\ WorkloadFollows'
  BY <1>2, LoadsStay, WorkloadStays DEF ReportInv, ReportTypes
<1>9. DayFollows'
  BY <1>1, <1>4, <1>6 DEF DayFollows
<1> QED
  BY <1>7, <1>8, <1>9 DEF ReportInv

\* The server reads the orders of the day it was asked for.
LEMMA ServeDayKeepsReport == ASSUME ReportInv, ServeDay PROVE ReportInv'
<1>1. PICK i \in DOMAIN days : days' = [days EXCEPT ![i].answer = Distribution(days[i].of)]
  BY DEF ServeDay
<1>2. UNCHANGED <<due, cache, screen, choice, loads, panels, failed, plans, workload, date, day, spinning, late>>
  BY DEF ServeDay, dataVars, cacheVars, reportVars
<1>3. days \in Seq(DayRequest) /\ due \in [AllDays -> SUBSET Hours] /\ i \in 1..Len(days) /\ days[i] \in DayRequest
  BY DEF ReportInv, ReportTypes
<1>4. days[i].of \in Days
  BY <1>3, DayRequests
<1>5. Distribution(days[i].of) \in DayAnswer(days[i].of)
  <2>1. due[days[i].of] \in SUBSET Hours
    BY <1>3, <1>4, ReportScreensAssumption DEF Days, AllDays
  <2> QED
    BY <2>1 DEF Distribution, DayAnswer
<1> DEFINE d == [days[i] EXCEPT !.answer = Distribution(days[i].of)]
<1>6. d \in DayRequest /\ d.of = days[i].of
  BY <1>3, <1>5, DayRequests
<1>7. days' = [days EXCEPT ![i] = d]
  BY <1>1
<1> HIDE DEF d
<1>8. /\ days' \in Seq(DayRequest) /\ Len(days') = Len(days)
      /\ \A j \in 1..Len(days) : days'[j].of = days[j].of
  BY <1>3, <1>6, <1>7, ExceptSeq
<1>9. /\ days # <<>> /\ Len(days) \in 1..Len(days) /\ Len(days') = Len(days) /\ days' # <<>>
  BY <1>3, <1>8
<1>10. ReportTypes'
  BY <1>2, <1>8 DEF ReportInv, ReportTypes
<1>11. RowsAgree' /\ PanelsFollow' /\ WorkloadFollows'
  BY <1>2, LoadsStay, WorkloadStays DEF ReportInv, ReportTypes
<1>12. DayFollows'
  BY <1>2, <1>8, <1>9 DEF ReportInv, DayFollows
<1> QED
  BY <1>10, <1>11, <1>12 DEF ReportInv

\* The distribution answered is of the day asked for last, unless it was overtaken.
LEMMA DayKeepsReport == ASSUME ReportInv, DayArrives PROVE ReportInv'
<1>1. PICK i \in DOMAIN days :
        /\ days' = Past(days, i) /\ late' = (late \/ i > 1) /\ spinning' = FALSE
        /\ day' \in {days[i].answer, Missing}
  BY DEF DayArrives
<1>2. days \in Seq(DayRequest) /\ late \in BOOLEAN /\ days[i] \in DayRequest
  BY DEF ReportInv, ReportTypes
<1>3. UNCHANGED <<due, cache, screen, choice, loads, panels, failed, plans, workload, date>>
  BY DEF DayArrives, dataVars, cacheVars, reportVars
<1>4. days' \in Seq(DayRequest) /\ i \in 1..Len(days) /\ Len(days) \in Nat
  BY <1>1, <1>2, PastCloses
<1>5. late' \in BOOLEAN /\ (late => late')
  BY <1>1, <1>2
<1>6. ReportTypes'
  BY <1>3, <1>4, <1>5 DEF ReportInv, ReportTypes
<1>7. RowsAgree' /\ PanelsFollow' /\ WorkloadFollows'
  BY <1>3, <1>5, LoadsStay, WorkloadStays DEF ReportInv
<1>8. DayFollows'
  <2> SUFFICES ASSUME screen' = "dashboard", ~late'
               PROVE  /\ days' = <<>> => ~spinning' /\ (day' = Missing \/ day'.of = date')
                      /\ days' # <<>> => days'[Len(days')].of = date'
    BY DEF DayFollows
  <2>1. i <= 1 /\ screen = "dashboard" /\ ~late
    <3>1. ~late /\ ~(i > 1)
      BY <1>1, Zenon
    <3> QED
      BY <1>3, <1>4, <3>1
  <2>2. /\ i = 1 /\ days # <<>>
        /\ days' = <<>> => days[Len(days)] = days[1]
        /\ days' # <<>> => days'[Len(days')] = days[Len(days)]
    BY <1>1, <1>2, <2>1, LastStaysLast
  <2>3. days[Len(days)].of = date
    BY <2>1, <2>2 DEF ReportInv, DayFollows
  <2>4. days[i].answer = Missing \/ days[i].answer.of = days[i].of
    BY <1>2, DayRequests
  <2> QED
    BY <1>1, <1>3, <2>2, <2>3, <2>4
<1> QED
  BY <1>6, <1>7, <1>8 DEF ReportInv

-----------------------------------------------------------------------------
(* The theorems                                                              *)

\* Whatever the dispatcher, the server and the clock do.
LEMMA NextReport == ReportInv /\ [RSNext]_rsVars => ReportInv'
<1> SUFFICES ASSUME ReportInv, [RSNext]_rsVars PROVE ReportInv'
  OBVIOUS
<1>1. /\ due \in [AllDays -> SUBSET Hours] /\ cache \subseteq RequestIds
      /\ choice \in Choices
  BY DEF ReportInv, ReportTypes
<1>2. CASE ServeOrders
  BY <1>1, <1>2, CacheKeepsReport DEF ServeOrders, dataVars, dayVars
<1>3. CASE FailRequest
  <2>1. PICK r \in RequestIds : cache' = Forget(requests[r].of)
    BY <1>3 DEF FailRequest
  <2>2. cache' \subseteq RequestIds
    BY <1>1, <2>1 DEF Forget
  <2> QED
    BY <1>1, <1>3, <2>2, CacheKeepsReport DEF FailRequest, dataVars, dayVars
<1>4. CASE Expire
  <2>1. cache' \subseteq RequestIds
    BY <1>1, <1>4 DEF Expire
  <2> QED
    BY <1>1, <1>4, <2>1, CacheKeepsReport DEF Expire, dataVars, dayVars
<1>5. CASE Edit
  <2>1. due' \in [AllDays -> SUBSET Hours]
    BY <1>1, <1>5 DEF Edit
  <2> QED
    BY <1>1, <1>5, <2>1, CacheKeepsReport DEF Edit, cacheVars, dayVars
<1>6. CASE ClickHour
  BY <1>1, <1>6, CacheKeepsReport DEF ClickHour, dataVars, cacheVars
<1>7. CASE UNCHANGED rsVars
  BY <1>1, <1>7, CacheKeepsReport DEF rsVars, dataVars, cacheVars, dayVars
<1>8. CASE PickRegion
  BY <1>1, <1>8, ChooseKeepsReport DEF PickRegion, dataVars, dayVars
<1>9. ASSUME NEW c \in Choices, Controls, Choose(c)
      PROVE  ReportInv'
  <2>1. \/ StartLoad(c.range, "analytics", loads) /\ failed' = FALSE
        \/ c.range = choice.range /\ UNCHANGED <<cacheVars, loads, failed>>
    BY <1>9 DEF Choose, ReloadReport
  <2>2. /\ choice' = c /\ UNCHANGED <<due, screen, panels, late, date, days, day, spinning>>
        /\ plans' = Append(plans, WorkloadDate(c)) /\ workload' = workload
    BY <1>9 DEF Choose, dataVars, dayVars
  <2> QED
    BY <1>9, <2>1, <2>2, ChooseKeepsReport
<1>10. CASE ApplyPeriod
  <2>1. PICK c \in {[choice EXCEPT !.kind = "range"],
                    [choice EXCEPT !.kind = "fixed", !.range = One(choice.anchor)]} : Controls /\ Choose(c)
    BY <1>10 DEF ApplyPeriod
  <2>2. One(choice.anchor) \in Ranges
    BY <1>1 DEF Choices, Ranges, One
  <2>3. c \in Choices
    BY <1>1, <2>2 DEF Choices
  <2> QED
    BY <1>9, <2>1, <2>3
<1>11. CASE PickAnchor
  <2>1. PICK k \in Days : Controls /\ Choose([choice EXCEPT !.anchor = k, !.range = One(k)])
    BY <1>11 DEF PickAnchor
  <2>2. [choice EXCEPT !.anchor = k, !.range = One(k)] \in Choices
    BY <1>1 DEF Choices, Ranges, One
  <2> QED
    BY <1>9, <2>1, <2>2
<1>12. CASE PickRange
  <2>1. PICK range \in Ranges : Controls /\ Choose([choice EXCEPT !.range = range])
    BY <1>12 DEF PickRange
  <2>2. [choice EXCEPT !.range = range] \in Choices
    BY <1>1 DEF Choices
  <2> QED
    BY <1>9, <2>1, <2>2
<1> QED
  BY <1>2, <1>3, <1>4, <1>5, <1>6, <1>7, <1>8, <1>10, <1>11, <1>12, CompareKeepsReport, EndKeepsReport,
     ExportKeepsReport, OpenKeepsReport, WorkloadKeepsReport, PickDateKeepsReport, ServeDayKeepsReport,
     DayKeepsReport DEF RSNext

\* The invariant holds of the reports from their opening on.
LEMMA ReportInvariant == RSSpec => []ReportInv
BY InitReport, NextReport, PTL DEF RSSpec

\* PanelsAgree for any orders, edits and expiries of the cache: the numbers and the
\* charts of a page, each computed by a call of its own, count the same orders unless
\* the cached request ran out between two of the calls.
THEOREM ReportsAgree == RSSpec => []PanelsAgree
<1>1. ReportInv => PanelsAgree
  <2> SUFFICES ASSUME RowsAgree, ~panels.torn PROVE PanelsAgree
    BY DEF ReportInv, PanelsAgree
  <2> DEFINE m == panels.rows["metrics"]
  <2>1. \A p \in Parts : panels.rows[p] = m
    BY DEF RowsAgree, OneRequest, Parts
  <2>2. /\ panels.rows["series"] = m /\ panels.rows["regions"] = m /\ panels.rows["hours"] = m
        /\ panels.rows["comparison"] = m
    BY <2>1 DEF Parts
  <2> HIDE DEF m
  <2>3. AnalyticsCharts = {Cardinality(m)} /\ DashboardCharts = {Cardinality(m)}
    BY <2>2 DEF AnalyticsCharts, DashboardCharts, ChartTotal, m
  <2>4. Cards.orders = Cardinality(m) /\ SummaryTable.orders = Cardinality(m)
        /\ Cards.more = Cardinality(m) - Counted(panels.before)
    BY <2>2 DEF Cards, SummaryTable, Counted, m
  <2>5. Cardinality(DashboardCharts) = 1
    BY <2>3, FS_Singleton
  <2> QED
    BY <2>3, <2>4, <2>5 DEF PanelsAgree
<1> QED
  BY <1>1, ReportInvariant, PTL

\* SettledReportIsAsked for any number of days, loads and choices made while they were
\* under way: at rest the panels are of the UTC dates of the dates chosen, which begin
\* a day before them.
THEOREM ReportsAreAsked == RSSpec => []SettledReportIsAsked
<1>1. ReportInv => SettledReportIsAsked
  BY DEF ReportInv, PanelsFollow, WorkloadFollows, DayFollows, SettledReportIsAsked, WorkloadTable,
     WorkloadDate, UtcDates
<1> QED
  BY <1>1, ReportInvariant, PTL

=============================================================================
