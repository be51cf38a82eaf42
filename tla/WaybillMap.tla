------------------------------ MODULE WaybillMap ------------------------------
(***************************************************************************)
(* The waybill of the chosen driver on the map of the dispatch page        *)
(* (DispatchMap in components/Dispatch.tsx) and the route of one order in  *)
(* its view dialog (components/RouteMapView.tsx).  Both ask a route server *)
(* for the geometry of a leg and draw the answer on a map that may not be  *)
(* loaded yet; both are asked to draw something else meanwhile.            *)
(*                                                                         *)
(* DispatchMap draws a waybill in batches of legs and numbers its drawings;*)
(* the effect that draws runs whenever the driver chosen, the plan or the  *)
(* list of drivers is a new one, and begins by outdating the drawing under *)
(* way.  RouteMapView marks its request unmounted instead.                 *)
(***************************************************************************)
EXTENDS Naturals, FiniteSets

CONSTANTS
    Crew,        \* drivers of the plan
    NumLegs,     \* legs of a waybill
    Batch,       \* LEG_BATCH
    MaxPicks,    \* bound: choices of a driver and new plans
    MaxDrawings, \* bound: drawings under way when a list of drivers cuts one short
    MaxViews,    \* bound: times the view dialog is opened or its order moved
    Nobody

ASSUME WaybillMapAssumption ==
    /\ NumLegs \in Nat \ {0} /\ Batch \in Nat \ {0} /\ Nobody \notin Crew
    /\ MaxPicks \in Nat /\ MaxDrawings \in Nat /\ MaxViews \in Nat

VARIABLES
    mapReady,  \* mapInstanceRef is set
    chosen,    \* selectedDriverId
    routed,    \* drivers with orders in the plan shown
    drawings,  \* drawWaybill calls under way; live: requestId is the current one
    layers,    \* lines and stops on the map: whose, and of which leg (0: stops)
    roads,     \* routeCacheRef: legs whose road geometry is known
    view,      \* the driver whose waybill the map was zoomed to
    strayed,   \* an outdated drawing zoomed the map
    cut,       \* the last list of drivers came before the waybill was drawn
    picks,     \* up to MaxPicks
    road       \* RouteMapView, see RoadView

wmVars == <<mapReady, chosen, routed, drawings, layers, roads, view, strayed, cut, picks,
          road>>
waybillVars == <<mapReady, chosen, routed, drawings, layers, roads, view, strayed, cut, picks>>

Legs == 1..NumLegs
Drawing == [driver: Crew, next: 1..(NumLegs + Batch), legs: SUBSET Legs, live: BOOLEAN]

-----------------------------------------------------------------------------
(* Roads                                                                     *)

\* What a route server has for a leg; an error, a bad status and an empty answer
\* are "none".
Geometries == {"road", "straight", "none"}

\* A line no longer than the way the crow flies is taken for the server's stopgap.
Usable(g) == g \notin {"straight", "none"}

\* fetchRoadRouteForMap finds a road or not: our server has no such endpoint, the
\* public one is asked next, and null stands for neither.
RoadFound == {Usable(g) : g \in Geometries}

-----------------------------------------------------------------------------
(* Drawing                                                                   *)

\* Mutant: a batch begins one leg late.
BatchLate(i) == {l \in Legs : l \in (i + 1)..(i + Batch - 1)}

BatchFrom(i) == {l \in Legs : l \in i..(i + Batch - 1)}

\* A batch begins: known roads are drawn at once, the others are asked for.
Begin(d, i, known) ==
    [driver |-> d, next |-> i + Batch, live |-> TRUE,
     legs |-> {l \in BatchFrom(i) : <<d, l>> \notin known}]
Known(d, i, known) == {[driver |-> d, leg |-> l] : l \in {k \in BatchFrom(i) : <<d, k>> \in known}}

Outdate(ws) == {[w EXCEPT !.live = FALSE] : w \in ws}

\* The waybill effect: outdate the drawing under way, clear the map, and draw
\* the waybill of d unless there is none to draw.
Redraw(d, R, known) ==
    LET drawn == mapReady /\ d \in R
    IN  /\ drawings' = Outdate(drawings) \cup (IF drawn THEN {Begin(d, 1, known)} ELSE {})
        /\ layers' = IF drawn THEN {[driver |-> d, leg |-> 0]} \cup Known(d, 1, known) ELSE {}

WMInit ==
    /\ mapReady = FALSE /\ chosen = Nobody /\ routed \in SUBSET Crew
    /\ drawings = {} /\ layers = {} /\ roads = {}
    /\ view = Nobody /\ strayed = FALSE /\ cut = FALSE /\ picks = 0

Pick == picks < MaxPicks /\ picks' = picks + 1

\* The Yandex script is loaded; the effect that makes the map draws no waybill.
MapLoads ==
    /\ ~mapReady /\ mapReady' = TRUE
    /\ UNCHANGED <<chosen, routed, drawings, layers, roads, view, strayed, cut, picks, road>>

\* handleDriverSelect: a driver's card in the plan is clicked.
ChooseDriver(d) ==
    /\ Pick
    /\ d # chosen /\ d \in routed /\ chosen' = d
    /\ Redraw(d, routed, roads)
    /\ UNCHANGED <<mapReady, routed, roads, view, strayed, cut, road>>

\* The choice is dropped, by its button or because the date changes.
DropChoice ==
    /\ Pick
    /\ chosen # Nobody /\ chosen' = Nobody
    /\ Redraw(Nobody, routed, roads)
    /\ UNCHANGED <<mapReady, routed, roads, view, strayed, cut, road>>

\* A plan is loaded: its routes are new ones, of some drivers.
PlanLoads ==
    /\ Pick
    /\ \E R \in SUBSET Crew : routed' = R /\ Redraw(chosen, R, roads)
    /\ UNCHANGED <<mapReady, chosen, roads, view, strayed, cut, road>>

\* Mutant: the list of drivers is loaded once only.
NoNewDrivers == FALSE /\ UNCHANGED wmVars

\* The list of drivers is a new one: polled each 20 s, or changed by a position, an
\* ETA or a status heard over the link, of whichever driver.  Each begins the
\* drawing again, also one under way; the chosen driver may have moved, so that
\* his first leg starts elsewhere.  Every driver of the plan is in the list.
NewDrivers ==
    /\ cut' = (\E w \in drawings : w.live) /\ (cut' => Cardinality(drawings) < MaxDrawings)
    /\ \E known \in {roads, roads \ {<<chosen, 1>>}} :
         roads' = known /\ Redraw(chosen, routed, known)
    /\ UNCHANGED <<mapReady, chosen, routed, view, strayed, picks, road>>

\* A leg's geometry, or null: both are drawn, a road as a solid line that is
\* remembered, null as a straight dashed one that is not, and neither when the
\* drawing is outdated.
LegArrives(w, l) ==
    /\ l \in w.legs
    /\ drawings' = (drawings \ {w}) \cup {[w EXCEPT !.legs = @ \ {l}]}
    /\ \E found \in RoadFound :
         /\ layers' = IF w.live THEN layers \cup {[driver |-> w.driver, leg |-> l]} ELSE layers
         /\ roads' = IF w.live /\ found THEN roads \cup {<<w.driver, l>>} ELSE roads
    /\ UNCHANGED <<mapReady, chosen, routed, view, strayed, cut, picks, road>>

NextBatch(w) ==
    /\ w.legs = {} /\ w.next <= NumLegs /\ w.live
    /\ drawings' = (drawings \ {w}) \cup {Begin(w.driver, w.next, roads)}
    /\ layers' = layers \cup Known(w.driver, w.next, roads)
    /\ UNCHANGED <<mapReady, chosen, routed, roads, view, strayed, cut, picks, road>>

\* The drawing ends.  Outdated with legs left it stops; outdated in its last
\* batch it still zooms the map to its own stops.
DrawingEnds(w) ==
    /\ w.legs = {} /\ (w.next > NumLegs \/ ~w.live)
    /\ drawings' = drawings \ {w}
    /\ view' = IF w.next > NumLegs THEN w.driver ELSE view
    /\ strayed' = IF w.next > NumLegs THEN ~w.live ELSE strayed
    /\ UNCHANGED <<mapReady, chosen, routed, layers, roads, cut, picks, road>>

-----------------------------------------------------------------------------
(* RouteMapView: the dialog is open (shown), the geometry the order has, that *)
(* of the line drawn, the 200 ms timer, requests in flight.  tried: the timer *)
(* found no map and nothing will ask again.                                   *)

RoadView == [open: BOOLEAN, map: BOOLEAN, geom: 0..MaxViews, line: 0..MaxViews,
             timer: BOOLEAN, spinner: BOOLEAN, tried: BOOLEAN,
             asks: SUBSET [geom: 1..MaxViews, live: BOOLEAN]]

RVInit == road = [open |-> FALSE, map |-> FALSE, geom |-> 0, line |-> 0, timer |-> FALSE,
                  spinner |-> FALSE, tried |-> FALSE, asks |-> {}]

\* loadRoute: with a map ask for the road, without one look again in 200 ms.
LoadRoute(r) ==
    IF r.map THEN [r EXCEPT !.spinner = TRUE, !.timer = FALSE,
                            !.asks = @ \cup {[geom |-> r.geom, live |-> TRUE]}]
    ELSE [r EXCEPT !.timer = TRUE]

\* isMounted = false: requests are outdated, the timer will do nothing.
Unmounted(r) == [r EXCEPT !.asks = Outdate(@), !.timer = FALSE, !.tried = FALSE]

\* The view dialog is opened on an order, or its order's points move.
ViewRoute ==
    /\ road.geom < MaxViews
    /\ road' = LoadRoute([Unmounted(road) EXCEPT !.open = TRUE, !.geom = @ + 1])
    /\ UNCHANGED waybillVars

\* The dialog is closed: the map goes with it.
CloseView ==
    /\ road.open
    /\ road' = [Unmounted(road) EXCEPT !.open = FALSE, !.map = FALSE, !.line = 0,
                                       !.spinner = FALSE]
    /\ UNCHANGED waybillVars

ViewMapLoads ==
    /\ road.open /\ ~road.map
    /\ road' = [road EXCEPT !.map = TRUE]
    /\ UNCHANGED waybillVars

\* The timer asks if there is a map by now, and is not set a second time.
ViewTimer ==
    /\ road.timer
    /\ road' = IF road.map THEN LoadRoute(road)
               ELSE [road EXCEPT !.timer = FALSE, !.tried = TRUE]
    /\ UNCHANGED waybillVars

\* The road, or a straight line when there is none.
RoadArrives(a) ==
    /\ a \in road.asks
    /\ road' = IF a.live THEN [road EXCEPT !.asks = @ \ {a}, !.line = a.geom, !.spinner = FALSE]
               ELSE [road EXCEPT !.asks = @ \ {a}]
    /\ UNCHANGED waybillVars

-----------------------------------------------------------------------------
WMNext ==
    \/ MapLoads \/ DropChoice \/ PlanLoads \/ NewDrivers
    \/ \E d \in Crew : ChooseDriver(d)
    \/ \E w \in drawings : NextBatch(w) \/ DrawingEnds(w) \/ \E l \in Legs : LegArrives(w, l)

RVNext ==
    \/ ViewRoute \/ CloseView \/ ViewMapLoads \/ ViewTimer
    \/ \E a \in road.asks : RoadArrives(a)

\* The current drawing goes on.
DrawsOn ==
    \E w \in drawings :
        w.live /\ (NextBatch(w) \/ DrawingEnds(w) \/ \E l \in Legs : LegArrives(w, l))

\* The map loads, the drivers are polled, route requests are answered.
WMFair == WF_wmVars(MapLoads) /\ WF_wmVars(NewDrivers) /\ WF_wmVars(DrawsOn)

WMSpec == WMInit /\ RVInit /\ [][WMNext \/ RVNext]_wmVars /\ WMFair

-----------------------------------------------------------------------------
(* Properties                                                                *)

WaybillMapTypeOK ==
    /\ mapReady \in BOOLEAN /\ chosen \in Crew \cup {Nobody} /\ routed \subseteq Crew
    /\ drawings \subseteq Drawing /\ layers \subseteq [driver: Crew, leg: 0..NumLegs]
    /\ roads \subseteq Crew \X Legs /\ view \in Crew \cup {Nobody} /\ strayed \in BOOLEAN
    /\ cut \in BOOLEAN
    /\ picks \in 0..MaxPicks /\ road \in RoadView

\* The two maps of the page show what is chosen, whatever geometry arrives late.
\* On the plan's map only the chosen driver's stops and legs are drawn, and none
\* when he lost his route in a new plan; when no current drawing is under way his
\* waybill is whole or not begun, and the map was zoomed to it, unless an outdated
\* drawing ended after the current one began.  In the view dialog the line at rest
\* is the order's present route, unless the map took longer than the single retry,
\* and the spinner is shown only while a request that will end it is under way.
MapsShowTheChosen ==
    /\ \A l \in layers : l.driver = chosen /\ chosen \in routed
    /\ (\A w \in drawings : ~w.live) =>
         /\ {l.leg : l \in layers} \in {{}, 0..NumLegs}
         /\ layers # {} /\ ~strayed => view = chosen
    /\ road.open /\ road.map /\ ~road.timer /\ (\A a \in road.asks : ~a.live) =>
         road.line = road.geom \/ road.tried
    /\ road.spinner => \E a \in road.asks : a.live

\* A chosen driver's waybill is drawn in the end, also when the driver was
\* chosen before the map had loaded: the drivers poll draws it again.  Only a new
\* list of drivers that comes while it is drawn puts this off: while the drivers'
\* positions are heard faster than the legs arrive, it may be put off for good.
ChosenIsDrawn ==
    \A d \in Crew :
        (chosen = d /\ d \in routed)
            ~> (\A l \in 0..NumLegs : [driver |-> d, leg |-> l] \in layers)
               \/ chosen # d \/ d \notin routed \/ cut
=============================================================================
