---------------------------- MODULE OrdersPageProofs ----------------------------
(***************************************************************************)
(* The orders page for any number of places, persons, orders and requests: *)
(* the points of a trip (PointsInv, ClicksInv), the creation of an order   *)
(* (PassengerInv, TripsInv), the list with its dialogs and handlers        *)
(* (ScreenTypes, HandlersInv and what follows from them).                  *)
(***************************************************************************)
EXTENDS OrdersScreen, OrderForm, RoutePoints, SequenceTheorems, TLAPS

-----------------------------------------------------------------------------
(* Requests in flight                                                        *)

Without(q, i) == SubSeq(q, 1, i - 1) \o SubSeq(q, i + 1, Len(q))

\* An answered request leaves the queue, the others close up.
LEMMA AnsweredLeaves ==
    ASSUME NEW S, NEW q \in Seq(S), NEW i \in 1..Len(q)
    PROVE  /\ Without(q, i) \in Seq(S) /\ Len(Without(q, i)) = Len(q) - 1
           /\ \A j \in 1..(i - 1) : Without(q, i)[j] = q[j]
           /\ \A j \in i..(Len(q) - 1) : Without(q, i)[j] = q[j + 1]
<1> DEFINE a == SubSeq(q, 1, i - 1)
           b == SubSeq(q, i + 1, Len(q))
<1>1. a \in Seq(S) /\ Len(a) = i - 1 /\ \A j \in 1..(i - 1) : a[j] = q[j]
  OBVIOUS
<1>2. b \in Seq(S) /\ Len(b) = Len(q) - i /\ \A j \in 1..(Len(q) - i) : b[j] = q[i + j]
  OBVIOUS
<1> HIDE DEF a, b
<1>3. a \o b \in Seq(S) /\ Len(a \o b) = Len(q) - 1
  BY <1>1, <1>2
<1>4. \A j \in 1..(i - 1) : (a \o b)[j] = q[j]
  BY <1>1, <1>2
<1>5. \A j \in i..(Len(q) - 1) : (a \o b)[j] = q[j + 1]
  <2> SUFFICES ASSUME NEW j \in i..(Len(q) - 1) PROVE (a \o b)[j] = q[j + 1]
    OBVIOUS
  <2>1. (a \o b)[j] = b[j - (i - 1)]
    BY <1>1, <1>2
  <2>2. j - (i - 1) \in 1..(Len(q) - i) /\ i + (j - (i - 1)) = j + 1
    OBVIOUS
  <2> QED
    BY <1>2, <2>1, <2>2
<1> QED
  BY <1>3, <1>4, <1>5 DEF Without, a, b

-----------------------------------------------------------------------------
(* The two points of an order                                                *)

PlaceOrNone == Places \cup {NoPlace}
Point == [addr: PlaceOrNone, coords: PlaceOrNone, edited: BOOLEAN]
Lookup == [by: {"search", "suggest", "click", "drag"}, field: Fields, place: Places, id: Nat]

PointTypes ==
    /\ form \in [Fields -> Point] /\ marker \in [Fields -> PlaceOrNone]
    /\ mode \in Fields /\ mapReady \in BOOLEAN
    /\ lookups \in Seq(Lookup) /\ selection \in [Fields -> Nat]
    /\ clicked \in Seq(Places)

Dragged(f, p) ==
    \E i \in DOMAIN lookups : lookups[i].by = "drag" /\ lookups[i].field = f /\ lookups[i].place = p

\* The marker is where the form has it, or it was dragged there and the form is
\* waiting for the answer.
MarkersFollow ==
    odd \cap {"early", "late"} = {} =>
        /\ ~mapReady => lookups = <<>> /\ \A f \in Fields : form[f].coords = NoPlace /\ marker[f] = NoPlace
        /\ \A f \in Fields : marker[f] # form[f].coords => Dragged(f, marker[f])

AddressesFollow ==
    \A f \in Fields : ~form[f].edited /\ form[f].coords # NoPlace => form[f].addr = form[f].coords

PointsInv == PointTypes /\ MarkersFollow /\ AddressesFollow

\* The form and both markers are empty at the start.
LEMMA InitPoints == RPInit => PointsInv
<1> SUFFICES ASSUME RPInit PROVE PointsInv
  OBVIOUS
<1>1. EmptyPoint \in Point /\ NoPlace \in PlaceOrNone /\ "pickup" \in Fields
  BY DEF EmptyPoint, Point, PlaceOrNone, Fields
<1>2. lookups \in Seq(Lookup) /\ clicked \in Seq(Places)
  BY DEF RPInit
<1>3. PointTypes
  BY <1>1, <1>2 DEF RPInit, PointTypes
<1>4. MarkersFollow /\ AddressesFollow
  BY DEF RPInit, MarkersFollow, AddressesFollow, EmptyPoint
<1> QED
  BY <1>3, <1>4 DEF PointsInv

\* A point that is set takes its marker along.
LEMMA SetPointMoves ==
    ASSUME PointTypes, NEW f \in Fields, NEW q \in Point, SetPoint(f, q)
    PROVE  /\ form' \in [Fields -> Point] /\ marker' \in [Fields -> PlaceOrNone]
           /\ form'[f] = q /\ \A g \in Fields : g # f => form'[g] = form[g] /\ marker'[g] = marker[g]
           /\ marker'[f] = IF mapReady /\ q.coords # form[f].coords THEN q.coords ELSE marker[f]
BY DEF PointTypes, SetPoint, Point

\* The other lookups go on.
LEMMA OthersGoOn ==
    ASSUME PointTypes, NEW i \in DOMAIN lookups, lookups' = Without(lookups, i)
    PROVE  /\ lookups' \in Seq(Lookup) /\ Len(lookups') = Len(lookups) - 1
           /\ \A f \in Fields, p \in PlaceOrNone :
                Dragged(f, p) /\ ~(lookups[i].by = "drag" /\ lookups[i].field = f /\ lookups[i].place = p)
                    => Dragged(f, p)'
<1>1. /\ lookups' \in Seq(Lookup) /\ Len(lookups') = Len(lookups) - 1
      /\ \A j \in 1..(i - 1) : lookups'[j] = lookups[j]
      /\ \A j \in i..(Len(lookups) - 1) : lookups'[j] = lookups[j + 1]
  <2>1. lookups \in Seq(Lookup) /\ i \in 1..Len(lookups)
    BY DEF PointTypes
  <2> QED
    BY <2>1, AnsweredLeaves
<1>2. \A j \in DOMAIN lookups : j # i => \E k \in DOMAIN lookups' : lookups'[k] = lookups[j]
  <2> SUFFICES ASSUME NEW j \in DOMAIN lookups, j # i
               PROVE  \E k \in DOMAIN lookups' : lookups'[k] = lookups[j]
    OBVIOUS
  <2>1. CASE j < i
    BY <1>1, <2>1 DEF PointTypes
  <2>2. CASE j > i
    <3>1. j - 1 \in i..(Len(lookups) - 1) /\ j - 1 \in DOMAIN lookups' /\ (j - 1) + 1 = j
      BY <1>1, <2>2 DEF PointTypes
    <3> QED
      BY <1>1, <3>1
  <2> QED
    BY <2>1, <2>2 DEF PointTypes
<1> QED
  BY <1>1, <1>2 DEF Dragged

\* A lookup that is sent joins the others.
LEMMA AskedGoOn ==
    ASSUME PointTypes, NEW l \in Lookup, Ask(l)
    PROVE  /\ lookups' \in Seq(Lookup) /\ Len(lookups') = Len(lookups) + 1
           /\ \A f \in Fields, p \in PlaceOrNone : Dragged(f, p) => Dragged(f, p)'
           /\ l.by = "drag" => Dragged(l.field, l.place)'
<1>1. /\ lookups' \in Seq(Lookup) /\ Len(lookups') = Len(lookups) + 1
      /\ \A j \in DOMAIN lookups : j \in DOMAIN lookups' /\ lookups'[j] = lookups[j]
      /\ Len(lookups') \in DOMAIN lookups' /\ lookups'[Len(lookups')] = l
  BY DEF Ask, PointTypes
<1> QED
  BY <1>1 DEF Dragged

\* What is dispatched without the form and the markers.
LEMMA PointsRest ==
    ASSUME PointsInv, UNCHANGED <<form, marker>>, PointTypes',
           odd \subseteq odd', mapReady => mapReady', ~mapReady' => lookups' = lookups,
           \A f \in Fields, p \in PlaceOrNone : Dragged(f, p) => Dragged(f, p)'
    PROVE  PointsInv'
<1>1. MarkersFollow'
  BY DEF PointsInv, MarkersFollow, PointTypes
<1>2. AddressesFollow'
  BY DEF PointsInv, AddressesFollow
<1> QED
  BY <1>1, <1>2 DEF PointsInv

\* A point is set to one whose address goes with it.
LEMMA SetPointKeepsPoints ==
    ASSUME PointsInv, NEW f \in Fields, NEW q \in Point, SetPoint(f, q), PointTypes',
           q.edited \/ q.coords = NoPlace \/ q.addr = q.coords,
           odd \subseteq odd', mapReady' = mapReady, mapReady \/ odd' \cap {"early", "late"} # {},
           \A g \in Fields, p \in PlaceOrNone :
               Dragged(g, p) => Dragged(g, p)' \/ (g = f /\ p = q.coords)
    PROVE  PointsInv'
<1>1. /\ form'[f] = q /\ \A g \in Fields : g # f => form'[g] = form[g] /\ marker'[g] = marker[g]
      /\ marker'[f] = IF mapReady /\ q.coords # form[f].coords THEN q.coords ELSE marker[f]
  BY SetPointMoves DEF PointsInv
<1>2. AddressesFollow'
  BY <1>1 DEF PointsInv, AddressesFollow
<1>3. MarkersFollow'
  <2> SUFFICES ASSUME odd' \cap {"early", "late"} = {}
               PROVE  /\ ~mapReady => /\ lookups' = <<>>
                                      /\ \A g \in Fields : form'[g].coords = NoPlace /\ marker'[g] = NoPlace
                      /\ \A g \in Fields : marker'[g] # form'[g].coords => Dragged(g, marker[g])'
    BY DEF MarkersFollow
  <2>1. /\ ~mapReady => lookups = <<>> /\ \A g \in Fields : form[g].coords = NoPlace /\ marker[g] = NoPlace
        /\ \A g \in Fields : marker[g] # form[g].coords => Dragged(g, marker[g])
    BY DEF PointsInv, MarkersFollow
  <2>2. \A g \in Fields : marker[g] \in PlaceOrNone
    BY DEF PointsInv, PointTypes
  <2>4. ASSUME mapReady, NEW g \in Fields, marker'[g] # form'[g].coords PROVE Dragged(g, marker[g])'
    <3>1. marker'[g] = marker[g] /\ marker[g] # form[g].coords /\ ~(g = f /\ marker[g] = q.coords)
      BY <1>1, <2>4
    <3>2. \A p \in PlaceOrNone : p = marker[g] => Dragged(g, p)'
      BY <2>1, <2>2, <3>1
    <3> QED
      BY <2>2, <3>1, <3>2 DEF Dragged
  <2> QED
    BY <2>4
<1> QED
  BY <1>2, <1>3 DEF PointsInv

\* The dispatcher's steps, and the map that loads.
LEMMA InputKeepsPoints ==
    ASSUME PointsInv, NEW f \in Fields,
           \/ MapLoads \/ (\E p \in PlaceOrNone : TypeAddress(f, p)) \/ SearchAddress(f)
           \/ (\E p \in Places : SelectSuggestion(f, p) \/ TypeCoords(f, p)) \/ (\E p \in Places : ClickMap(p))
    PROVE  PointsInv'
<1>1. /\ form \in [Fields -> Point] /\ form[f] \in Point /\ mapReady \in BOOLEAN
      /\ Places \subseteq PlaceOrNone /\ NoPlace \in PlaceOrNone /\ "pickup" \in Fields /\ PointTypes
      /\ selection[f] \in Nat /\ 0 \in Nat
  BY DEF PointsInv, PointTypes, PlaceOrNone, Fields
<1>2. CASE MapLoads
  BY <1>1, <1>2, PointsRest DEF MapLoads, PointsInv, PointTypes, Dragged
<1>3. ASSUME NEW p \in PlaceOrNone, TypeAddress(f, p) PROVE PointsInv'
  <2>1. /\ form'[f].edited /\ form'[f].coords = form[f].coords /\ form' \in [Fields -> Point]
        /\ \A g \in Fields : g # f => form'[g] = form[g]
        /\ UNCHANGED <<marker, mode, mapReady, lookups, selection, clicked>> /\ odd \subseteq odd'
    BY <1>1, <1>3 DEF TypeAddress, Note, Point
  <2>2. PointTypes'
    BY <2>1 DEF PointsInv, PointTypes
  <2>3. MarkersFollow'
    BY <2>1 DEF PointsInv, MarkersFollow, Dragged
  <2>4. AddressesFollow'
    BY <2>1 DEF PointsInv, AddressesFollow
  <2> QED
    BY <2>2, <2>3, <2>4 DEF PointsInv
<1>4. CASE SearchAddress(f)
  <2>1. mapReady /\ odd \subseteq odd' /\ UNCHANGED <<mode, mapReady, selection, clicked>>
    BY <1>4 DEF SearchAddress, Note
  <2>2. CASE form[f].addr = NoPlace
    <3> DEFINE q == [form[f] EXCEPT !.coords = NoPlace]
    <3>1. q \in Point /\ q.coords = NoPlace
      BY <1>1 DEF Point
    <3> HIDE DEF q
    <3>2. SetPoint(f, q) /\ lookups' = lookups
      BY <1>4, <2>2 DEF SearchAddress, q
    <3>3. form' \in [Fields -> Point] /\ marker' \in [Fields -> PlaceOrNone]
      BY <1>1, <3>1, <3>2, SetPointMoves
    <3>4. PointTypes'
      BY <2>1, <3>2, <3>3 DEF PointsInv, PointTypes
    <3>5. \A g \in Fields, p \in PlaceOrNone : Dragged(g, p) => Dragged(g, p)'
      BY <3>2 DEF Dragged
    <3> QED
      BY <2>1, <3>1, <3>2, <3>4, <3>5, SetPointKeepsPoints
  <2>3. CASE form[f].addr # NoPlace
    <3> DEFINE l == [by |-> "search", field |-> f, place |-> form[f].addr, id |-> 0]
    <3>1. l \in Lookup
      BY <1>1, <2>3 DEF Lookup, Point, PlaceOrNone
    <3>2. Ask(l) /\ UNCHANGED <<form, marker>>
      BY <1>4, <2>3 DEF SearchAddress
    <3> HIDE DEF l
    <3>3. /\ lookups' \in Seq(Lookup)
          /\ \A g \in Fields, p \in PlaceOrNone : Dragged(g, p) => Dragged(g, p)'
      BY <1>1, <3>1, <3>2, AskedGoOn
    <3>4. PointTypes'
      BY <2>1, <3>2, <3>3 DEF PointsInv, PointTypes
    <3> QED
      BY <2>1, <3>2, <3>3, <3>4, PointsRest
  <2> QED
    BY <2>2, <2>3
<1>5. ASSUME NEW p \in Places, SelectSuggestion(f, p) PROVE PointsInv'
  <2> DEFINE l == [by |-> "suggest", field |-> f, place |-> p, id |-> selection[f] + 1]
  <2>1. l \in Lookup
    BY <1>1 DEF Lookup
  <2>2. /\ mapReady /\ odd \subseteq odd' /\ UNCHANGED <<form, marker, mode, mapReady, clicked>> /\ Ask(l)
        /\ selection' = [selection EXCEPT ![f] = @ + 1]
    BY <1>5 DEF SelectSuggestion, Note
  <2> HIDE DEF l
  <2>3. /\ lookups' \in Seq(Lookup)
        /\ \A g \in Fields, r \in PlaceOrNone : Dragged(g, r) => Dragged(g, r)'
    BY <1>1, <2>1, <2>2, AskedGoOn
  <2>4. selection' \in [Fields -> Nat]
    BY <1>1, <2>2 DEF PointTypes
  <2>5. PointTypes'
    BY <2>2, <2>3, <2>4 DEF PointsInv, PointTypes
  <2> QED
    BY <2>2, <2>3, <2>5, PointsRest
<1>6. ASSUME NEW p \in Places, TypeCoords(f, p) PROVE PointsInv'
  <2> DEFINE q == [form[f] EXCEPT !.coords = p, !.edited = TRUE]
  <2>1. q \in Point /\ q.edited
    BY <1>1 DEF Point
  <2>2. SetPoint(f, q) /\ UNCHANGED <<mode, mapReady, lookups, selection, clicked>>
    BY <1>6 DEF TypeCoords
  <2>3. odd \subseteq odd' /\ (~mapReady => "early" \in odd')
    BY <1>6 DEF TypeCoords
  <2> HIDE DEF q
  <2>4. form' \in [Fields -> Point] /\ marker' \in [Fields -> PlaceOrNone]
    BY <1>1, <2>1, <2>2, SetPointMoves
  <2>5. PointTypes'
    BY <2>2, <2>4 DEF PointsInv, PointTypes
  <2>6. \A g \in Fields, r \in PlaceOrNone : Dragged(g, r) => Dragged(g, r)'
    BY <2>2 DEF Dragged
  <2> QED
    BY <2>1, <2>2, <2>3, <2>5, <2>6, SetPointKeepsPoints
<1>7. ASSUME NEW p \in Places, ClickMap(p) PROVE PointsInv'
  <2> DEFINE l == [by |-> "click", field |-> "pickup", place |-> p, id |-> 0]
  <2>1. l \in Lookup
    BY <1>1 DEF Lookup
  <2>2. /\ mapReady /\ UNCHANGED <<form, marker, mode, mapReady, selection, odd>> /\ Ask(l)
        /\ clicked' = Append(clicked, p)
    BY <1>7 DEF ClickMap
  <2> HIDE DEF l
  <2>3. /\ lookups' \in Seq(Lookup)
        /\ \A g \in Fields, r \in PlaceOrNone : Dragged(g, r) => Dragged(g, r)'
    BY <1>1, <2>1, <2>2, AskedGoOn
  <2>4. clicked' \in Seq(Places)
    BY <1>1, <2>2 DEF PointTypes
  <2>5. PointTypes'
    BY <2>2, <2>3, <2>4 DEF PointsInv, PointTypes
  <2> QED
    BY <2>2, <2>3, <2>5, PointsRest
<1> QED
  BY <1>2, <1>3, <1>4, <1>5, <1>6, <1>7

\* A marker that is dropped waits for the address of its place.
LEMMA DragKeepsPoints ==
    ASSUME PointsInv, NEW f \in Fields, NEW p \in Places, DragMarker(f, p) PROVE PointsInv'
<1> DEFINE l == [by |-> "drag", field |-> f, place |-> p, id |-> 0]
<1>1. l \in Lookup /\ l.by = "drag" /\ l.field = f /\ l.place = p /\ PointTypes
  BY DEF Lookup, PointsInv
<1>2. /\ mapReady /\ odd \subseteq odd' /\ UNCHANGED <<form, mode, mapReady, selection, clicked>> /\ Ask(l)
      /\ marker' = [marker EXCEPT ![f] = p]
  BY DEF DragMarker, Note
<1> HIDE DEF l
<1>3. /\ lookups' \in Seq(Lookup)
      /\ \A g \in Fields, r \in PlaceOrNone : Dragged(g, r) => Dragged(g, r)'
      /\ Dragged(f, p)'
  BY <1>1, <1>2, AskedGoOn
<1>4. marker' \in [Fields -> PlaceOrNone]
  BY <1>1, <1>2 DEF PointTypes, PlaceOrNone
<1>5. PointTypes'
  BY <1>2, <1>3, <1>4 DEF PointsInv, PointTypes
<1>6. AddressesFollow'
  BY <1>2 DEF PointsInv, AddressesFollow
<1>7. MarkersFollow'
  <2> SUFFICES ASSUME odd' \cap {"early", "late"} = {}, NEW g \in Fields, marker'[g] # form'[g].coords
               PROVE  Dragged(g, marker[g])'
    BY <1>2 DEF MarkersFollow
  <2>1. CASE g = f
    BY <1>1, <1>2, <1>3, <2>1 DEF PointTypes, Dragged
  <2>2. CASE g # f
    <3>1. marker'[g] = marker[g] /\ marker[g] \in PlaceOrNone /\ marker[g] # form[g].coords
      BY <1>1, <1>2, <2>2 DEF PointTypes
    <3>2. \A r \in PlaceOrNone : r = marker[g] => Dragged(g, r)'
      BY <1>2, <1>3, <3>1 DEF PointsInv, MarkersFollow
    <3> QED
      BY <3>1, <3>2 DEF Dragged
  <2> QED
    BY <2>1, <2>2
<1> QED
  BY <1>5, <1>6, <1>7 DEF PointsInv

LEMMA EmptyingKeepsPoints == ASSUME PointsInv, EmptyForm PROVE PointsInv'
<1>1. /\ form' = [f \in Fields |-> EmptyPoint]
      /\ marker' = [f \in Fields |-> IF mapReady /\ form[f].coords # NoPlace THEN NoPlace ELSE marker[f]]
      /\ clicked' = <<>> /\ UNCHANGED <<mode, mapReady, lookups, selection>>
      /\ odd \subseteq odd' /\ ("late" \notin odd' => lookups = <<>>)
  BY DEF EmptyForm, Note
<1>2. EmptyPoint \in Point /\ EmptyPoint.coords = NoPlace /\ NoPlace \in PlaceOrNone
  BY DEF EmptyPoint, Point, PlaceOrNone
<1>3. /\ form' \in [Fields -> Point] /\ marker' \in [Fields -> PlaceOrNone] /\ clicked' \in Seq(Places)
      /\ \A f \in Fields : form'[f].coords = NoPlace
  BY <1>1, <1>2 DEF PointsInv, PointTypes
<1>4. PointTypes'
  BY <1>1, <1>3 DEF PointsInv, PointTypes
<1>5. AddressesFollow'
  BY <1>3 DEF AddressesFollow
<1>6. MarkersFollow'
  <2> SUFFICES ASSUME odd' \cap {"early", "late"} = {}
               PROVE  lookups' = <<>> /\ \A f \in Fields : marker'[f] = NoPlace
    BY <1>1, <1>3 DEF MarkersFollow
  <2>1. lookups = <<>> /\ \A f \in Fields : ~Dragged(f, marker[f])
    BY <1>1 DEF Dragged
  <2>2. \A f \in Fields : marker[f] = form[f].coords /\ (~mapReady => marker[f] = NoPlace)
    BY <1>1, <2>1 DEF PointsInv, MarkersFollow
  <2> QED
    BY <1>1, <2>1, <2>2
<1> QED
  BY <1>4, <1>5, <1>6 DEF PointsInv

\* Every answer of the geocoder.
LEMMA AnswerKeepsPoints ==
    ASSUME PointsInv, NEW i \in DOMAIN lookups, GeocoderAnswers(i) PROVE PointsInv'
<1>1. PICK found \in BOOLEAN :
        AnswerSearch(lookups[i], found) \/ AnswerSuggestion(lookups[i], found)
          \/ AnswerClick(lookups[i]) \/ AnswerDrag(lookups[i])
  BY DEF GeocoderAnswers
<1>2. /\ lookups' = Without(lookups, i) /\ odd \subseteq odd' /\ UNCHANGED <<mapReady, selection, clicked>>
      /\ PointTypes
  BY DEF GeocoderAnswers, Note, Without, PointsInv
<1> DEFINE l == lookups[i]
<1>3. /\ l \in Lookup /\ l.field \in Fields /\ l.place \in Places
      /\ Found(l.place) \in Point /\ Found(l.place).coords = l.place /\ Found(l.place).addr = l.place
      /\ \A f \in Fields : form[f] \in Point
  <2>1. l \in Lookup /\ \A f \in Fields : form[f] \in Point
    BY <1>2 DEF PointTypes
  <2>2. l.field \in Fields /\ l.place \in Places
    BY <2>1 DEF Lookup
  <2> QED
    BY <2>1, <2>2 DEF Found, Point, PlaceOrNone
<1>4. /\ lookups' \in Seq(Lookup)
      /\ \A f \in Fields, p \in PlaceOrNone :
           Dragged(f, p) /\ ~(l.by = "drag" /\ l.field = f /\ l.place = p) => Dragged(f, p)'
  BY <1>2, OthersGoOn
<1>5. mapReady \/ odd' \cap {"early", "late"} # {}
  BY <1>2 DEF PointsInv, MarkersFollow
<1> HIDE DEF l
<1>6. ASSUME form' \in [Fields -> Point], marker' \in [Fields -> PlaceOrNone], mode' = mode PROVE PointTypes'
  BY <1>2, <1>4, <1>6 DEF PointTypes
<1>7. ASSUME NEW q \in Point, SetPoint(l.field, q), mode' = mode,
             q.edited \/ q.coords = NoPlace \/ q.addr = q.coords,
             l.by = "drag" => q.coords = l.place
      PROVE  PointsInv'
  <2>1. PointTypes'
    BY <1>2, <1>3, <1>6, <1>7, SetPointMoves
  <2>2. \A g \in Fields, p \in PlaceOrNone :
            Dragged(g, p) => Dragged(g, p)' \/ (g = l.field /\ p = q.coords)
    BY <1>4, <1>7
  <2> QED
    BY <1>2, <1>3, <1>5, <1>7, <2>1, <2>2, SetPointKeepsPoints
<1>8. CASE AnswerSearch(l, found)
  <2>1. CASE found
    BY <1>3, <1>7, <1>8, <2>1 DEF AnswerSearch
  <2>2. CASE ~found
    <3> DEFINE q == [form[l.field] EXCEPT !.coords = NoPlace]
    <3>1. q \in Point /\ q.coords = NoPlace
      BY <1>3 DEF Point, PlaceOrNone
    <3>2. SetPoint(l.field, q) /\ mode' = mode /\ l.by = "search"
      BY <1>8, <2>2 DEF AnswerSearch
    <3> HIDE DEF q
    <3> QED
      BY <1>7, <3>1, <3>2
  <2> QED
    BY <2>1, <2>2
<1>9. CASE AnswerSuggestion(l, found)
  <2>1. CASE l.id = selection[l.field] /\ found
    BY <1>3, <1>7, <1>9, <2>1 DEF AnswerSuggestion
  <2>2. CASE ~(l.id = selection[l.field] /\ found)
    <3>1. UNCHANGED <<form, marker, mode>> /\ l.by # "drag"
      BY <1>9, <2>2 DEF AnswerSuggestion
    <3>2. PointTypes' /\ \A f \in Fields, p \in PlaceOrNone : Dragged(f, p) => Dragged(f, p)'
      BY <1>2, <1>4, <1>6, <3>1 DEF PointTypes
    <3>3. MarkersFollow' /\ AddressesFollow'
      BY <1>2, <1>5, <3>1, <3>2 DEF PointsInv, MarkersFollow, AddressesFollow, PointTypes
    <3> QED
      BY <3>2, <3>3 DEF PointsInv
  <2> QED
    BY <2>1, <2>2
<1>10. CASE AnswerClick(l)
  <2> DEFINE f == ClickTarget
  <2>1. f \in Fields /\ Other(f) \in Fields
    BY <1>2 DEF PointTypes, ClickTarget, Fields, Other
  <2>2. form' = [form EXCEPT ![f] = Found(l.place)] /\ marker' = [marker EXCEPT ![f] = l.place]
        /\ mode' = Other(f) /\ l.by = "click"
    BY <1>10 DEF AnswerClick
  <2> HIDE DEF f
  <2>3. form' \in [Fields -> Point] /\ marker' \in [Fields -> PlaceOrNone] /\ mode' \in Fields
    BY <1>2, <1>3, <2>1, <2>2 DEF PointTypes, PlaceOrNone
  <2>4. PointTypes'
    BY <1>2, <1>4, <2>3 DEF PointTypes
  <2>5. /\ form'[f] = Found(l.place) /\ marker'[f] = l.place
        /\ \A g \in Fields : g # f => form'[g] = form[g] /\ marker'[g] = marker[g]
    BY <1>2, <2>1, <2>2 DEF PointTypes
  <2>6. AddressesFollow'
    BY <1>3, <2>5 DEF PointsInv, AddressesFollow
  <2>7. ASSUME odd' \cap {"early", "late"} = {}, NEW g \in Fields, marker'[g] # form'[g].coords
        PROVE  Dragged(g, marker[g])'
    <3>1. g # f /\ marker'[g] = marker[g] /\ marker[g] \in PlaceOrNone /\ marker[g] # form[g].coords
      BY <1>2, <1>3, <2>5, <2>7 DEF PointTypes
    <3>2. \A p \in PlaceOrNone : p = marker[g] => Dragged(g, p)'
      BY <1>2, <1>4, <2>2, <2>7, <3>1 DEF PointsInv, MarkersFollow
    <3> QED
      BY <3>1, <3>2 DEF Dragged
  <2>8. MarkersFollow'
    BY <1>2, <1>5, <2>7 DEF MarkersFollow
  <2> QED
    BY <2>4, <2>6, <2>8 DEF PointsInv
<1>11. CASE AnswerDrag(l)
  BY <1>3, <1>7, <1>11 DEF AnswerDrag
<1> QED
  BY <1>1, <1>8, <1>9, <1>10, <1>11 DEF l

\* The points in every step of the dialog.
LEMMA PointsStep == PointsInv /\ [RPNext]_rpVars => PointsInv'
<1> SUFFICES ASSUME PointsInv, [RPNext]_rpVars PROVE PointsInv'
  OBVIOUS
<1>1. "pickup" \in Fields /\ \A i \in DOMAIN lookups : GeocoderAnswers(i) => PointsInv'
  BY AnswerKeepsPoints DEF Fields
<1>2. MapLoads => PointsInv'
  BY <1>1, InputKeepsPoints
<1>3. ASSUME NEW f \in Fields, NEW p \in PlaceOrNone, TypeAddress(f, p) PROVE PointsInv'
  BY <1>3, InputKeepsPoints
<1>4. ASSUME NEW f \in Fields, SearchAddress(f) PROVE PointsInv'
  BY <1>4, InputKeepsPoints
<1>5. ASSUME NEW f \in Fields, NEW p \in Places, SelectSuggestion(f, p) \/ TypeCoords(f, p) PROVE PointsInv'
  BY <1>5, InputKeepsPoints
<1>6. ASSUME NEW f \in Fields, NEW p \in Places, DragMarker(f, p) PROVE PointsInv'
  BY <1>6, DragKeepsPoints
<1>7. ASSUME NEW p \in Places, ClickMap(p) PROVE PointsInv'
  BY <1>1, <1>7, InputKeepsPoints
<1>8. EmptyForm => PointsInv'
  BY EmptyingKeepsPoints
<1>9. UNCHANGED rpVars => PointsInv'
  BY DEF rpVars, PointsInv, PointTypes, MarkersFollow, AddressesFollow, Dragged
<1> QED
  BY <1>1, <1>2, <1>3, <1>4, <1>5, <1>6, <1>7, <1>8, <1>9 DEF RPNext, PlaceOrNone

\* When no lookup is in flight the map shows what would be sent, whatever the
\* places and however many lookups were under way.
THEOREM PointsAgree == RPSpec => []SettledPointsAgree
<1>1. RPInit => PointsInv
  BY InitPoints
<1>2. PointsInv /\ [RPNext]_rpVars => PointsInv'
  BY PointsStep
<1>3. PointsInv => SettledPointsAgree
  BY DEF PointsInv, MarkersFollow, AddressesFollow, SettledPointsAgree, Dragged
<1> QED
  BY <1>1, <1>2, <1>3, PTL DEF RPSpec

Answered == Len(clicked) - Len(lookups)

\* As long as only clicks are made and answered in turn, the lookups in flight
\* are the last clicks, and the points are the first of those answered.
ClicksInv ==
    odd \cap {"mixed", "late", "overtaken"} = {} =>
        /\ Len(lookups) <= Len(clicked)
        /\ \A i \in DOMAIN lookups : lookups[i].by = "click" /\ lookups[i].place = clicked[Answered + i]
        /\ \A f \in Fields : marker[f] = form[f].coords
        /\ ~mapReady => clicked = <<>>
        /\ Answered = 0 => \A f \in Fields : form[f].coords = NoPlace
        /\ Answered = 1 => form["pickup"].coords = clicked[1] /\ form["dropoff"].coords = NoPlace
        /\ Answered = 2 => form["pickup"].coords = clicked[1] /\ form["dropoff"].coords = clicked[2]

\* A click joins the lookups in flight and the clicks alike.
LEMMA ClickKeepsClicks == ASSUME PointTypes, ClicksInv, NEW p \in Places, ClickMap(p) PROVE ClicksInv'
<1> SUFFICES ASSUME odd' \cap {"mixed", "late", "overtaken"} = {}
             PROVE  /\ Len(lookups') <= Len(clicked')
                    /\ \A i \in DOMAIN lookups' :
                         lookups'[i].by = "click" /\ lookups'[i].place = clicked'[Answered' + i]
                    /\ \A f \in Fields : marker'[f] = form'[f].coords
                    /\ ~mapReady' => clicked' = <<>>
                    /\ Answered' = 0 => \A f \in Fields : form'[f].coords = NoPlace
                    /\ Answered' = 1 =>
                         form'["pickup"].coords = clicked'[1] /\ form'["dropoff"].coords = NoPlace
                    /\ Answered' = 2 =>
                         form'["pickup"].coords = clicked'[1] /\ form'["dropoff"].coords = clicked'[2]
  BY DEF ClicksInv
<1> DEFINE l == [by |-> "click", field |-> "pickup", place |-> p, id |-> 0]
           n == Len(lookups)
           m == Len(clicked)
<1>1. mapReady /\ UNCHANGED <<form, marker, mapReady, odd>> /\ Ask(l) /\ clicked' = Append(clicked, p)
  BY DEF ClickMap
<1>2. l \in Lookup /\ l.by = "click" /\ l.place = p /\ n \in Nat /\ m \in Nat /\ odd = odd'
  BY <1>1 DEF Lookup, Fields, PointTypes
<1> HIDE DEF l
<1>3. /\ n <= m /\ \A i \in 1..n : lookups[i].by = "click" /\ lookups[i].place = clicked[(m - n) + i]
      /\ \A f \in Fields : marker[f] = form[f].coords
      /\ m - n = 0 => \A f \in Fields : form[f].coords = NoPlace
      /\ m - n = 1 => form["pickup"].coords = clicked[1] /\ form["dropoff"].coords = NoPlace
      /\ m - n = 2 => form["pickup"].coords = clicked[1] /\ form["dropoff"].coords = clicked[2]
  BY <1>2 DEF ClicksInv, Answered, PointTypes
<1>4. /\ Len(lookups') = n + 1 /\ DOMAIN lookups' = 1..(n + 1) /\ lookups'[n + 1] = l
      /\ \A i \in 1..n : lookups'[i] = lookups[i]
  BY <1>1, <1>2 DEF Ask, PointTypes
<1>5. Len(clicked') = m + 1 /\ clicked'[m + 1] = p /\ \A i \in 1..m : clicked'[i] = clicked[i]
  BY <1>1, <1>2 DEF PointTypes
<1> HIDE DEF n, m
<1>6. Answered' = m - n
  BY <1>2, <1>4, <1>5 DEF Answered
<1>7. ASSUME NEW i \in 1..(n + 1) PROVE lookups'[i].by = "click" /\ lookups'[i].place = clicked'[(m - n) + i]
  <2>1. CASE i = n + 1
    BY <1>2, <1>4, <1>5, <2>1
  <2>2. CASE i \in 1..n
    BY <1>2, <1>3, <1>4, <1>5, <2>2
  <2> QED
    BY <1>2, <2>1, <2>2
<1>8. \A i \in DOMAIN lookups' :
        lookups'[i].by = "click" /\ lookups'[i].place = clicked'[Answered' + i]
  BY <1>4, <1>6, <1>7
<1>9. form' = form /\ marker' = marker /\ mapReady'
  BY <1>1
<1>10. Len(lookups') <= Len(clicked')
  BY <1>2, <1>3, <1>4, <1>5
<1>11. m - n \in Nat /\ (m - n >= 1 => clicked'[1] = clicked[1])
       /\ (m - n >= 2 => clicked'[2] = clicked[2])
  BY <1>2, <1>3, <1>5
<1>12. /\ \A f \in Fields : marker'[f] = form'[f].coords
       /\ Answered' = 0 => \A f \in Fields : form'[f].coords = NoPlace
  BY <1>3, <1>6, <1>9
<1>13. /\ Answered' = 1 =>
            form'["pickup"].coords = clicked'[1] /\ form'["dropoff"].coords = NoPlace
       /\ Answered' = 2 =>
            form'["pickup"].coords = clicked'[1] /\ form'["dropoff"].coords = clicked'[2]
  BY <1>3, <1>6, <1>9, <1>11
<1> QED
  BY <1>8, <1>9, <1>10, <1>12, <1>13

\* The form is emptied: no clicks, no points, and no lookup that would be late.
LEMMA EmptyingKeepsClicks == ASSUME PointTypes, ClicksInv, EmptyForm PROVE ClicksInv'
<1>1. /\ form' = [f \in Fields |-> EmptyPoint]
      /\ marker' = [f \in Fields |-> IF mapReady /\ form[f].coords # NoPlace THEN NoPlace ELSE marker[f]]
      /\ clicked' = <<>> /\ mapReady' = mapReady /\ lookups' = lookups
      /\ odd \subseteq odd' /\ ("late" \notin odd' => lookups = <<>>)
  BY DEF EmptyForm, Note
<1>2. ASSUME odd' \cap {"mixed", "late", "overtaken"} = {} PROVE \A f \in Fields : marker'[f] = NoPlace
  <2>1. \A f \in Fields : marker[f] = form[f].coords
    BY <1>1, <1>2 DEF ClicksInv
  <2>2. ~mapReady => \A f \in Fields : form[f].coords = NoPlace
    BY <1>1, <1>2 DEF ClicksInv, Answered
  <2> QED
    BY <1>1, <2>1, <2>2
<1>3. \A f \in Fields : form'[f].coords = NoPlace
  BY <1>1 DEF EmptyPoint
<1>4. odd' \cap {"mixed", "late", "overtaken"} = {} => lookups' = <<>> /\ Answered' = 0
  BY <1>1 DEF Answered
<1> QED
  BY <1>1, <1>2, <1>3, <1>4 DEF ClicksInv

\* The oldest lookup is answered: the first click sets the pickup, the second
\* the dropoff.
LEMMA AnswerKeepsClicks ==
    ASSUME PointTypes, ClicksInv, NEW i \in DOMAIN lookups, GeocoderAnswers(i) PROVE ClicksInv'
<1> SUFFICES ASSUME odd' \cap {"mixed", "late", "overtaken"} = {}
             PROVE  /\ Len(lookups') <= Len(clicked')
                    /\ \A j \in DOMAIN lookups' :
                         lookups'[j].by = "click" /\ lookups'[j].place = clicked'[Answered' + j]
                    /\ \A f \in Fields : marker'[f] = form'[f].coords
                    /\ ~mapReady' => clicked' = <<>>
                    /\ Answered' = 0 => \A f \in Fields : form'[f].coords = NoPlace
                    /\ Answered' = 1 =>
                         form'["pickup"].coords = clicked'[1] /\ form'["dropoff"].coords = NoPlace
                    /\ Answered' = 2 =>
                         form'["pickup"].coords = clicked'[1] /\ form'["dropoff"].coords = clicked'[2]
  BY DEF ClicksInv
<1> DEFINE n == Len(lookups)
           m == Len(clicked)
           l == lookups[1]
           t == ClickTarget
<1>1. n \in Nat /\ m \in Nat /\ DOMAIN lookups = 1..n /\ lookups \in Seq(Lookup) /\ clicked \in Seq(Places)
  BY DEF PointTypes
<1>2. /\ odd \cap {"mixed", "late", "overtaken"} = {} /\ i = 1 /\ lookups' = Without(lookups, i)
      /\ UNCHANGED <<mapReady, clicked>>
  <2>1. /\ odd' = (IF i > 1 THEN odd \cup {"overtaken"} ELSE odd) /\ lookups' = Without(lookups, i)
        /\ UNCHANGED <<mapReady, clicked>>
    BY DEF GeocoderAnswers, Note, Without
  <2>2. ~(i > 1) /\ odd' = odd /\ i \in 1..n
    BY <1>1, <2>1
  <2> QED
    BY <1>1, <2>1, <2>2
<1>3. /\ n <= m /\ \A j \in 1..n : lookups[j].by = "click" /\ lookups[j].place = clicked[(m - n) + j]
      /\ \A f \in Fields : marker[f] = form[f].coords
      /\ ~mapReady => clicked = <<>>
      /\ m - n = 0 => \A f \in Fields : form[f].coords = NoPlace
      /\ m - n = 1 => form["pickup"].coords = clicked[1] /\ form["dropoff"].coords = NoPlace
  BY <1>1, <1>2 DEF ClicksInv, Answered
<1>4. lookups' \in Seq(Lookup) /\ Len(lookups') = n - 1 /\ \A j \in 1..(n - 1) : lookups'[j] = lookups[j + 1]
  <2>1. i \in 1..Len(lookups)
    BY <1>1
  <2> QED
    BY <1>1, <1>2, <2>1, AnsweredLeaves
<1>5. l.by = "click" /\ l.place = clicked[(m - n) + 1] /\ n >= 1
  BY <1>1, <1>2, <1>3
<1>6. /\ form' = [form EXCEPT ![t] = Found(l.place)] /\ marker' = [marker EXCEPT ![t] = l.place]
  <2>1. PICK found \in BOOLEAN :
          AnswerSearch(l, found) \/ AnswerSuggestion(l, found) \/ AnswerClick(l) \/ AnswerDrag(l)
    BY <1>2 DEF GeocoderAnswers
  <2> QED
    BY <1>5, <2>1 DEF AnswerSearch, AnswerSuggestion, AnswerClick, AnswerDrag
<1>7. t \in Fields /\ (m - n = 0 => t = "pickup") /\ (m - n = 1 => t = "dropoff")
  <2>1. {"pickup", "dropoff"} = Fields /\ mode \in Fields
    BY DEF Fields, PointTypes
  <2>2. m - n = 1 => clicked[1] \in Places /\ clicked[1] # NoPlace
    BY <1>1, <1>5, RoutePointsAssumption
  <2> QED
    BY <1>3, <2>1, <2>2 DEF ClickTarget
<1> HIDE DEF l, t
<1>8. /\ form'[t].coords = l.place /\ marker'[t] = l.place
      /\ \A f \in Fields : f # t => form'[f] = form[f] /\ marker'[f] = marker[f]
  BY <1>6, <1>7 DEF PointTypes, Found
<1> HIDE DEF n, m
<1>9. Answered' = (m - n) + 1
  <2>1. Len(clicked') = m /\ Len(lookups') = n - 1
    BY <1>2, <1>4 DEF m
  <2> QED
    BY <1>1, <2>1 DEF Answered
<1>10. ASSUME NEW j \in 1..(n - 1)
       PROVE  lookups'[j].by = "click" /\ lookups'[j].place = clicked'[Answered' + j]
  <2>1. j + 1 \in 1..n /\ (m - n) + (j + 1) = Answered' + j
    BY <1>1, <1>9
  <2> QED
    BY <1>2, <1>3, <1>4, <2>1
<1>11. Len(lookups') <= Len(clicked') /\ DOMAIN lookups' = 1..(n - 1)
  BY <1>1, <1>2, <1>3, <1>4, <1>5 DEF m
<1>12. \A f \in Fields : marker'[f] = form'[f].coords
  BY <1>3, <1>8
<1>13. ~mapReady' => clicked' = <<>>
  BY <1>2, <1>3
<1>14. /\ Answered' = 0 => FALSE
       /\ Answered' = 1 => form'["pickup"].coords = clicked'[1] /\ form'["dropoff"].coords = NoPlace
       /\ Answered' = 2 => form'["pickup"].coords = clicked'[1] /\ form'["dropoff"].coords = clicked'[2]
  <2>1. "pickup" \in Fields /\ "dropoff" \in Fields /\ "pickup" # "dropoff"
    BY DEF Fields
  <2>2. Answered' # 0 /\ (Answered' = 1 => m - n = 0) /\ (Answered' = 2 => m - n = 1)
    BY <1>1, <1>3, <1>9
  <2>3. CASE Answered' = 1
    BY <1>2, <1>3, <1>5, <1>7, <1>8, <2>1, <2>2, <2>3
  <2>4. CASE Answered' = 2
    BY <1>2, <1>3, <1>5, <1>7, <1>8, <2>1, <2>2, <2>4
  <2> QED
    BY <2>2, <2>3, <2>4
<1> QED
  BY <1>10, <1>11, <1>12, <1>13, <1>14

\* Clicks are placed in the order in which they are answered, the first as the
\* pickup and the second as the dropoff: however many there are.
THEOREM ClicksInOrder == RPSpec => []ClicksPlacedInOrder
<1>1. RPInit => PointsInv /\ ClicksInv
  <2>1. RPInit => ClicksInv
    BY DEF RPInit, ClicksInv, Answered, EmptyPoint
  <2> QED
    BY <2>1, InitPoints
<1>2. PointsInv /\ ClicksInv /\ [RPNext]_rpVars => (PointsInv /\ ClicksInv)'
  <2> SUFFICES ASSUME PointsInv, ClicksInv, [RPNext]_rpVars PROVE ClicksInv'
    BY PointsStep
  <2>1. PointTypes
    BY DEF PointsInv
  <2>2. MapLoads => ClicksInv'
    BY DEF MapLoads, ClicksInv, Answered
  <2>3. ASSUME "mixed" \in odd' PROVE ClicksInv'
    BY <2>3 DEF ClicksInv
  <2>4. \A f \in Fields, p \in PlaceOrNone : TypeAddress(f, p) => "mixed" \in odd'
    BY DEF TypeAddress, Note
  <2>5. \A f \in Fields : SearchAddress(f) => "mixed" \in odd'
    BY DEF SearchAddress, Note
  <2>6. \A f \in Fields, p \in Places :
            SelectSuggestion(f, p) \/ TypeCoords(f, p) \/ DragMarker(f, p) => "mixed" \in odd'
    BY DEF SelectSuggestion, TypeCoords, DragMarker, Note
  <2>7. \A p \in Places : ClickMap(p) => ClicksInv'
    BY <2>1, ClickKeepsClicks
  <2>8. EmptyForm => ClicksInv'
    BY <2>1, EmptyingKeepsClicks
  <2>9. \A i \in DOMAIN lookups : GeocoderAnswers(i) => ClicksInv'
    BY <2>1, AnswerKeepsClicks
  <2>10. UNCHANGED rpVars => ClicksInv'
    BY DEF rpVars, ClicksInv, Answered
  <2> QED
    BY <2>2, <2>3, <2>4, <2>5, <2>6, <2>7, <2>8, <2>9, <2>10 DEF RPNext, PlaceOrNone
<1>3. PointsInv /\ ClicksInv => ClicksPlacedInOrder
  <2> SUFFICES ASSUME PointsInv, ClicksInv, lookups = <<>>, odd \cap {"mixed", "late", "overtaken"} = {},
                      Len(clicked) \in {1, 2}
               PROVE  /\ form["pickup"].coords = clicked[1]
                      /\ Len(clicked) = 2 => form["dropoff"].coords = clicked[2]
    BY DEF ClicksPlacedInOrder, FirstClickIsPickup
  <2>1. Answered = Len(clicked)
    BY DEF Answered, PointsInv, PointTypes
  <2> QED
    BY <2>1 DEF ClicksInv
<1> QED
  BY <1>1, <1>2, <1>3, PTL DEF RPSpec

-----------------------------------------------------------------------------
(* The passenger of a new order                                              *)

Modes == {"existing", "new", Nothing}
Chosen == Persons \cup {Nothing}
Due == [phone: Phones, mode: Modes, chosen: Chosen]
Entry == [phone: Phones, mode: Modes, chosen: Chosen, named: BOOLEAN, routed: BOOLEAN, round: BOOLEAN]
Fitting(phone) == IF phone = Partial THEN Persons ELSE {phone} \cap Persons
AnySearch == [of: Due, found: {Nothing} \cup SUBSET Persons, old: BOOLEAN]
Search == {s \in AnySearch : s.found # Nothing => s.found \subseteq Fitting(s.of.phone)}
Steps == {"idle", "lookup", "register", "there", "back", "done", "failed"}
Creation == [step: Steps, then: {"close", "another", "mamash", Nothing}, client: Chosen, phone: Phones,
             round: BOOLEAN, settled: BOOLEAN, wrote: BOOLEAN, attempt: Nat]
Trip == [client: Persons, way: {"there", "back"}, attempt: Nat]

FormTypes ==
    /\ clients \subseteq Persons /\ matches \subseteq Persons /\ entry \in Entry
    /\ timer \in Due \cup {Nothing} /\ searches \in Seq(Search)
    /\ creation \in Creation /\ placed \in Seq(Trip)
    /\ creation.step = "register" => creation.phone \in Persons
    /\ creation.step \in {"there", "back"} => creation.client \in Persons

\* Unless an answer overtook another, the matches fit what is typed, or a search
\* for what is typed is the last in flight, or is due.
MatchesFollow ==
    /\ timer # Nothing => timer.phone = entry.phone
    /\ "overtaken" \notin mishaps /\ timer = Nothing =>
         \/ matches \subseteq Fitting(entry.phone) /\ \A i \in DOMAIN searches : searches[i].old
         \/ /\ Len(searches) > 0 /\ ~searches[Len(searches)].old
            /\ searches[Len(searches)].of.phone = entry.phone

\* An order submitted when the search had settled has the client typed.
ClientTyped ==
    creation.settled /\ creation.step \in {"there", "back"} =>
        creation.phone = Partial \/ creation.client = creation.phone

PassengerInv == FormTypes /\ MatchesFollow /\ ClientTyped

\* A change of the form starts the search again if the phone or the mode changed.
LEMMA ChangeKeepsFollowing ==
    ASSUME FormTypes, MatchesFollow, NEW next \in Entry, Change(next),
           UNCHANGED searches, matches' \in {matches, {}},
           "overtaken" \notin mishaps' => "overtaken" \notin mishaps
    PROVE  /\ entry' \in Entry /\ timer' \in Due \cup {Nothing} /\ matches' \subseteq Persons
           /\ MatchesFollow'
<1> DEFINE d == [phone |-> next.phone, mode |-> next.mode, chosen |-> next.chosen]
<1>1. next.phone \in Phones /\ next.mode \in Modes /\ next.chosen \in Chosen
  BY DEF Entry
<1>2. d \in Due /\ d.phone = next.phone
  BY <1>1 DEF Due
<1>3. d # Nothing
  BY <1>2, OrderFormAssumption DEF Due, Phones, Modes, Chosen
<1>4. entry' = next /\ ((timer' = timer /\ next.phone = entry.phone) \/ timer' = d)
  BY DEF Change
<1> HIDE DEF d
<1>5. entry' \in Entry /\ timer' \in Due \cup {Nothing} /\ matches' \subseteq Persons
  <2>1. timer \in Due \cup {Nothing} /\ matches \subseteq Persons
    BY DEF FormTypes
  <2>2. timer' \in Due \cup {Nothing}
    BY <1>2, <1>4, <2>1
  <2>3. matches' \subseteq Persons
    BY <2>1
  <2> QED
    BY <1>4, <2>2, <2>3
<1>6. CASE timer' = timer /\ next.phone = entry.phone
  <2>1. entry'.phone = entry.phone /\ timer' = timer /\ matches' \subseteq matches
    BY <1>4, <1>6
  <2> QED
    BY <1>5, <2>1 DEF MatchesFollow, Fitting
<1>7. CASE timer' = d
  BY <1>2, <1>3, <1>4, <1>5, <1>7 DEF MatchesFollow
<1> QED
  BY <1>4, <1>5, <1>6, <1>7

\* What is entered, without a change of what is in flight.
LEMMA EntryKeepsPassenger ==
    ASSUME PassengerInv, NEW next \in Entry, Change(next),
           UNCHANGED <<clients, searches, placed, creation>>, matches' \in {matches, {}},
           "overtaken" \notin mishaps' => "overtaken" \notin mishaps
    PROVE  PassengerInv'
BY ChangeKeepsFollowing DEF PassengerInv, FormTypes, ClientTyped

\* The dispatcher's steps in the passenger part.
LEMMA TypingKeepsPassenger ==
    ASSUME PassengerInv,
           \/ \E phone \in Phones : TypePhone(phone)
           \/ \E p \in Persons : PickClient(p)
           \/ PickAnother \/ AddNewClient \/ CloseForm
    PROVE  PassengerInv'
<1>1. entry \in Entry /\ Nothing \in Chosen /\ Nothing \in Phones /\ Nothing \in Modes
  BY DEF PassengerInv, FormTypes, Chosen, Phones, Modes
<1>2. ASSUME NEW phone \in Phones, TypePhone(phone) PROVE PassengerInv'
  <2>1. [entry EXCEPT !.phone = phone] \in Entry
    BY <1>1 DEF Entry
  <2> QED
    BY <1>2, <2>1, EntryKeepsPassenger DEF TypePhone
<1>3. ASSUME NEW p \in Persons, PickClient(p) PROVE PassengerInv'
  <2>1. [entry EXCEPT !.mode = "existing", !.chosen = p, !.named = TRUE] \in Entry
    BY <1>1 DEF Entry, Modes, Chosen
  <2> QED
    BY <1>3, <2>1, EntryKeepsPassenger DEF PickClient
<1>4. CASE PickAnother
  <2>1. [entry EXCEPT !.chosen = Nothing] \in Entry
    BY <1>1 DEF Entry
  <2> QED
    BY <1>4, <2>1, EntryKeepsPassenger DEF PickAnother
<1>5. CASE AddNewClient
  <2>1. [entry EXCEPT !.mode = "new", !.chosen = Nothing] \in Entry
    BY <1>1 DEF Entry, Modes
  <2> QED
    BY <1>5, <2>1, EntryKeepsPassenger DEF AddNewClient
<1>6. CASE CloseForm
  <2>1. EmptyEntry \in Entry
    BY <1>1 DEF Entry, EmptyEntry
  <2>2. "overtaken" \notin mishaps' => "overtaken" \notin mishaps
    BY <1>6 DEF CloseForm
  <2> QED
    BY <1>6, <2>1, <2>2, EntryKeepsPassenger DEF CloseForm
<1> QED
  BY <1>2, <1>3, <1>4, <1>5, <1>6

\* What an outdated search keeps.
LEMMA OutdatedSearches ==
    ASSUME NEW q \in Seq(Search)
    PROVE  /\ Outdated(q) \in Seq(Search) /\ Len(Outdated(q)) = Len(q)
           /\ \A j \in DOMAIN q : Outdated(q)[j].old
<1>1. \A j \in DOMAIN q : [q[j] EXCEPT !.old = TRUE] \in Search /\ [q[j] EXCEPT !.old = TRUE].old
  <2> SUFFICES ASSUME NEW j \in DOMAIN q
               PROVE  [q[j] EXCEPT !.old = TRUE] \in Search /\ [q[j] EXCEPT !.old = TRUE].old
    OBVIOUS
  <2>1. q[j] \in AnySearch /\ (q[j].found # Nothing => q[j].found \subseteq Fitting(q[j].of.phone))
    BY DEF Search
  <2> DEFINE s == [q[j] EXCEPT !.old = TRUE]
  <2>2. s \in AnySearch /\ s.found = q[j].found /\ s.of = q[j].of /\ s.old
    BY <2>1 DEF AnySearch
  <2> HIDE DEF s
  <2>3. s \in Search
    BY <2>1, <2>2 DEF Search
  <2> QED
    BY <2>2, <2>3 DEF s
<1>2. Outdated(q) = [j \in 1..Len(q) |-> [q[j] EXCEPT !.old = TRUE]]
  BY DEF Outdated
<1>3. \A j \in 1..Len(q) : Outdated(q)[j] = [q[j] EXCEPT !.old = TRUE]
  BY <1>2
<1>4. Outdated(q) \in Seq(Search)
  BY <1>1, <1>2
<1>5. Len(Outdated(q)) = Len(q) /\ DOMAIN q = 1..Len(q)
  BY <1>2
<1>6. \A j \in DOMAIN q : Outdated(q)[j].old
  BY <1>1, <1>3, <1>5
<1> QED
  BY <1>4, <1>5, <1>6

\* An answer leaves the queue, and what was sent before it is outdated.
LEMMA ArrivalLeaves ==
    ASSUME NEW q \in Seq(Search), NEW i \in 1..Len(q),
           NEW r, r = Outdated(SubSeq(q, 1, i - 1)) \o SubSeq(q, i + 1, Len(q))
    PROVE  /\ r \in Seq(Search) /\ Len(r) = Len(q) - 1
           /\ \A j \in 1..(i - 1) : r[j].old
           /\ \A j \in i..(Len(q) - 1) : r[j] = q[j + 1]
<1> DEFINE a == SubSeq(q, 1, i - 1)
           b == SubSeq(q, i + 1, Len(q))
<1>1. a \in Seq(Search) /\ Len(a) = i - 1
  OBVIOUS
<1>2. b \in Seq(Search) /\ Len(b) = Len(q) - i /\ \A j \in 1..(Len(q) - i) : b[j] = q[i + j]
  OBVIOUS
<1> DEFINE c == Outdated(a)
<1> HIDE DEF a, b
<1>3. c \in Seq(Search) /\ Len(c) = i - 1 /\ \A j \in 1..(i - 1) : c[j].old
  <2>1. DOMAIN a = 1..(i - 1)
    BY <1>1
  <2> QED
    BY <1>1, <2>1, OutdatedSearches
<1> HIDE DEF c
<1>4. r = c \o b
  BY DEF a, b, c
<1>5. c \o b \in Seq(Search) /\ Len(c \o b) = Len(q) - 1
  <2>1. c \o b \in Seq(Search) /\ Len(c \o b) = Len(c) + Len(b)
    <3>1. c \in Seq(Search) /\ b \in Seq(Search)
      BY <1>2, <1>3
    <3> QED
      BY <3>1, ConcatProperties
  <2>2. Len(q) \in Nat /\ i \in Nat
    OBVIOUS
  <2> QED
    BY <1>2, <1>3, <2>1, <2>2
<1>6. \A j \in 1..(i - 1) : (c \o b)[j] = c[j]
  BY <1>2, <1>3
<1>7. ASSUME NEW j \in i..(Len(q) - 1) PROVE (c \o b)[j] = q[j + 1]
  <2>1. (c \o b)[j] = b[j - (i - 1)]
    BY <1>2, <1>3
  <2>2. j - (i - 1) \in 1..(Len(q) - i) /\ i + (j - (i - 1)) = j + 1
    OBVIOUS
  <2> QED
    BY <1>2, <2>1, <2>2
<1>8. \A j \in 1..(i - 1) : r[j].old
  BY <1>3, <1>4, <1>6
<1> QED
  BY <1>4, <1>5, <1>7, <1>8

\* 300 ms after the last change.
LEMMA TimerKeepsPassenger == ASSUME PassengerInv, TimerFires PROVE PassengerInv'
<1>1. /\ entry \in Entry /\ searches \in Seq(Search) /\ Nothing \in Chosen /\ Nothing \in Modes
      /\ entry.phone \in Phones
  BY DEF PassengerInv, FormTypes, Chosen, Modes, Entry
<1>2. timer \in Due /\ timer # Nothing /\ timer.phone = entry.phone
  BY DEF PassengerInv, FormTypes, MatchesFollow, TimerFires
<1>3. UNCHANGED <<clients, placed, creation, mishaps>>
  BY DEF TimerFires
<1>4. Outdated(searches) \in Seq(Search) /\ Len(Outdated(searches)) = Len(searches)
      /\ \A j \in DOMAIN searches : Outdated(searches)[j].old
  BY <1>1, OutdatedSearches
<1>5. \A j \in DOMAIN Outdated(searches) : Outdated(searches)[j].old
  BY <1>1, <1>4
<1>6. ASSUME entry' \in Entry, timer' \in Due \cup {Nothing}, searches' \in Seq(Search),
             matches' \subseteq Persons, MatchesFollow'
      PROVE  PassengerInv'
  BY <1>3, <1>6 DEF PassengerInv, FormTypes, ClientTyped
<1>7. CASE /\ timer.phone = Short
           /\ matches' = {} /\ timer' = Nothing /\ searches' = Outdated(searches)
           /\ UNCHANGED entry
  <2>1. MatchesFollow'
    BY <1>5, <1>7 DEF MatchesFollow
  <2> QED
    BY <1>1, <1>4, <1>6, <1>7, <2>1
<1>8. CASE /\ matches' = {} /\ searches' = Outdated(searches)
           /\ LET bare == [entry EXCEPT !.mode = Nothing, !.chosen = Nothing, !.named = FALSE]
              IN  /\ entry' = bare
                  /\ timer' = IF bare.mode = entry.mode THEN Nothing
                              ELSE [phone |-> entry.phone, mode |-> Nothing, chosen |-> Nothing]
  <2> DEFINE bare == [entry EXCEPT !.mode = Nothing, !.chosen = Nothing, !.named = FALSE]
             d == [phone |-> entry.phone, mode |-> Nothing, chosen |-> Nothing]
  <2>1. bare \in Entry /\ bare.phone = entry.phone
    BY <1>1 DEF Entry
  <2>2. d \in Due /\ d.phone = entry.phone
    BY <1>1 DEF Due
  <2>3. entry' = bare /\ (timer' = Nothing \/ timer' = d)
    BY <1>8
  <2> HIDE DEF bare, d
  <2>4. timer' \in Due \cup {Nothing} /\ (timer' # Nothing => timer'.phone = entry'.phone)
    BY <2>1, <2>2, <2>3
  <2>5. MatchesFollow'
    BY <1>5, <1>8, <2>4 DEF MatchesFollow
  <2> QED
    BY <1>4, <1>6, <1>8, <2>1, <2>3, <2>4, <2>5
<1>9. CASE /\ searches' = Append(searches, [of |-> timer, found |-> Nothing, old |-> FALSE])
           /\ timer' = Nothing /\ UNCHANGED <<entry, matches>>
  <2> DEFINE s == [of |-> timer, found |-> Nothing, old |-> FALSE]
  <2>1. s \in Search /\ s.of = timer /\ ~s.old
    BY <1>2 DEF Search, AnySearch
  <2> HIDE DEF s
  <2>2. searches' = Append(searches, s)
    BY <1>9 DEF s
  <2>3. searches' \in Seq(Search) /\ Len(searches') = Len(searches) + 1 /\ searches'[Len(searches) + 1] = s
    BY <1>1, <2>1, <2>2
  <2>4. Len(searches') > 0 /\ searches'[Len(searches')] = s
    BY <1>1, <2>3
  <2>5. MatchesFollow'
    BY <1>2, <1>9, <2>1, <2>4 DEF MatchesFollow
  <2>6. matches \subseteq Persons
    BY DEF PassengerInv, FormTypes
  <2> QED
    BY <1>1, <1>6, <1>9, <2>3, <2>5, <2>6
<1> QED
  BY <1>7, <1>8, <1>9 DEF TimerFires

\* A search is served.
LEMMA ServingKeepsPassenger ==
    ASSUME PassengerInv, NEW i \in DOMAIN searches, ServeSearch(i) PROVE PassengerInv'
<1>1. searches \in Seq(Search) /\ i \in 1..Len(searches) /\ clients \subseteq Persons
  BY DEF PassengerInv, FormTypes
<1> DEFINE found == Matching(searches[i].of.phone)
           s == [searches[i] EXCEPT !.found = found]
<1>2. searches[i] \in AnySearch
  BY <1>1 DEF Search
<1>3. found \subseteq Persons /\ found \subseteq Fitting(searches[i].of.phone)
  BY <1>1 DEF Matching, Fitting
<1> HIDE DEF found
<1>4. s \in AnySearch /\ s.found = found /\ s.of = searches[i].of /\ s.old = searches[i].old
  BY <1>2, <1>3 DEF AnySearch
<1> HIDE DEF s
<1>5. s \in Search
  BY <1>3, <1>4 DEF Search
<1>6. searches' = [searches EXCEPT ![i] = s]
  BY DEF ServeSearch, s, found
<1>7. /\ searches' \in Seq(Search) /\ Len(searches') = Len(searches)
      /\ \A j \in DOMAIN searches : searches'[j].old = searches[j].old /\ searches'[j].of = searches[j].of
  BY <1>1, <1>4, <1>5, <1>6
<1>8. UNCHANGED <<clients, placed, entry, matches, timer, creation, mishaps>>
  BY DEF ServeSearch
<1>9. DOMAIN searches = 1..Len(searches) /\ DOMAIN searches' = 1..Len(searches)
  BY <1>1, <1>7
<1>10. MatchesFollow'
  <2>1. Len(searches) > 0 => Len(searches) \in DOMAIN searches
    BY <1>1
  <2> QED
    BY <1>7, <1>8, <1>9, <2>1 DEF PassengerInv, MatchesFollow, Fitting
<1> QED
  BY <1>7, <1>8, <1>10 DEF PassengerInv, FormTypes, ClientTyped

\* An answer is taken up, whatever is typed by now.
LEMMA ArrivalKeepsPassenger ==
    ASSUME PassengerInv, NEW i \in DOMAIN searches, SearchArrives(i) PROVE PassengerInv'
<1> DEFINE of == searches[i].of
           found == searches[i].found
           next == AfterSearch(of, found)
           n == Len(searches)
<1>1. searches \in Seq(Search) /\ i \in 1..n /\ n \in Nat /\ FormTypes /\ MatchesFollow
  BY DEF PassengerInv, FormTypes
<1>2. searches[i] \in AnySearch /\ found # Nothing /\ found \subseteq Persons /\ found \subseteq Fitting(of.phone)
  BY <1>1 DEF Search, AnySearch, SearchArrives
<1>3. of \in Due /\ Nothing \in Chosen /\ entry \in Entry
  BY <1>1, <1>2 DEF AnySearch, FormTypes, Chosen
<1>4. next \in Entry /\ next.phone = entry.phone
  <2>1. [entry EXCEPT !.mode = "new", !.chosen = Nothing] \in Entry
    BY <1>3 DEF Entry, Modes
  <2>2. [entry EXCEPT !.mode = Nothing, !.chosen = Nothing] \in Entry
    BY <1>3 DEF Entry, Modes
  <2>3. found = {of.phone} => [entry EXCEPT !.mode = "existing", !.chosen = of.phone, !.named = TRUE] \in Entry
    BY <1>2, <1>3 DEF Entry, Modes, Chosen
  <2>4. /\ [entry EXCEPT !.mode = "new", !.chosen = Nothing].phone = entry.phone
        /\ [entry EXCEPT !.mode = Nothing, !.chosen = Nothing].phone = entry.phone
        /\ [entry EXCEPT !.mode = "existing", !.chosen = of.phone, !.named = TRUE].phone = entry.phone
    BY <1>3 DEF Entry
  <2>5. \/ next = [entry EXCEPT !.mode = "new", !.chosen = Nothing]
        \/ next = [entry EXCEPT !.mode = Nothing, !.chosen = Nothing]
        \/ /\ found = {of.phone}
           /\ next = [entry EXCEPT !.mode = "existing", !.chosen = of.phone, !.named = TRUE]
        \/ next = entry
    BY DEF AfterSearch
  <2> QED
    BY <1>3, <2>1, <2>2, <2>3, <2>4, <2>5
<1>5. /\ matches' = found /\ Change(next) /\ UNCHANGED <<clients, placed, creation, inputs>>
      /\ searches' = Outdated(SubSeq(searches, 1, i - 1)) \o SubSeq(searches, i + 1, Len(searches))
      /\ mishaps' = IF searches[i].old THEN mishaps \cup {"overtaken"} ELSE mishaps
  BY DEF SearchArrives
<1> DEFINE d == [phone |-> next.phone, mode |-> next.mode, chosen |-> next.chosen]
<1>6. entry' = next /\ (timer' = timer \/ timer' = d)
  BY <1>5 DEF Change
<1>7. d \in Due /\ d.phone = next.phone /\ d # Nothing
  <2>1. next.phone \in Phones /\ next.mode \in Modes /\ next.chosen \in Chosen
    BY <1>4 DEF Entry
  <2>2. d \in Due /\ d.phone = next.phone
    BY <2>1 DEF Due
  <2> QED
    BY <2>2, OrderFormAssumption DEF Due, Phones, Modes, Chosen
<1> HIDE DEF next, d
<1>8. entry' \in Entry /\ entry'.phone = entry.phone
  BY <1>4, <1>6
<1>9. timer' \in Due \cup {Nothing} /\ (timer' # Nothing => timer'.phone = entry'.phone)
      /\ (timer' = Nothing => timer = Nothing)
  <2>1. timer \in Due \cup {Nothing} /\ (timer # Nothing => timer.phone = entry.phone)
    BY <1>1 DEF FormTypes, MatchesFollow
  <2> QED
    BY <1>6, <1>7, <1>8, <2>1, <1>4
<1>10. /\ searches' \in Seq(Search) /\ Len(searches') = n - 1
       /\ \A j \in 1..(i - 1) : searches'[j].old
       /\ \A j \in i..(n - 1) : searches'[j] = searches[j + 1]
  BY <1>1, <1>5, ArrivalLeaves
<1>11. ASSUME "overtaken" \notin mishaps', timer' = Nothing
       PROVE  \/ matches' \subseteq Fitting(entry'.phone) /\ \A j \in DOMAIN searches' : searches'[j].old
              \/ /\ Len(searches') > 0 /\ ~searches'[Len(searches')].old
                 /\ searches'[Len(searches')].of.phone = entry'.phone
  <2>1. ~searches[i].old /\ "overtaken" \notin mishaps /\ timer = Nothing
    BY <1>5, <1>9, <1>11
  <2>2. n > 0 /\ ~searches[n].old /\ searches[n].of.phone = entry.phone
    BY <1>1, <2>1 DEF MatchesFollow
  <2>3. CASE i = n
    <3>1. \A j \in DOMAIN searches' : j \in 1..(i - 1)
      BY <1>1, <1>10, <2>3
    <3>2. found \subseteq Fitting(entry.phone)
      BY <1>2, <2>2, <2>3
    <3> QED
      BY <1>5, <1>8, <1>10, <3>1, <3>2
  <2>4. CASE i # n
    <3>1. n - 1 \in i..(n - 1) /\ (n - 1) + 1 = n /\ Len(searches') = n - 1 /\ n - 1 > 0
      BY <1>1, <1>10, <2>4
    <3>2. searches'[n - 1] = searches[n]
      BY <1>10, <3>1
    <3> QED
      BY <1>8, <2>2, <3>1, <3>2
  <2> QED
    BY <2>3, <2>4
<1>12. MatchesFollow'
  BY <1>9, <1>11 DEF MatchesFollow
<1> QED
  BY <1>2, <1>5, <1>8, <1>9, <1>10, <1>12 DEF PassengerInv, FormTypes, ClientTyped

\* A search that fails empties the matches.
LEMMA FailureKeepsPassenger == ASSUME PassengerInv, SearchFails PROVE PassengerInv'
<1> DEFINE n == Len(searches)
<1>1. searches \in Seq(Search) /\ searches # <<>> /\ n \in Nat \ {0}
  BY DEF PassengerInv, FormTypes, SearchFails
<1>2. /\ searches' = Tail(searches) /\ matches' = {}
      /\ UNCHANGED <<clients, placed, entry, timer, creation, mishaps>>
  BY DEF SearchFails
<1>3. /\ searches' \in Seq(Search) /\ Len(searches') = n - 1
      /\ \A j \in 1..(n - 1) : searches'[j] = searches[j + 1]
  BY <1>1, <1>2
<1>4. DOMAIN searches = 1..n /\ DOMAIN searches' = 1..(n - 1)
  BY <1>1, <1>3
<1>5. MatchesFollow'
  <2> SUFFICES ASSUME "overtaken" \notin mishaps', timer' = Nothing
               PROVE  \/ \A j \in DOMAIN searches' : searches'[j].old
                      \/ /\ Len(searches') > 0 /\ ~searches'[Len(searches')].old
                         /\ searches'[Len(searches')].of.phone = entry'.phone
    BY <1>2 DEF PassengerInv, MatchesFollow
  <2>1. CASE \A j \in DOMAIN searches : searches[j].old
    <3>1. \A j \in 1..(n - 1) : j + 1 \in 1..n
      BY <1>1
    <3> QED
      BY <1>3, <1>4, <2>1, <3>1
  <2>2. CASE ~searches[n].old /\ searches[n].of.phone = entry.phone
    <3>1. CASE n = 1
      BY <1>4, <3>1
    <3>2. CASE n > 1
      <4>1. n - 1 \in 1..(n - 1) /\ (n - 1) + 1 = n /\ n - 1 > 0
        BY <1>1, <3>2
      <4>2. searches'[n - 1] = searches[n] /\ Len(searches') = n - 1
        BY <1>3, <4>1
      <4> HIDE DEF n
      <4>3. Len(searches') > 0 /\ searches'[Len(searches')] = searches[n]
        BY <4>1, <4>2
      <4>4. ~searches'[Len(searches')].old
        BY <2>2, <4>3
      <4>5. searches'[Len(searches')].of.phone = entry'.phone
        BY <1>2, <2>2, <4>3
      <4> QED
        BY <4>3, <4>4, <4>5
    <3>3. n = 1 \/ n > 1
      <4> HIDE DEF n
      <4> QED
        BY <1>1
    <3> QED
      BY <3>1, <3>2, <3>3
  <2>3. (\A j \in DOMAIN searches : searches[j].old) \/ (~searches[n].old /\ searches[n].of.phone = entry.phone)
    BY <1>2 DEF PassengerInv, MatchesFollow
  <2> QED
    BY <2>1, <2>2, <2>3
<1> QED
  BY <1>2, <1>3, <1>5 DEF PassengerInv, FormTypes, ClientTyped

\* What is submitted names the passenger of the list only while the list has it.
LEMMA SubmissionKeepsPassenger ==
    ASSUME PassengerInv, NEW then \in {"close", "another", "mamash"}, Submit(then) PROVE PassengerInv'
<1> DEFINE c == [step |-> IF UsesExisting THEN "there" ELSE "lookup", then |-> then,
                 client |-> IF UsesExisting THEN entry.chosen ELSE Nothing,
                 phone |-> entry.phone, round |-> entry.round, settled |-> Settled,
                 wrote |-> FALSE, attempt |-> creation.attempt]
<1>1. /\ creation' = c /\ UNCHANGED <<clients, placed, entry, matches, timer, searches, mishaps>>
  BY DEF Submit
<1>2. entry.chosen \in Chosen /\ entry.phone \in Phones /\ entry.round \in BOOLEAN /\ Nothing \in Chosen
  BY DEF PassengerInv, FormTypes, Entry, Chosen
<1>3. creation.attempt \in Nat /\ Settled \in BOOLEAN /\ "there" \in Steps /\ "lookup" \in Steps
  BY DEF PassengerInv, FormTypes, Creation, Settled, Steps
<1>4. c \in Creation
  BY <1>2, <1>3 DEF Creation
<1>5. /\ c.step = (IF UsesExisting THEN "there" ELSE "lookup") /\ c.phone = entry.phone
      /\ c.settled = Settled /\ (UsesExisting => c.client = entry.chosen)
  OBVIOUS
<1> HIDE DEF c
<1>6. UsesExisting => entry.chosen \in matches /\ matches \subseteq Persons
  BY DEF UsesExisting, PassengerInv, FormTypes
<1>7. Settled /\ UsesExisting => entry.chosen \in Fitting(entry.phone)
  <2> SUFFICES ASSUME Settled, UsesExisting PROVE matches \subseteq Fitting(entry.phone)
    BY <1>6
  <2>1. "overtaken" \notin mishaps /\ timer = Nothing /\ ~(Len(searches) > 0)
    BY DEF Settled
  <2> QED
    BY <2>1 DEF PassengerInv, MatchesFollow
<1>8. ClientTyped'
  BY <1>1, <1>5, <1>7 DEF ClientTyped, Fitting
<1>9. FormTypes'
  BY <1>1, <1>4, <1>5, <1>6 DEF PassengerInv, FormTypes
<1>10. MatchesFollow'
  BY <1>1 DEF PassengerInv, MatchesFollow, Fitting
<1> QED
  BY <1>8, <1>9, <1>10 DEF PassengerInv

\* The calls of a creation.
LEMMA CallsKeepPassenger ==
    ASSUME PassengerInv, LookUpClient \/ RegisterClient \/ OrderRefused \/ CreationFails
    PROVE  PassengerInv'
<1>1. FormTypes /\ creation \in Creation /\ creation.phone \in Phones
  BY DEF PassengerInv, FormTypes, Creation
<1>2. ASSUME NEW c \in Creation, creation' = c, clients' \subseteq Persons,
             UNCHANGED <<placed, entry, matches, timer, searches>>,
             "overtaken" \notin mishaps' => "overtaken" \notin mishaps,
             c.step = "register" => c.phone \in Persons,
             c.step \in {"there", "back"} => c.client \in Persons /\ c.client = c.phone
      PROVE  PassengerInv'
  <2>1. ClientTyped'
    BY <1>2 DEF ClientTyped
  <2>2. MatchesFollow'
    BY <1>2 DEF PassengerInv, MatchesFollow, Fitting
  <2>3. FormTypes'
    BY <1>1, <1>2 DEF FormTypes
  <2> QED
    BY <2>1, <2>2, <2>3 DEF PassengerInv
<1> DEFINE found == [creation EXCEPT !.step = "there", !.client = creation.phone]
           asks == [creation EXCEPT !.step = "register"]
           failed == [creation EXCEPT !.step = "failed"]
           none == [NoCreation EXCEPT !.attempt = creation.attempt]
<1>3. creation.phone \in Persons =>
        found \in Creation /\ found.step = "there" /\ found.client = creation.phone /\ found.phone = creation.phone
  BY <1>1 DEF Creation, Steps, Chosen
<1>4. asks \in Creation /\ asks.step = "register" /\ asks.phone = creation.phone
  BY <1>1 DEF Creation, Steps
<1>5. failed \in Creation /\ failed.step = "failed"
  BY <1>1 DEF Creation, Steps
<1>6. none \in Creation /\ none.step = "idle"
  BY <1>1 DEF Creation, Steps, NoCreation, Phones, Chosen
<1>7. CASE LookUpClient
  <2>1. /\ UNCHANGED <<clients, placed, entry, matches, timer, searches, mishaps>>
        /\ \/ creation.phone \in Persons /\ creation' = found
           \/ creation.phone \in Persons /\ creation' = asks
           \/ creation' = failed
    BY <1>1, <1>7 DEF LookUpClient, FormTypes
  <2> HIDE DEF found, asks, failed
  <2> QED
    BY <1>1, <1>2, <1>3, <1>4, <1>5, <2>1 DEF FormTypes
<1>8. CASE RegisterClient
  <2>1. /\ UNCHANGED <<placed, entry, matches, timer, searches, mishaps>>
        /\ clients' = clients \cup {creation.phone} /\ creation.phone \in Persons
        /\ creation' = found \/ creation' = failed
    BY <1>1, <1>8 DEF RegisterClient, FormTypes
  <2>2. clients' \subseteq Persons
    BY <1>1, <2>1 DEF FormTypes
  <2> HIDE DEF found, failed
  <2> QED
    BY <1>2, <1>3, <1>5, <2>1, <2>2
<1>9. CASE OrderRefused
  <2>1. creation' = failed /\ UNCHANGED <<clients, placed, entry, matches, timer, searches, mishaps>>
    BY <1>9 DEF OrderRefused
  <2> HIDE DEF failed
  <2> QED
    BY <1>1, <1>2, <1>5, <2>1 DEF FormTypes
<1>10. CASE CreationFails
  <2>1. /\ creation' = none /\ UNCHANGED <<clients, placed, entry, matches, timer, searches>>
        /\ "overtaken" \notin mishaps' => "overtaken" \notin mishaps
    BY <1>10 DEF CreationFails
  <2> HIDE DEF none
  <2> QED
    BY <1>1, <1>2, <1>6, <2>1 DEF FormTypes
<1> QED
  BY <1>7, <1>8, <1>9, <1>10

\* What an order adds, and what becomes of the creation.
LEMMA OrderIsAdded ==
    ASSUME FormTypes, PlaceOrder
    PROVE  /\ placed' \in Seq(Trip) /\ Len(placed') = Len(placed) + 1
           /\ \A i \in 1..Len(placed) : placed'[i] = placed[i]
           /\ placed'[Len(placed')].client = creation.client
           /\ placed'[Len(placed')].way = creation.step
           /\ placed'[Len(placed')].attempt = creation.attempt
           /\ creation' \in Creation /\ creation'.attempt = creation.attempt
           /\ creation'.client = creation.client /\ creation'.phone = creation.phone
           /\ creation'.settled = creation.settled
           /\ \/ /\ creation'.wrote /\ mishaps' = mishaps
                 /\ creation'.step = IF creation.step = "there" /\ creation.round THEN "back" ELSE "done"
              \/ creation'.step = "failed" /\ ~creation'.wrote /\ mishaps' = mishaps \cup {"unheard"}
           /\ creation.step \in {"there", "back"}
           /\ UNCHANGED <<clients, entry, matches, timer, searches>>
<1> DEFINE t == [client |-> creation.client, way |-> creation.step, attempt |-> creation.attempt]
           n == Len(placed)
<1>1. creation \in Creation /\ creation.client \in Persons /\ creation.attempt \in Nat /\ placed \in Seq(Trip)
      /\ creation.step \in {"there", "back"}
  BY DEF FormTypes, Creation, PlaceOrder
<1>2. t \in Trip /\ t.client = creation.client /\ t.way = creation.step /\ t.attempt = creation.attempt
  BY <1>1 DEF Trip
<1>3. placed' = Append(placed, t)
  BY DEF PlaceOrder
<1> HIDE DEF t
<1>4. /\ placed' \in Seq(Trip) /\ Len(placed') = n + 1 /\ placed'[n + 1] = t
      /\ \A i \in 1..n : placed'[i] = placed[i]
  BY <1>1, <1>2, <1>3
<1>5. PICK heard \in BOOLEAN :
         /\ creation' = [creation EXCEPT !.step = IF heard THEN NextStep ELSE "failed", !.wrote = heard]
         /\ mishaps' = IF heard THEN mishaps ELSE mishaps \cup {"unheard"}
  BY DEF PlaceOrder
<1> DEFINE s == IF heard THEN NextStep ELSE "failed"
           c == [creation EXCEPT !.step = s, !.wrote = heard]
<1>6. s \in Steps
  BY DEF NextStep, Steps
<1>7. creation' = c
  BY <1>5
<1>8. /\ c \in Creation /\ c.attempt = creation.attempt /\ c.client = creation.client
      /\ c.phone = creation.phone /\ c.settled = creation.settled /\ c.step = s /\ c.wrote = heard
  <2> HIDE DEF s
  <2> QED
    BY <1>1, <1>6 DEF Creation
<1> HIDE DEF c
<1>9. UNCHANGED <<clients, entry, matches, timer, searches>>
  BY DEF PlaceOrder
<1>10. CASE heard
  BY <1>1, <1>2, <1>4, <1>5, <1>7, <1>8, <1>9, <1>10 DEF NextStep
<1>11. CASE ~heard
  BY <1>1, <1>2, <1>4, <1>5, <1>7, <1>8, <1>9, <1>11
<1> QED
  BY <1>10, <1>11

\* The order is for the client the creation found.
LEMMA PlacingKeepsPassenger == ASSUME PassengerInv, PlaceOrder PROVE PassengerInv'
<1>1. FormTypes
  BY DEF PassengerInv
<1>2. /\ placed' \in Seq(Trip) /\ creation' \in Creation
      /\ creation'.client = creation.client /\ creation'.phone = creation.phone
      /\ creation'.settled = creation.settled /\ creation.step \in {"there", "back"}
      /\ creation'.step \in {"back", "done", "failed"}
      /\ "overtaken" \notin mishaps' => "overtaken" \notin mishaps
      /\ UNCHANGED <<clients, entry, matches, timer, searches>>
  BY <1>1, OrderIsAdded
<1>3. FormTypes'
  BY <1>1, <1>2 DEF FormTypes
<1>4. MatchesFollow'
  BY <1>2 DEF PassengerInv, MatchesFollow, Fitting
<1>5. ClientTyped'
  BY <1>2 DEF PassengerInv, ClientTyped
<1> QED
  BY <1>3, <1>4, <1>5 DEF PassengerInv

\* The trip and the passenger's name are filled in, and the dialog ends.
LEMMA OtherEntriesKeepPassenger ==
    ASSUME PassengerInv, FillClient \/ (\E round \in BOOLEAN : FillTrip(round)) \/ CreationSucceeds
    PROVE  PassengerInv'
<1>1. entry \in Entry /\ FormTypes /\ MatchesFollow /\ entry.round \in BOOLEAN /\ entry.routed \in BOOLEAN
  BY DEF PassengerInv, FormTypes, Entry
<1>2. CASE FillClient \/ \E round \in BOOLEAN : FillTrip(round)
  <2>1. entry' \in Entry /\ entry'.phone = entry.phone
    <3>1. /\ [entry EXCEPT !.named = TRUE] \in Entry
          /\ [entry EXCEPT !.named = TRUE].phone = entry.phone
      BY <1>1 DEF Entry
    <3>2. ASSUME NEW round \in BOOLEAN
          PROVE  /\ [entry EXCEPT !.routed = TRUE, !.round = round] \in Entry
                 /\ [entry EXCEPT !.routed = TRUE, !.round = round].phone = entry.phone
      BY <1>1 DEF Entry
    <3> QED
      BY <1>2, <3>1, <3>2 DEF FillClient, FillTrip
  <2>2. UNCHANGED <<clients, placed, matches, timer, searches, creation, mishaps>>
    BY <1>2 DEF FillClient, FillTrip
  <2>3. MatchesFollow'
    BY <1>1, <2>1, <2>2 DEF MatchesFollow, Fitting
  <2> QED
    BY <1>1, <2>1, <2>2, <2>3 DEF PassengerInv, FormTypes, ClientTyped
<1>3. CASE CreationSucceeds
  <2> DEFINE none == [NoCreation EXCEPT !.attempt = creation.attempt + 1]
             kept == [entry EXCEPT !.routed = FALSE, !.round = FALSE]
             again == [EmptyEntry EXCEPT !.routed = entry.routed, !.round = entry.round]
  <2>1. none \in Creation /\ none.step = "idle"
    <3>1. creation.attempt + 1 \in Nat
      BY <1>1 DEF FormTypes, Creation
    <3> QED
      BY <3>1 DEF Creation, Steps, NoCreation, Phones, Chosen
  <2>2. EmptyEntry \in Entry /\ kept \in Entry /\ again \in Entry
    BY <1>1 DEF Entry, EmptyEntry, Phones, Modes, Chosen
  <2>3. /\ creation' = none /\ UNCHANGED <<clients, placed, searches, mishaps>>
        /\ matches' \in {matches, {}} /\ (Change(EmptyEntry) \/ Change(kept) \/ Change(again))
    <3>1. CASE creation.then = "close"
      BY <1>3, <3>1 DEF CreationSucceeds
    <3>2. CASE creation.then = "another"
      BY <1>3, <3>2 DEF CreationSucceeds
    <3>3. CASE creation.then \notin {"close", "another"}
      BY <1>3, <3>3 DEF CreationSucceeds
    <3> QED
      BY <3>1, <3>2, <3>3
  <2> HIDE DEF none, kept, again
  <2>4. /\ entry' \in Entry /\ timer' \in Due \cup {Nothing} /\ matches' \subseteq Persons
        /\ MatchesFollow'
    BY <1>1, <2>2, <2>3, ChangeKeepsFollowing
  <2>5. FormTypes'
    BY <1>1, <2>1, <2>3, <2>4 DEF FormTypes
  <2>6. ClientTyped'
    BY <2>1, <2>3 DEF ClientTyped
  <2> QED
    BY <2>4, <2>5, <2>6 DEF PassengerInv
<1> QED
  BY <1>2, <1>3

\* The empty form.
LEMMA InitPassenger == OFInit => PassengerInv
<1> SUFFICES ASSUME OFInit PROVE PassengerInv
  OBVIOUS
<1>1. EmptyEntry \in Entry /\ NoCreation \in Creation /\ NoCreation.step = "idle"
  BY DEF EmptyEntry, Entry, NoCreation, Creation, Steps, Phones, Modes, Chosen
<1>2. searches \in Seq(Search) /\ placed \in Seq(Trip) /\ searches = <<>>
  BY DEF OFInit
<1>3. FormTypes
  BY <1>1, <1>2 DEF OFInit, FormTypes
<1>4. MatchesFollow
  BY <1>2 DEF OFInit, MatchesFollow
<1>5. ClientTyped
  BY <1>1 DEF OFInit, ClientTyped
<1> QED
  BY <1>3, <1>4, <1>5 DEF PassengerInv

\* The passenger in every step of the dialog.
LEMMA PassengerStep == PassengerInv /\ [OFNext]_ofVars => PassengerInv'
<1> SUFFICES ASSUME PassengerInv, [OFNext]_ofVars PROVE PassengerInv'
  OBVIOUS
<1>1. \A phone \in Phones : TypePhone(phone) => PassengerInv'
  BY TypingKeepsPassenger
<1>2. \A p \in Persons : PickClient(p) => PassengerInv'
  BY TypingKeepsPassenger
<1>3. PickAnother \/ AddNewClient \/ CloseForm => PassengerInv'
  BY TypingKeepsPassenger
<1>4. TimerFires => PassengerInv'
  BY TimerKeepsPassenger
<1>5. \A i \in DOMAIN searches : ServeSearch(i) => PassengerInv'
  BY ServingKeepsPassenger
<1>6. \A i \in DOMAIN searches : SearchArrives(i) => PassengerInv'
  BY ArrivalKeepsPassenger
<1>7. SearchFails => PassengerInv'
  BY FailureKeepsPassenger
<1>8. \A then \in {"close", "another", "mamash"} : Submit(then) => PassengerInv'
  BY SubmissionKeepsPassenger
<1>9. LookUpClient \/ RegisterClient \/ OrderRefused \/ CreationFails => PassengerInv'
  BY CallsKeepPassenger
<1>10. PlaceOrder => PassengerInv'
  BY PlacingKeepsPassenger
<1>11. FillClient \/ (\E round \in BOOLEAN : FillTrip(round)) \/ CreationSucceeds => PassengerInv'
  BY OtherEntriesKeepPassenger
<1>12. UNCHANGED ofVars => PassengerInv'
  BY DEF ofVars, PassengerInv, FormTypes, MatchesFollow, ClientTyped, Fitting
<1> QED
  BY <1>1, <1>2, <1>3, <1>4, <1>5, <1>6, <1>7, <1>8, <1>9, <1>10, <1>11, <1>12 DEF OFNext

\* An order submitted when the search had settled is for the person whose phone
\* is in the form, for any number of persons and of searches in flight.
THEOREM OrdersAreForTheTyped == OFSpec => OrderIsForTypedPhone
<1>1. OFInit => PassengerInv
  BY InitPassenger
<1>2. PassengerInv /\ [OFNext]_ofVars => PassengerInv'
  BY PassengerStep
<1>3. PassengerInv /\ [OFNext]_ofVars =>
        [placed' # placed /\ creation.settled =>
           creation.phone = Partial \/ placed'[Len(placed')].client = creation.phone]_ofVars
  <2> SUFFICES ASSUME PassengerInv, OFNext, placed' # placed, creation.settled
               PROVE  creation.phone = Partial \/ placed'[Len(placed')].client = creation.phone
    BY SMTT(30) DEF ofVars
  <2>1. PlaceOrder
    BY DEF OFNext, TypePhone, TimerFires, SearchFails, ServeSearch, SearchArrives, PickClient,
           PickAnother, AddNewClient, FillClient, CloseForm, FillTrip, Submit, LookUpClient,
           RegisterClient, OrderRefused, CreationSucceeds, CreationFails
  <2>2. placed'[Len(placed')].client = creation.client /\ creation.step \in {"there", "back"}
    BY <2>1, OrderIsAdded DEF PassengerInv
  <2> QED
    BY <2>2 DEF PassengerInv, ClientTyped
<1> QED
  BY <1>1, <1>2, <1>3, PTL DEF OFSpec, OrderIsForTypedPhone

Early == {"idle", "lookup", "register", "there"}

\* A creation that has made no order it knows of.
Fresh(c) == c.step \in Early \/ (c.step = "failed" /\ ~c.wrote)

\* While every answer was heard and no round trip was left half done, no two orders
\* are the same way of the same attempt, and the present attempt has made only what
\* its step says.
TripsInv ==
    /\ mishaps \cap {"unheard", "half"} = {} =>
         /\ \A i, j \in DOMAIN placed : i # j /\ placed[i].attempt = placed[j].attempt =>
                placed[i].way # placed[j].way
         /\ \A i \in DOMAIN placed : placed[i].attempt <= creation.attempt
         /\ Fresh(creation) => \A i \in DOMAIN placed : placed[i].attempt # creation.attempt
         /\ creation.step = "back" =>
              \A i \in DOMAIN placed : placed[i].attempt = creation.attempt => placed[i].way = "there"
    /\ \A i \in DOMAIN placed : placed[i].way = "back" =>
         \E j \in 1..(i - 1) : /\ placed[j].client = placed[i].client /\ placed[j].way = "there"
                               /\ placed[j].attempt = placed[i].attempt
    /\ creation.step = "back" =>
         /\ creation.wrote
         /\ \E j \in DOMAIN placed : /\ placed[j].client = creation.client /\ placed[j].way = "there"
                                     /\ placed[j].attempt = creation.attempt
    /\ creation.step \in Early => ~creation.wrote

\* The steps of a creation that place no order.
LEMMA TripsRest ==
    ASSUME TripsInv, UNCHANGED placed, mishaps \subseteq mishaps', creation'.attempt = creation.attempt,
           creation'.step # "back", creation'.step \in Early => ~creation'.wrote,
           Fresh(creation') => Fresh(creation) \/ "half" \in mishaps'
    PROVE  TripsInv'
<1>1. mishaps' \cap {"unheard", "half"} = {} => mishaps \cap {"unheard", "half"} = {} /\ "half" \notin mishaps'
  OBVIOUS
<1>2. Fresh(creation)' = Fresh(creation')
  BY DEF Fresh
<1> QED
  BY <1>1, <1>2 DEF TripsInv

\* A creation goes on without an order, or starts, or ends.
LEMMA CallsKeepTrips ==
    ASSUME FormTypes, TripsInv,
           \/ \E then \in {"close", "another", "mamash"} : Submit(then)
           \/ LookUpClient \/ RegisterClient \/ OrderRefused \/ CreationFails
    PROVE  TripsInv'
<1>1. creation \in Creation /\ creation.wrote \in BOOLEAN
  BY DEF FormTypes, Creation
<1>2. ASSUME NEW then \in {"close", "another", "mamash"}, Submit(then) PROVE TripsInv'
  <2>1. /\ creation.step = "idle" /\ creation'.step \in {"there", "lookup"} /\ ~creation'.wrote
        /\ creation'.attempt = creation.attempt /\ UNCHANGED <<placed, mishaps>>
    BY <1>2 DEF Submit, CanSubmit
  <2> QED
    BY <2>1, TripsRest DEF Fresh, Early
<1>3. ASSUME NEW s \in {"there", "register", "failed"}, creation.step \in {"lookup", "register"},
             \/ creation' = [creation EXCEPT !.step = s]
             \/ creation' = [creation EXCEPT !.step = s, !.client = creation.phone],
             UNCHANGED <<placed, mishaps>>
      PROVE  TripsInv'
  <2>1. creation'.step = s /\ creation'.wrote = creation.wrote /\ creation'.attempt = creation.attempt
    BY <1>1, <1>3 DEF Creation
  <2>2. ~creation.wrote
    BY <1>3 DEF TripsInv, Early
  <2> QED
    BY <1>3, <2>1, <2>2, TripsRest DEF Fresh, Early
<1>4. LookUpClient => TripsInv'
  <2> SUFFICES ASSUME LookUpClient PROVE TripsInv'
    OBVIOUS
  <2>1. creation.step = "lookup" /\ UNCHANGED <<placed, mishaps>>
    BY DEF LookUpClient
  <2>2. \/ creation' = [creation EXCEPT !.step = "there", !.client = creation.phone]
        \/ creation' = [creation EXCEPT !.step = "register"]
        \/ creation' = [creation EXCEPT !.step = "failed"]
    BY DEF LookUpClient
  <2> QED
    BY <1>3, <2>1, <2>2
<1>5. RegisterClient => TripsInv'
  <2> SUFFICES ASSUME RegisterClient PROVE TripsInv'
    OBVIOUS
  <2>1. creation.step = "register" /\ UNCHANGED <<placed, mishaps>>
    BY DEF RegisterClient
  <2>2. \/ creation' = [creation EXCEPT !.step = "there", !.client = creation.phone]
        \/ creation' = [creation EXCEPT !.step = "failed"]
    BY DEF RegisterClient
  <2> QED
    BY <1>3, <2>1, <2>2
<1>6. OrderRefused => TripsInv'
  <2> SUFFICES ASSUME OrderRefused PROVE TripsInv'
    OBVIOUS
  <2>1. /\ creation.step \in {"there", "back"} /\ creation' = [creation EXCEPT !.step = "failed"]
        /\ UNCHANGED <<placed, mishaps>>
    BY DEF OrderRefused
  <2>2. creation'.step = "failed" /\ creation'.wrote = creation.wrote /\ creation'.attempt = creation.attempt
    BY <1>1, <2>1 DEF Creation
  <2>3. creation.step = "back" => creation.wrote
    BY DEF TripsInv
  <2> QED
    BY <2>1, <2>2, <2>3, TripsRest DEF Fresh, Early
<1>7. CreationFails => TripsInv'
  <2> SUFFICES ASSUME CreationFails PROVE TripsInv'
    OBVIOUS
  <2>1. /\ creation.step = "failed" /\ creation' = [NoCreation EXCEPT !.attempt = creation.attempt]
        /\ UNCHANGED placed /\ mishaps' = IF creation.wrote THEN mishaps \cup {"half"} ELSE mishaps
    BY DEF CreationFails
  <2>2. creation'.step = "idle" /\ ~creation'.wrote /\ creation'.attempt = creation.attempt
    BY <2>1 DEF NoCreation
  <2>3. mishaps \subseteq mishaps' /\ (creation.wrote => "half" \in mishaps')
    BY <2>1
  <2> QED
    BY <2>1, <2>2, <2>3, TripsRest DEF Fresh, Early
<1> QED
  BY <1>2, <1>4, <1>5, <1>6, <1>7

\* The next attempt has made nothing.
LEMMA SuccessKeepsTrips == ASSUME FormTypes, TripsInv, CreationSucceeds PROVE TripsInv'
<1>1. creation.attempt \in Nat /\ placed \in Seq(Trip)
  BY DEF FormTypes, Creation
<1>2. /\ creation' = [NoCreation EXCEPT !.attempt = creation.attempt + 1]
      /\ UNCHANGED <<placed, mishaps>>
  BY DEF CreationSucceeds
<1> DEFINE k == creation.attempt + 1
<1>3. creation'.step = "idle" /\ ~creation'.wrote /\ creation'.attempt = k
  <2>1. creation' = [NoCreation EXCEPT !.attempt = k]
    BY <1>2
  <2> HIDE DEF k
  <2> QED
    BY <2>1 DEF NoCreation
<1>4. \A i \in DOMAIN placed : placed[i].attempt \in Nat
  <2>1. \A i \in DOMAIN placed : placed[i] \in Trip
    BY <1>1
  <2> QED
    BY <2>1 DEF Trip
<1>5. \A i \in DOMAIN placed : placed[i].attempt <= creation.attempt =>
         placed[i].attempt <= creation.attempt + 1 /\ placed[i].attempt # creation.attempt + 1
  BY <1>1, <1>4
<1> QED
  BY <1>2, <1>3, <1>5 DEF TripsInv, Early, Fresh

\* An order is the first of its way for the attempt, and a way back follows its way there.
LEMMA PlacingKeepsTrips == ASSUME FormTypes, TripsInv, PlaceOrder PROVE TripsInv'
<1> DEFINE n == Len(placed)
           new == placed'[Len(placed')]
<1>1. /\ placed' \in Seq(Trip) /\ Len(placed') = n + 1
      /\ \A i \in 1..n : placed'[i] = placed[i]
      /\ new.client = creation.client /\ new.way = creation.step /\ new.attempt = creation.attempt
      /\ creation' \in Creation /\ creation'.attempt = creation.attempt /\ creation'.client = creation.client
      /\ \/ /\ creation'.wrote /\ mishaps' = mishaps
            /\ creation'.step = IF creation.step = "there" /\ creation.round THEN "back" ELSE "done"
         \/ creation'.step = "failed" /\ ~creation'.wrote /\ mishaps' = mishaps \cup {"unheard"}
      /\ creation.step \in {"there", "back"}
  BY OrderIsAdded
<1>2. n \in Nat /\ DOMAIN placed = 1..n /\ DOMAIN placed' = 1..(n + 1) /\ creation.attempt \in Nat
      /\ new = placed'[n + 1]
  BY <1>1 DEF FormTypes, Creation
<1> HIDE DEF n, new
<1>3. \A i \in 1..(n + 1) :
         (i \in 1..n /\ placed'[i] = placed[i]) \/ (i = n + 1 /\ placed'[i] = new)
  <2>1. \A i \in 1..(n + 1) : i \in 1..n \/ i = n + 1
    BY <1>2
  <2> QED
    BY <1>1, <1>2, <2>1
<1>4. ASSUME mishaps' \cap {"unheard", "half"} = {}
      PROVE  /\ \A i, j \in 1..(n + 1) : i # j /\ placed'[i].attempt = placed'[j].attempt =>
                    placed'[i].way # placed'[j].way
             /\ \A i \in 1..(n + 1) : placed'[i].attempt <= creation'.attempt
             /\ ~Fresh(creation')
             /\ creation'.step = "back" => \A i \in 1..(n + 1) :
                    placed'[i].attempt = creation'.attempt => placed'[i].way = "there"
  <2>1. /\ mishaps' = mishaps /\ creation'.wrote
        /\ creation'.step = IF creation.step = "there" /\ creation.round THEN "back" ELSE "done"
    BY <1>1, <1>4
  <2>2. /\ \A i, j \in 1..n : i # j /\ placed[i].attempt = placed[j].attempt => placed[i].way # placed[j].way
        /\ \A i \in 1..n : placed[i].attempt <= creation.attempt
    BY <1>2, <1>4, <2>1 DEF TripsInv
  <2>3. \A i \in 1..n : placed[i].attempt = creation.attempt =>
            creation.step # "there" /\ placed[i].way = "there"
    <3>1. creation.step = "there" => Fresh(creation)
      BY DEF Fresh, Early
    <3> QED
      BY <1>1, <1>2, <1>4, <2>1, <3>1 DEF TripsInv
  <2>4. \A i \in 1..n : placed[i].attempt = new.attempt => placed[i].way # new.way
    BY <1>1, <2>3
  <2>5. \A i, j \in 1..(n + 1) : i # j /\ placed'[i].attempt = placed'[j].attempt =>
            placed'[i].way # placed'[j].way
    BY <1>3, <2>2, <2>4
  <2>6. \A i \in 1..(n + 1) : placed'[i].attempt <= creation'.attempt
    BY <1>1, <1>2, <1>3, <2>2
  <2>7. ~Fresh(creation')
    BY <2>1 DEF Fresh, Early
  <2>8. creation'.step = "back" => \A i \in 1..(n + 1) :
            placed'[i].attempt = creation'.attempt => placed'[i].way = "there"
    BY <1>1, <1>3, <2>1, <2>3
  <2> QED
    BY <2>5, <2>6, <2>7, <2>8
<1>5. ASSUME NEW i \in 1..(n + 1), placed'[i].way = "back"
      PROVE  \E j \in 1..(i - 1) : /\ placed'[j].client = placed'[i].client /\ placed'[j].way = "there"
                                   /\ placed'[j].attempt = placed'[i].attempt
  <2>1. CASE i \in 1..n /\ placed'[i] = placed[i]
    <3>1. PICK j \in 1..(i - 1) : /\ placed[j].client = placed[i].client /\ placed[j].way = "there"
                                  /\ placed[j].attempt = placed[i].attempt
      BY <1>2, <1>5, <2>1 DEF TripsInv
    <3>2. j \in 1..n
      BY <1>2, <2>1
    <3> QED
      BY <1>1, <2>1, <3>1, <3>2
  <2>2. CASE i = n + 1 /\ placed'[i] = new
    <3>1. creation.step = "back"
      BY <1>1, <1>5, <2>2
    <3>2. PICK j \in 1..n : /\ placed[j].client = creation.client /\ placed[j].way = "there"
                            /\ placed[j].attempt = creation.attempt
      BY <1>2, <3>1 DEF TripsInv
    <3>3. j \in 1..(i - 1)
      BY <1>2, <2>2
    <3> QED
      BY <1>1, <2>2, <3>2, <3>3
  <2> QED
    BY <1>3, <2>1, <2>2
<1>6. ASSUME creation'.step = "back"
      PROVE  /\ creation'.wrote
             /\ \E j \in 1..(n + 1) : /\ placed'[j].client = creation'.client /\ placed'[j].way = "there"
                                      /\ placed'[j].attempt = creation'.attempt
  <2>1. creation.step = "there" /\ creation'.wrote
    BY <1>1, <1>6
  <2>2. n + 1 \in 1..(n + 1)
    BY <1>2
  <2> QED
    BY <1>1, <1>2, <2>1, <2>2
<1>7. creation'.step \notin Early
  BY <1>1 DEF Early
<1>8. Fresh(creation)' = Fresh(creation')
  BY DEF Fresh
<1> QED
  BY <1>2, <1>4, <1>5, <1>6, <1>7, <1>8 DEF TripsInv

\* No trip is ordered twice without a lost answer or a half-done round trip, and a
\* way back follows its way there, for any number of attempts.
THEOREM NoTripIsDoubled == OFSpec => []NoTripTwice
<1>1. OFInit => PassengerInv /\ TripsInv
  <2>1. OFInit => TripsInv
    BY DEF OFInit, TripsInv, NoCreation, Fresh, Early
  <2> QED
    BY <2>1, InitPassenger
<1>2. PassengerInv /\ TripsInv /\ [OFNext]_ofVars => (PassengerInv /\ TripsInv)'
  <2> SUFFICES ASSUME PassengerInv, TripsInv, [OFNext]_ofVars PROVE TripsInv'
    BY PassengerStep
  <2>1. FormTypes
    BY DEF PassengerInv
  <2>2. ASSUME UNCHANGED <<placed, creation>>, mishaps \subseteq mishaps' PROVE TripsInv'
    <3>1. mishaps' \cap {"unheard", "half"} = {} => mishaps \cap {"unheard", "half"} = {}
      BY <2>2
    <3>2. Fresh(creation)' = Fresh(creation)
      BY <2>2 DEF Fresh
    <3> QED
      BY <2>2, <3>1, <3>2 DEF TripsInv
  <2>3. (\E phone \in Phones : TypePhone(phone)) \/ TimerFires \/ SearchFails
           \/ (\E i \in DOMAIN searches : ServeSearch(i) \/ SearchArrives(i))
        => UNCHANGED <<placed, creation>> /\ mishaps \subseteq mishaps'
    BY DEF TypePhone, TimerFires, SearchFails, ServeSearch, SearchArrives
  <2>4. (\E p \in Persons : PickClient(p)) \/ PickAnother \/ AddNewClient \/ FillClient \/ CloseForm
           \/ (\E round \in BOOLEAN : FillTrip(round)) \/ UNCHANGED ofVars
        => UNCHANGED <<placed, creation>> /\ mishaps \subseteq mishaps'
    BY DEF PickClient, PickAnother, AddNewClient, FillClient, CloseForm, FillTrip, ofVars
  <2>5. (\E then \in {"close", "another", "mamash"} : Submit(then))
           \/ LookUpClient \/ RegisterClient \/ OrderRefused \/ CreationFails => TripsInv'
    BY <2>1, CallsKeepTrips
  <2>6. PlaceOrder => TripsInv'
    BY <2>1, PlacingKeepsTrips
  <2>7. CreationSucceeds => TripsInv'
    BY <2>1, SuccessKeepsTrips
  <2> QED
    BY <2>2, <2>3, <2>4, <2>5, <2>6, <2>7 DEF OFNext
<1>3. PassengerInv /\ TripsInv => NoTripTwice
  <2> SUFFICES ASSUME PassengerInv, TripsInv PROVE NoTripTwice
    OBVIOUS
  <2>1. \A i \in DOMAIN placed : placed[i] \in Trip /\ \A j \in 1..(i - 1) : j \in DOMAIN placed
    BY DEF PassengerInv, FormTypes
  <2>2. ASSUME NEW r \in Trip, NEW q \in Trip, q.client = r.client, q.way = "there", q.attempt = r.attempt
        PROVE  q = [r EXCEPT !.way = "there"]
    BY <2>2 DEF Trip
  <2>3. \A i \in DOMAIN placed : placed[i].way = "back" =>
            \E j \in 1..(i - 1) : placed[j] = [placed[i] EXCEPT !.way = "there"]
    BY <2>1, <2>2 DEF TripsInv
  <2> QED
    BY <2>3 DEF TripsInv, NoTripTwice
<1> QED
  BY <1>1, <1>2, <1>3, PTL DEF OFSpec

-----------------------------------------------------------------------------
(* The list and its dialogs                                                  *)

Listed == [status: OrderStatus, time: {0, 1}, driver: Drivers \cup {None}, ver: Nat]
Rows == UNION {[D -> Listed] : D \in SUBSET Ids}
ListLoad == [filter: Filters, page: Nat, rows: Rows \cup {None}]
Cand == [order: Ids, drivers: {None} \cup SUBSET Drivers]
List == [rows: Rows, of: (Filters \X Nat) \cup {None}, filter: Filters, page: Nat, loading: BOOLEAN]

DialogFields == {"kind", "order", "form", "cands", "busy", "crowded"}
WorkFields == {"step", "order", "snap", "form", "filter", "page", "wrote"}

TableTypes ==
    /\ server \in Seq(Listed) /\ Len(server) <= MaxOrders /\ mine \in [Ids -> Nat]
    /\ list \in List /\ loads \in Seq(ListLoad) /\ cands \in Seq(Cand)
    /\ DOMAIN list.rows \subseteq Known
    /\ \A i \in DOMAIN loads : loads[i].rows # None => DOMAIN loads[i].rows \subseteq Known

IsForm(f) == DOMAIN f = {"status", "time", "day"} /\ f.time \in {0, 1, None}

DialogTypes ==
    /\ DOMAIN dialog = DialogFields
    /\ dialog.kind = "edit" => IsForm(dialog.form)
    /\ dialog.kind \in {"edit", "assign"} => dialog.order \in Ids
    /\ DOMAIN work = Handlers /\ \A h \in Handlers : DOMAIN work[h] = WorkFields
    /\ \A h \in Handlers : work[h].step # "idle" => work[h].filter \in Filters /\ work[h].page \in Nat
    /\ \A h \in {"edit", "assign"} : work[h].step # "idle" => work[h].order \in Known
    /\ work["edit"].step # "idle" => IsForm(work["edit"].form) /\ IsForm(work["edit"].snap)
    /\ work["edit"].step = "patch" =>
         work["edit"].form.time \in {0, 1} /\ Touched(work["edit"])
    /\ work["assign"].step # "idle" => work["assign"].form \in Drivers \cup {None}

ScreenTypes == TableTypes /\ DialogTypes

LEMMA KnownOrders == ASSUME TableTypes PROVE Known \subseteq Ids /\ Known = DOMAIN server
BY OrdersScreenAssumption DEF TableTypes, Known, Ids

\* The server's answer has rows of the table.
LEMMA AnswerIsKnown ==
    ASSUME TableTypes, NEW filter \in Filters, NEW page \in Nat
    PROVE  /\ Answer(filter, page) \in Rows /\ DOMAIN Answer(filter, page) \subseteq Known
           /\ \A o \in DOMAIN Answer(filter, page) : Answer(filter, page)[o] = server[o]
<1> DEFINE S == DOMAIN Answer(filter, page)
<1>1. S \subseteq Known /\ Answer(filter, page) = [o \in S |-> server[o]]
  BY DEF Answer
<1> HIDE DEF S
<1>2. Known \subseteq Ids /\ \A o \in Known : server[o] \in Listed
  BY KnownOrders DEF TableTypes
<1>3. [o \in S |-> server[o]] \in [S -> Listed] /\ S \in SUBSET Ids
  BY <1>1, <1>2
<1> QED
  BY <1>1, <1>3 DEF Rows, S

\* The page as it is opened.
LEMMA InitScreenTypes == OSInit => ScreenTypes
<1> SUFFICES ASSUME OSInit PROVE ScreenTypes
  OBVIOUS
<1>1. server \in Seq(Listed) /\ Len(server) <= MaxOrders
  <2>1. \A o \in 1..InitialCount : server[o] \in Listed
    BY OrdersScreenAssumption DEF OSInit, Listed
  <2>2. server \in [1..InitialCount -> Listed]
    BY <2>1 DEF OSInit
  <2> QED
    BY <2>2, OrdersScreenAssumption
<1>2. <<>> \in Rows /\ DOMAIN <<>> = {}
  <2>1. <<>> \in [{} -> Listed]
    OBVIOUS
  <2> QED
    BY <2>1 DEF Rows
<1>3. list \in List
  <2>1. "all" \in Filters /\ 1 \in Nat
    BY OrdersScreenAssumption
  <2> QED
    BY <1>2, <2>1 DEF OSInit, List
<1>4. loads \in Seq(ListLoad) /\ \A i \in DOMAIN loads : loads[i].rows = None
  <2>1. Load("all", 1) \in ListLoad
    BY OrdersScreenAssumption DEF Load, ListLoad
  <2> QED
    BY <2>1 DEF OSInit, Load
<1>5. TableTypes
  BY <1>1, <1>2, <1>3, <1>4 DEF OSInit, TableTypes
<1>6. DialogTypes
  BY OrdersScreenAssumption
     DEF OSInit, DialogTypes, NoDialog, Idle, Handlers, DialogFields, WorkFields
<1> QED
  BY <1>5, <1>6 DEF ScreenTypes

\* A request for the list joins the others.
LEMMA LoadJoins ==
    ASSUME TableTypes, NEW f \in Filters, NEW p \in Nat, NEW q \in Seq(ListLoad)
    PROVE  /\ Append(q, Load(f, p)) \in Seq(ListLoad) /\ Load(f, p) \in ListLoad
           /\ Len(Append(q, Load(f, p))) = Len(q) + 1
           /\ Append(q, Load(f, p))[Len(q) + 1] = Load(f, p)
           /\ \A i \in 1..Len(q) : Append(q, Load(f, p))[i] = q[i]
           /\ Load(f, p).filter = f /\ Load(f, p).page = p /\ Load(f, p).rows = None
<1>1. Load(f, p) \in ListLoad /\ Load(f, p).filter = f /\ Load(f, p).page = p /\ Load(f, p).rows = None
  BY DEF Load, ListLoad
<1> QED
  BY <1>1

\* A change of the table leaves the rows that are shown or under way among its orders.
LEMMA TableGrows ==
    ASSUME TableTypes, server' \in Seq(Listed), Len(server') >= Len(server), Len(server') <= MaxOrders,
           mine' \in [Ids -> Nat], UNCHANGED <<list, loads, cands>>
    PROVE  TableTypes'
<1>1. Known \subseteq Known'
  BY OrdersScreenAssumption DEF TableTypes, Known
<1> QED
  BY <1>1 DEF TableTypes

\* A reload, or a change of filter or page.
LEMMA ReloadKeepsTable ==
    ASSUME TableTypes, NEW q \in Seq(ListLoad), loads' = q, UNCHANGED <<server, mine, cands>>,
           list' \in List, list'.rows = list.rows,
           \A i \in DOMAIN q : q[i].rows # None => DOMAIN q[i].rows \subseteq Known
    PROVE  TableTypes'
BY DEF TableTypes, Known

\* A request that is sent has no rows yet.
LEMMA SentKeepsTable ==
    ASSUME TableTypes, NEW f \in Filters, NEW p \in Nat, loads' = Append(loads, Load(f, p)),
           UNCHANGED <<server, mine, cands>>, list' \in List, list'.rows = list.rows
    PROVE  TableTypes'
<1>1. loads \in Seq(ListLoad) /\ DOMAIN loads = 1..Len(loads)
  BY DEF TableTypes
<1>2. /\ loads' \in Seq(ListLoad) /\ Len(loads') = Len(loads) + 1
      /\ loads'[Len(loads) + 1].rows = None /\ \A i \in 1..Len(loads) : loads'[i] = loads[i]
  BY <1>1, LoadJoins
<1>3. \A i \in DOMAIN loads' : i \in DOMAIN loads \/ i = Len(loads) + 1
  BY <1>1, <1>2
<1>4. \A i \in DOMAIN loads' : loads'[i].rows # None => DOMAIN loads'[i].rows \subseteq Known
  BY <1>1, <1>2, <1>3 DEF TableTypes
<1> QED
  BY <1>2, <1>4, ReloadKeepsTable

\* What is asked of the page.
LEMMA AskingKeepsTable ==
    ASSUME ScreenTypes, (\E f \in Filters : SetFilter(f)) \/ TurnPage PROVE TableTypes'
<1>1. TableTypes /\ list \in List /\ list.filter \in Filters /\ list.page \in Nat /\ loads \in Seq(ListLoad)
  BY DEF ScreenTypes, TableTypes, List
<1>2. ASSUME NEW f \in Filters, SetFilter(f) PROVE TableTypes'
  <2>1. list' = [Loading EXCEPT !.filter = f, !.page = 1] /\ UNCHANGED <<server, mine, cands>>
    BY <1>2 DEF SetFilter
  <2>2. list' \in List /\ list'.rows = list.rows
    BY <1>1, <2>1 DEF List, Loading
  <2>3. CASE loads' = loads \o <<Load(f, 1)>>
    <3>1. loads' = Append(loads, Load(f, 1))
      BY <1>1, <2>3, AppendProperties DEF TableTypes
    <3> QED
      BY <1>1, <2>1, <2>2, <3>1, SentKeepsTable
  <2>4. CASE loads' = loads \o <<Load(f, list.page), Load(f, 1)>>
    <3> DEFINE q == Append(loads, Load(f, list.page))
    <3>1. loads' = Append(q, Load(f, 1))
      BY <1>1, <2>4 DEF TableTypes
    <3>2. q \in Seq(ListLoad) /\ Len(q) = Len(loads) + 1 /\ q[Len(loads) + 1].rows = None
          /\ \A i \in 1..Len(loads) : q[i] = loads[i]
      BY <1>1, LoadJoins
    <3> HIDE DEF q
    <3>3. /\ loads' \in Seq(ListLoad) /\ Len(loads') = Len(q) + 1 /\ loads'[Len(q) + 1].rows = None
          /\ \A i \in 1..Len(q) : loads'[i] = q[i]
      BY <1>1, <3>1, <3>2, LoadJoins
    <3>4. DOMAIN loads' = 1..(Len(loads) + 2) /\ DOMAIN loads = 1..Len(loads) /\ Len(loads) \in Nat
      BY <1>1, <3>2, <3>3
    <3>5. ASSUME NEW i \in DOMAIN loads', loads'[i].rows # None PROVE DOMAIN loads'[i].rows \subseteq Known
      <4>1. i \in DOMAIN loads \/ i = Len(loads) + 1 \/ i = Len(loads) + 2
        BY <3>4
      <4>2. i \in DOMAIN loads
        BY <3>2, <3>3, <3>4, <3>5, <4>1
      <4>3. i \in 1..Len(q) /\ i \in 1..Len(loads)
        BY <3>2, <3>4, <4>2
      <4> QED
        BY <1>1, <3>2, <3>3, <3>5, <4>2, <4>3 DEF TableTypes
    <3> QED
      BY <1>1, <2>1, <2>2, <3>3, <3>5, ReloadKeepsTable
  <2> QED
    BY <1>2, <2>3, <2>4 DEF SetFilter
<1>3. ASSUME NEW p \in Nat, TurnTo(p) PROVE TableTypes'
  <2>1. /\ list' = [Loading EXCEPT !.page = p] /\ loads' = Append(loads, Load(list.filter, p))
        /\ UNCHANGED <<server, mine, cands>>
    BY <1>3 DEF TurnTo
  <2>2. list' \in List /\ list'.rows = list.rows
    BY <1>1, <2>1 DEF List, Loading
  <2> QED
    BY <1>1, <2>1, <2>2, SentKeepsTable
<1>4. TurnPage => \E p \in Nat : TurnTo(p)
  <2>1. list.page + 1 \in Nat /\ (CanTurnBack => list.page - 1 \in Nat)
    BY <1>1 DEF CanTurnBack
  <2> QED
    BY <2>1 DEF TurnPage
<1> QED
  BY <1>2, <1>3, <1>4

\* The list is served, answered, or lost.
LEMMA ListAnswersKeepTable ==
    ASSUME ScreenTypes, NEW i \in DOMAIN loads, ServeLoad(i) \/ LoadArrives(i) PROVE TableTypes'
<1>1. /\ TableTypes /\ list \in List /\ loads \in Seq(ListLoad) /\ i \in 1..Len(loads) /\ loads[i] \in ListLoad
      /\ DOMAIN loads = 1..Len(loads) /\ cands \in Seq(Cand)
  BY DEF ScreenTypes, TableTypes
<1>2. CASE ServeLoad(i)
  <2> DEFINE rows == Answer(loads[i].filter, loads[i].page)
             l == [loads[i] EXCEPT !.rows = rows]
  <2>1. rows \in Rows /\ DOMAIN rows \subseteq Known
    BY <1>1, AnswerIsKnown DEF ListLoad
  <2> HIDE DEF rows
  <2>2. l \in ListLoad /\ l.rows = rows
    BY <1>1, <2>1 DEF ListLoad
  <2> HIDE DEF l
  <2>3. loads' = [loads EXCEPT ![i] = l] /\ UNCHANGED <<server, mine, list, cands>>
    BY <1>2 DEF ServeLoad, l, rows
  <2>4. loads' \in Seq(ListLoad) /\ DOMAIN loads' = DOMAIN loads
    BY <1>1, <2>2, <2>3
  <2>5. \A j \in DOMAIN loads' : loads'[j].rows # None => DOMAIN loads'[j].rows \subseteq Known
    BY <1>1, <2>1, <2>2, <2>3, <2>4 DEF TableTypes
  <2> QED
    BY <1>1, <2>3, <2>4, <2>5, ReloadKeepsTable
<1>3. CASE LoadArrives(i)
  <2>1. /\ loads[i].rows # None /\ loads' = Without(loads, i) /\ UNCHANGED <<server, mine>>
        /\ list' = [list EXCEPT !.rows = loads[i].rows, !.loading = FALSE,
                                !.of = <<loads[i].filter, loads[i].page>>]
        /\ cands' = AskedAgain(loads[i].rows)
    BY <1>3 DEF LoadArrives, Without
  <2>2. loads[i].rows \in Rows /\ loads[i].filter \in Filters /\ loads[i].page \in Nat
    BY <1>1, <2>1 DEF ListLoad
  <2>3. list' \in List /\ list'.rows = loads[i].rows
    BY <1>1, <2>1, <2>2 DEF List
  <2>4. /\ loads' \in Seq(ListLoad) /\ Len(loads') = Len(loads) - 1
        /\ \A j \in 1..(i - 1) : loads'[j] = loads[j]
        /\ \A j \in i..(Len(loads) - 1) : loads'[j] = loads[j + 1]
    BY <1>1, <2>1, AnsweredLeaves
  <2>5. \A j \in DOMAIN loads' : \E k \in DOMAIN loads : loads'[j] = loads[k]
    <3>1. ASSUME NEW j \in 1..(Len(loads) - 1) PROVE \E k \in 1..Len(loads) : loads'[j] = loads[k]
      <4>1. j \in 1..(i - 1) \/ j \in i..(Len(loads) - 1)
        BY <1>1
      <4>2. j \in 1..Len(loads) /\ j + 1 \in 1..Len(loads)
        BY <1>1
      <4> QED
        BY <2>4, <4>1, <4>2
    <3>2. DOMAIN loads' = 1..(Len(loads) - 1)
      BY <2>4
    <3> QED
      BY <1>1, <3>1, <3>2
  <2>6. \A j \in DOMAIN loads' : loads'[j].rows # None => DOMAIN loads'[j].rows \subseteq Known
    BY <1>1, <2>5 DEF TableTypes
  <2>7. cands' \in Seq(Cand)
    <3>1. dialog.kind = "assign" => dialog.order \in Ids
      BY DEF ScreenTypes, DialogTypes
    <3>2. \A o \in Ids : [order |-> o, drivers |-> None] \in Cand
      BY DEF Cand
    <3> QED
      BY <1>1, <2>1, <3>1, <3>2 DEF AskedAgain
  <2>8. DOMAIN list'.rows \subseteq Known
    BY <1>1, <2>1, <2>3 DEF TableTypes
  <2> QED
    BY <1>1, <2>1, <2>3, <2>4, <2>6, <2>7, <2>8 DEF TableTypes, Known
<1> QED
  BY <1>2, <1>3

LEMMA LossKeepsTable == ASSUME ScreenTypes, LoadFails PROVE TableTypes'
<1>1. /\ TableTypes /\ list \in List /\ loads \in Seq(ListLoad) /\ loads # <<>>
      /\ loads' = Tail(loads) /\ list' = [list EXCEPT !.loading = FALSE] /\ UNCHANGED <<server, mine, cands>>
  BY DEF ScreenTypes, TableTypes, LoadFails
<1>2. list' \in List /\ list'.rows = list.rows
  BY <1>1 DEF List
<1>3. loads' \in Seq(ListLoad) /\ \A j \in DOMAIN loads' : j + 1 \in DOMAIN loads /\ loads'[j] = loads[j + 1]
  BY <1>1
<1>4. \A j \in DOMAIN loads' : loads'[j].rows # None => DOMAIN loads'[j].rows \subseteq Known
  BY <1>1, <1>3 DEF TableTypes
<1> QED
  BY <1>1, <1>2, <1>3, <1>4, ReloadKeepsTable

\* The candidates of an order are asked for, served and taken up.
LEMMA CandidatesKeepTable ==
    ASSUME ScreenTypes,
           \/ \E o \in Known : OpenAssign(o)
           \/ \E i \in DOMAIN cands : ServeCandidates(i) \/ CandidatesArrive(i)
    PROVE  TableTypes'
<1>1. TableTypes /\ cands \in Seq(Cand) /\ DOMAIN cands = 1..Len(cands)
  BY DEF ScreenTypes, TableTypes
<1>2. ASSUME UNCHANGED <<server, mine, list, loads>>, cands' \in Seq(Cand) PROVE TableTypes'
  BY <1>1, <1>2 DEF TableTypes, Known
<1>3. ASSUME NEW o \in Known, OpenAssign(o) PROVE TableTypes'
  <2>1. [order |-> o, drivers |-> None] \in Cand
    BY <1>1, KnownOrders DEF Cand
  <2> QED
    <3>1. UNCHANGED <<server, mine, list, loads>> /\ cands' = Append(cands, [order |-> o, drivers |-> None])
      BY <1>3 DEF OpenAssign
    <3>2. cands' \in Seq(Cand)
      BY <1>1, <2>1, <3>1
    <3> QED
      BY <1>2, <3>1, <3>2
<1>4. ASSUME NEW i \in DOMAIN cands, ServeCandidates(i) PROVE TableTypes'
  <2>1. PICK D \in SUBSET Drivers : cands' = [cands EXCEPT ![i].drivers = D]
    BY <1>4 DEF ServeCandidates
  <2> DEFINE c == [cands[i] EXCEPT !.drivers = D]
  <2>2. c \in Cand
    <3>1. cands[i] \in Cand
      BY <1>1
    <3> QED
      BY <3>1 DEF Cand
  <2> HIDE DEF c
  <2>3. cands' = [cands EXCEPT ![i] = c]
    BY <2>1 DEF c
  <2> QED
    BY SMTT(30), <1>1, <1>2, <1>4, <2>2, <2>3 DEF ServeCandidates
<1>5. ASSUME NEW i \in DOMAIN cands, CandidatesArrive(i) PROVE TableTypes'
  <2>1. i \in 1..Len(cands) /\ cands' = Without(cands, i)
    BY <1>1, <1>5 DEF CandidatesArrive, Without
  <2>2. cands' \in Seq(Cand)
    BY <1>1, <2>1, AnsweredLeaves
  <2> QED
    BY ZenonT(60), <1>2, <1>5, <2>2 DEF CandidatesArrive
<1> QED
  BY <1>3, <1>4, <1>5

\* What the writes make of an order's row.
LEMMA WrittenRows ==
    ASSUME NEW r \in Listed
    PROVE  /\ \A s \in OrderStatus : LET q == [r EXCEPT !.status = s, !.ver = @ + 1]
                                     IN  q \in Listed /\ q.time = r.time /\ q.ver = r.ver + 1
           /\ \A t \in {0, 1} : LET q == [r EXCEPT !.time = t, !.ver = @ + 1]
                                 IN  q \in Listed /\ q.ver = r.ver + 1
           /\ \A d \in Drivers : LET q == [r EXCEPT !.status = "assigned", !.driver = d, !.ver = @ + 1]
                                  IN  q \in Listed /\ q.time = r.time /\ q.ver = r.ver + 1
<1>1. r.ver \in Nat /\ r.ver + 1 \in Nat /\ "assigned" \in OrderStatus
  BY DEF Listed, OrderStatus
<1> DEFINE v == r.ver + 1
<1>2. v \in Nat
  BY <1>1
<1> HIDE DEF v
<1>3. \A s \in OrderStatus : LET q == [r EXCEPT !.status = s, !.ver = v]
                            IN  q \in Listed /\ q.time = r.time /\ q.ver = v
  BY <1>2 DEF Listed
<1>4. \A t \in {0, 1} : LET q == [r EXCEPT !.time = t, !.ver = v] IN q \in Listed /\ q.ver = v
  BY <1>2 DEF Listed
<1>5. \A d \in Drivers : LET q == [r EXCEPT !.status = "assigned", !.driver = d, !.ver = v]
                         IN  q \in Listed /\ q.time = r.time /\ q.ver = v
  BY <1>1, <1>2 DEF Listed
<1> QED
  BY <1>3, <1>4, <1>5 DEF v

\* What a write makes of an order.
LEMMA WritesKeepTable ==
    ASSUME ScreenTypes, NEW h \in {"edit", "assign"}, NEW row \in Listed, NEW next,
           work[h].step # "idle", Commit(h, row, next), UNCHANGED <<list, loads, cands>>
    PROVE  TableTypes'
<1> DEFINE o == work[h].order
<1>1. /\ TableTypes /\ o \in Known /\ server \in Seq(Listed) /\ Known = 1..Len(server) /\ Known \subseteq Ids
      /\ mine \in [Ids -> Nat] /\ row.ver \in Nat
  BY KnownOrders DEF ScreenTypes, TableTypes, DialogTypes, Known, Listed
<1>2. server' = [server EXCEPT ![o] = row] /\ mine' = [mine EXCEPT ![o] = row.ver]
  BY DEF Commit
<1> HIDE DEF o
<1>3. server' \in Seq(Listed) /\ Len(server') = Len(server) /\ mine' \in [Ids -> Nat]
  BY <1>1, <1>2
<1>4. Len(server) \in Nat /\ Len(server') >= Len(server) /\ Len(server') <= MaxOrders
  BY <1>1, <1>3 DEF TableTypes
<1> QED
  BY <1>1, <1>3, <1>4, TableGrows

\* The orders change: elsewhere, by this page, by an import.
LEMMA OrdersKeepTable ==
    ASSUME ScreenTypes,
           \/ \E o \in Known : Elsewhere(o)
           \/ ServeStatus \/ ServePatch \/ ServeAssign \/ ServeImport
    PROVE  TableTypes'
<1>1. /\ TableTypes /\ server \in Seq(Listed) /\ Known = 1..Len(server) /\ mine \in [Ids -> Nat]
      /\ Len(server) \in Nat /\ Len(server) <= MaxOrders /\ \A o \in Known : server[o] \in Listed
  BY DEF ScreenTypes, TableTypes, Known
<1>2. ASSUME NEW o \in Known, Elsewhere(o) PROVE TableTypes'
  <2>1. PICK row \in Listed : server' = [server EXCEPT ![o] = row]
    <3>1. ASSUME NEW s \in OrderStatus PROVE [server[o] EXCEPT !.status = s, !.ver = @ + 1] \in Listed
      BY ZenonT(60), <1>1, WrittenRows
    <3>2. [server[o] EXCEPT !.time = 1 - @, !.ver = @ + 1] \in Listed
      <4>1. server[o] \in Listed
        BY <1>1
      <4>2. 1 - server[o].time \in {0, 1}
        BY <4>1 DEF Listed
      <4> QED
        BY <4>1, <4>2, WrittenRows
    <3>3. CASE \E s \in OrderStatus : server' = [server EXCEPT ![o].status = s, ![o].ver = @ + 1]
      <4>1. PICK s \in OrderStatus : server' = [server EXCEPT ![o].status = s, ![o].ver = @ + 1]
        BY <3>3
      <4>2. server' = [server EXCEPT ![o] = [server[o] EXCEPT !.status = s, !.ver = @ + 1]]
        BY <1>1, <4>1
      <4> QED
        BY <3>1, <4>2
    <3>4. CASE server' = [server EXCEPT ![o].time = 1 - @, ![o].ver = @ + 1]
      <4>1. server' = [server EXCEPT ![o] = [server[o] EXCEPT !.time = 1 - @, !.ver = @ + 1]]
        BY <1>1, <3>4
      <4> QED
        BY <3>2, <4>1
    <3> QED
      BY <1>2, <3>3, <3>4 DEF Elsewhere
  <2>2. server' \in Seq(Listed) /\ Len(server') = Len(server)
    BY <1>1, <2>1
  <2>3. UNCHANGED <<mine, list, loads, cands>>
    BY <1>2 DEF Elsewhere
  <2> QED
    BY <1>1, <2>2, <2>3, TableGrows
<1>3. ASSUME UNCHANGED <<server, mine, list, loads, cands>> PROVE TableTypes'
  BY <1>1, <1>3 DEF TableTypes, Known
<1>4. CASE ServeStatus
  <2> DEFINE w == work["edit"]
             to == BackendStatus(w.form.status)
             row == [server[w.order] EXCEPT !.status = to, !.ver = @ + 1]
  <2>1. CASE CanMove(server[w.order].status, to)
    <3>1. w.order \in Known /\ w.step # "idle"
      BY <1>4 DEF ServeStatus, ScreenTypes, DialogTypes
    <3>2. to \in OrderStatus
      BY <2>1 DEF CanMove, AllowedTransitions, OrderStatus
    <3> HIDE DEF to
    <3>3. row \in Listed
      BY <1>1, <3>1, <3>2, WrittenRows
    <3>4. Commit("edit", row, GoOn(w)) /\ UNCHANGED <<list, loads, cands>>
      BY <1>4, <2>1 DEF ServeStatus, to
    <3> HIDE DEF row
    <3> QED
      BY <3>1, <3>3, <3>4, WritesKeepTable
  <2>2. CASE ~CanMove(server[w.order].status, to)
    BY <1>3, <1>4, <2>2 DEF ServeStatus, Refuse
  <2> QED
    BY <2>1, <2>2
<1>5. CASE ServePatch
  <2> DEFINE w == work["edit"]
             row == PatchedTime(w.order, w.form)
  <2>1. CASE server[w.order].status \in {"created", "scheduled"}
    <3>1. w.order \in Known /\ w.step # "idle" /\ w.form.time \in {0, 1}
      BY <1>5 DEF ServePatch, ScreenTypes, DialogTypes
    <3>2. row \in Listed
      BY <1>1, <3>1, WrittenRows DEF PatchedTime
    <3>3. Commit("edit", row, "done") /\ UNCHANGED <<list, loads, cands>>
      BY <1>5, <2>1 DEF ServePatch
    <3> HIDE DEF row
    <3> QED
      BY <3>1, <3>2, <3>3, WritesKeepTable
  <2>2. CASE ~(server[w.order].status \in {"created", "scheduled"})
    BY <1>3, <1>5, <2>2 DEF ServePatch, Refuse
  <2> QED
    BY <2>1, <2>2
<1>6. CASE ServeAssign
  <2> DEFINE w == work["assign"]
  <2>1. CASE Refuse("assign")
    BY <1>3, <1>6, <2>1 DEF ServeAssign, Refuse
  <2>2. ASSUME NEW d \in (IF w.form = None THEN Drivers ELSE {w.form}),
               Commit("assign", [server[w.order] EXCEPT !.status = "assigned", !.driver = d, !.ver = @ + 1], "done")
        PROVE  TableTypes'
    <3> DEFINE row == [server[w.order] EXCEPT !.status = "assigned", !.driver = d, !.ver = @ + 1]
    <3>1. w.order \in Known /\ w.step # "idle" /\ w.form \in Drivers \cup {None}
      BY <1>6 DEF ServeAssign, ScreenTypes, DialogTypes
    <3>2. d \in Drivers /\ "assigned" \in OrderStatus
      BY <2>2, <3>1 DEF OrderStatus
    <3>3. row \in Listed
      BY ZenonT(60), <1>1, <3>1, <3>2, WrittenRows
    <3>4. Commit("assign", row, "done") /\ UNCHANGED <<list, loads, cands>>
      BY <1>6, <2>2 DEF ServeAssign
    <3> HIDE DEF row
    <3> QED
      BY <3>1, <3>3, <3>4, WritesKeepTable
  <2> QED
    BY <1>6, <2>1, <2>2 DEF ServeAssign
<1>7. CASE ServeImport
  <2> DEFINE row == [status |-> "created", time |-> 0, driver |-> None, ver |-> 0]
  <2>1. row \in Listed
    BY DEF Listed, OrderStatus
  <2> HIDE DEF row
  <2>2. CASE Len(server) < MaxOrders /\ server' = Append(server, row)
    <3>1. server' \in Seq(Listed) /\ Len(server') = Len(server) + 1
      BY <1>1, <2>1, <2>2
    <3>2. Len(server') >= Len(server) /\ Len(server') <= MaxOrders
      BY <1>1, <2>2, <3>1, OrdersScreenAssumption
    <3> QED
      BY <1>1, <1>7, <3>1, <3>2, TableGrows DEF ServeImport
  <2>3. CASE UNCHANGED server
    BY <1>3, <1>7, <2>3 DEF ServeImport
  <2> QED
    BY <1>7, <2>2, <2>3 DEF ServeImport, row
<1> QED
  BY <1>2, <1>4, <1>5, <1>6, <1>7

\* A handler that ends, with a reload or without.
LEMMA EndsKeepTable ==
    ASSUME ScreenTypes, SaveEnds \/ AssignEnds \/ ImportEnds PROVE TableTypes'
<1>1. TableTypes /\ list \in List
  BY DEF ScreenTypes, TableTypes
<1>2. ASSUME NEW h \in Handlers, work[h].step = "done",
             loads' = Append(loads, Load(work[h].filter, work[h].page)), list' = Loading,
             UNCHANGED <<server, mine, cands>>
      PROVE  TableTypes'
  <2>1. work[h].filter \in Filters /\ work[h].page \in Nat
    BY <1>2 DEF ScreenTypes, DialogTypes
  <2>2. list' \in List /\ list'.rows = list.rows
    BY <1>1, <1>2 DEF List, Loading
  <2> QED
    BY <1>1, <1>2, <2>1, <2>2, SentKeepsTable
<1>3. ASSUME UNCHANGED <<server, mine, list, loads, cands>> PROVE TableTypes'
  BY <1>1, <1>3 DEF TableTypes, Known
<1>4. CASE SaveEnds
  BY <1>2, <1>3, <1>4 DEF SaveEnds, Succeed, Handlers
<1>5. CASE AssignEnds
  BY <1>2, <1>3, <1>5 DEF AssignEnds, Succeed, Handlers
<1>6. CASE ImportEnds
  BY <1>2, <1>3, <1>6 DEF ImportEnds, Handlers
<1> QED
  BY <1>4, <1>5, <1>6

\* The table in every step of the page.
LEMMA TableStep == ScreenTypes /\ [OSNext]_osVars => TableTypes'
<1> SUFFICES ASSUME ScreenTypes, [OSNext]_osVars PROVE TableTypes'
  OBVIOUS
<1>1. ASSUME UNCHANGED <<server, mine, list, loads, cands>> PROVE TableTypes'
  BY <1>1 DEF ScreenTypes, TableTypes, Known
<1>2. \A o \in Known : OpenView(o) \/ OpenEdit(o) => UNCHANGED <<server, mine, list, loads, cands>>
  BY DEF OpenView, OpenEdit
<1>3. ImportOrders \/ EditField \/ CloseDialog \/ SaveOrder \/ CancelOrder \/ (\E d \in Drivers : PickDriver(d))
         \/ (\E d \in Drivers \cup {None} : AssignOrder(d)) \/ UNCHANGED osVars
      => UNCHANGED <<server, mine, list, loads, cands>>
  BY DEF ImportOrders, EditField, CloseDialog, SaveOrder, CancelOrder, PickDriver, AssignOrder, osVars
<1>4. \A o \in Known : Elsewhere(o) => TableTypes'
  BY OrdersKeepTable
<1>5. ServeStatus \/ ServePatch \/ ServeAssign \/ ServeImport => TableTypes'
  BY OrdersKeepTable
<1>6. (\E f \in Filters : SetFilter(f)) \/ TurnPage => TableTypes'
  BY AskingKeepsTable
<1>7. \A i \in DOMAIN loads : ServeLoad(i) \/ LoadArrives(i) => TableTypes'
  BY ListAnswersKeepTable
<1>8. LoadFails => TableTypes'
  BY LossKeepsTable
<1>9. (\E o \in Known : OpenAssign(o)) \/ (\E i \in DOMAIN cands : ServeCandidates(i) \/ CandidatesArrive(i))
        => TableTypes'
  BY CandidatesKeepTable
<1>10. SaveEnds \/ AssignEnds \/ ImportEnds => TableTypes'
  BY EndsKeepTable
<1> QED
  BY <1>1, <1>2, <1>3, <1>4, <1>5, <1>6, <1>7, <1>8, <1>9, <1>10 DEF OSNext

\* A dialog that opens, is filled in or closes, while no handler starts or ends.
LEMMA DialogChangesKeepTypes ==
    ASSUME ScreenTypes, UNCHANGED <<server, work>>, DOMAIN dialog' = DialogFields,
           dialog'.kind = "edit" => IsForm(dialog'.form),
           dialog'.kind \in {"edit", "assign"} => dialog'.order \in Ids
    PROVE  DialogTypes'
BY DEF ScreenTypes, DialogTypes, Known

\* A row fills the edit form.
LEMMA RowFillsForm == ASSUME NEW row \in Listed PROVE IsForm(FormOf(row))
BY DEF FormOf, Listed, IsForm

LEMMA ShownRows ==
    ASSUME TableTypes PROVE \A o \in DOMAIN list.rows : list.rows[o] \in Listed /\ o \in Known /\ o \in Ids
<1>1. list.rows \in Rows
  BY DEF TableTypes, List
<1> QED
  BY <1>1, KnownOrders DEF Rows, TableTypes

\* What the dispatcher does in the dialogs.
LEMMA DialogsKeepTypes ==
    ASSUME ScreenTypes,
           \/ \E o \in Known : OpenView(o) \/ OpenEdit(o) \/ OpenAssign(o)
           \/ EditField \/ CloseDialog \/ \E d \in Drivers : PickDriver(d)
    PROVE  DialogTypes'
<1>1. /\ TableTypes /\ DialogTypes /\ None \notin {"view", "edit", "assign", "import"}
      /\ DOMAIN NoDialog = DialogFields /\ NoDialog.kind = None
  BY OrdersScreenAssumption DEF ScreenTypes, NoDialog, DialogFields
<1>2. ASSUME NEW o \in Known, OpenView(o) PROVE DialogTypes'
  <2>1. dialog' = [NoDialog EXCEPT !.kind = "view", !.order = o] /\ UNCHANGED <<server, work>>
    BY <1>2 DEF OpenView
  <2>2. DOMAIN dialog' = DialogFields /\ dialog'.kind = "view"
    BY <2>1 DEF NoDialog, DialogFields
  <2> QED
    BY <2>1, <2>2, DialogChangesKeepTypes
<1>3. ASSUME NEW o \in Known, OpenEdit(o) PROVE DialogTypes'
  <2> DEFINE c == loads # <<>> \/ \E h \in Handlers : work[h] # Idle
  <2>1. /\ dialog' = [NoDialog EXCEPT !.kind = "edit", !.order = o, !.form = FormOf(list.rows[o]), !.crowded = c]
        /\ UNCHANGED <<server, work>> /\ o \in DOMAIN list.rows
    BY <1>3 DEF OpenEdit, CanOpenEdit
  <2> HIDE DEF c
  <2>2. DOMAIN dialog' = DialogFields /\ dialog'.form = FormOf(list.rows[o]) /\ dialog'.order = o
    BY <2>1 DEF NoDialog, DialogFields
  <2>3. IsForm(FormOf(list.rows[o])) /\ o \in Ids
    BY <1>1, <2>1, ShownRows, RowFillsForm
  <2> QED
    BY <2>1, <2>2, <2>3, DialogChangesKeepTypes
<1>4. ASSUME NEW o \in Known, OpenAssign(o) PROVE DialogTypes'
  <2>1. /\ dialog' = [NoDialog EXCEPT !.kind = "assign", !.order = o, !.busy = TRUE,
                        !.cands = [of |-> None, drivers |-> {}]]
        /\ UNCHANGED <<server, work>>
    BY <1>4 DEF OpenAssign
  <2>2. DOMAIN dialog' = DialogFields /\ dialog'.kind = "assign" /\ dialog'.order = o
    BY <2>1 DEF NoDialog, DialogFields
  <2>3. o \in Ids
    BY <1>1, KnownOrders
  <2> QED
    BY <2>1, <2>2, <2>3, DialogChangesKeepTypes
<1>5. CASE EditField
  <2>1. dialog.kind = "edit" /\ RowShown /\ UNCHANGED <<server, work>> /\ IsForm(dialog.form)
    BY <1>1, <1>5 DEF EditField, CanEdit, DialogTypes
  <2>2. /\ DOMAIN dialog' = DialogFields /\ dialog'.order = dialog.order /\ dialog'.kind = "edit"
        /\ IsForm(dialog'.form)
    <3>1. ASSUME NEW s, dialog' = [dialog EXCEPT !.form.status = s]
          PROVE  /\ DOMAIN dialog' = DialogFields /\ dialog'.order = dialog.order
                 /\ dialog'.kind = "edit" /\ dialog'.form = [dialog.form EXCEPT !.status = s]
      BY <1>1, <2>1, <3>1 DEF DialogTypes, DialogFields
    <3>2. ASSUME NEW t \in {0, 1, None}, dialog' = [dialog EXCEPT !.form.time = t]
          PROVE  /\ DOMAIN dialog' = DialogFields /\ dialog'.order = dialog.order
                 /\ dialog'.kind = "edit" /\ dialog'.form = [dialog.form EXCEPT !.time = t]
      BY <1>1, <2>1, <3>2 DEF DialogTypes, DialogFields
    <3>3. CASE \E t \in {0, 1, None} : dialog' = [dialog EXCEPT !.form.time = t]
      BY <2>1, <3>2, <3>3 DEF IsForm
    <3>4. CASE \E s \in AvailableStatuses(ShownStatus(Row.status)) : dialog' = [dialog EXCEPT !.form.status = s]
      BY <2>1, <3>1, <3>4 DEF IsForm
    <3>5. ASSUME NEW d, dialog' = [dialog EXCEPT !.form.day = d]
          PROVE  /\ DOMAIN dialog' = DialogFields /\ dialog'.order = dialog.order
                 /\ dialog'.kind = "edit" /\ dialog'.form = [dialog.form EXCEPT !.day = d]
      BY <1>1, <2>1, <3>5 DEF DialogTypes, DialogFields
    <3>6. CASE \E d \in Days : dialog' = [dialog EXCEPT !.form.day = d]
      BY <2>1, <3>5, <3>6 DEF IsForm
    <3> QED
      BY <1>5, <3>3, <3>4, <3>6 DEF EditField
  <2> QED
    BY <1>1, <2>1, <2>2, DialogChangesKeepTypes DEF DialogTypes
<1>6. CASE CloseDialog
  BY <1>1, <1>6, DialogChangesKeepTypes DEF CloseDialog
<1>7. ASSUME NEW d \in Drivers, PickDriver(d) PROVE DialogTypes'
  <2>1. dialog' = [dialog EXCEPT !.form = d] /\ UNCHANGED <<server, work>> /\ dialog.kind = "assign"
    BY <1>7 DEF PickDriver, CanPick
  <2>2. DOMAIN dialog' = DialogFields /\ dialog'.kind = "assign" /\ dialog'.order = dialog.order
    BY <1>1, <2>1 DEF DialogTypes, DialogFields
  <2> QED
    BY <1>1, <2>1, <2>2, DialogChangesKeepTypes DEF DialogTypes
<1> QED
  BY <1>2, <1>3, <1>4, <1>5, <1>6, <1>7

\* The answers fill the dialog anew.
LEMMA AnswersKeepTypes ==
    ASSUME ScreenTypes,
           \/ \E i \in DOMAIN loads : LoadArrives(i)
           \/ \E i \in DOMAIN cands : CandidatesArrive(i)
    PROVE  DialogTypes' /\ DOMAIN dialog' = DialogFields /\ dialog'.kind = dialog.kind
           /\ dialog'.order = dialog.order /\ dialog'.crowded = dialog.crowded /\ UNCHANGED work
<1>1. TableTypes /\ DialogTypes /\ DOMAIN dialog = DialogFields
  BY DEF ScreenTypes, DialogTypes
<1>2. ASSUME NEW i \in DOMAIN loads, LoadArrives(i)
      PROVE  DialogTypes' /\ DOMAIN dialog' = DialogFields /\ dialog'.kind = dialog.kind
             /\ dialog'.order = dialog.order /\ dialog'.crowded = dialog.crowded /\ UNCHANGED work
  <2> DEFINE rows == loads[i].rows
  <2>1. dialog' = Refilled(rows) /\ rows # None /\ UNCHANGED <<server, work>>
    BY <1>2 DEF LoadArrives
  <2>2. rows \in Rows
    <3>1. loads[i] \in ListLoad
      BY <1>1 DEF TableTypes
    <3> QED
      BY <2>1, <3>1 DEF ListLoad
  <2>3. \A o \in DOMAIN rows : IsForm(FormOf(rows[o]))
    BY <2>2, RowFillsForm DEF Rows
  <2> HIDE DEF rows
  <2>4. \/ /\ dialog.kind = "edit" /\ dialog.order \in DOMAIN rows
           /\ dialog' = [dialog EXCEPT !.form = FormOf(rows[dialog.order])]
        \/ /\ dialog.kind = "assign"
           /\ dialog' = [dialog EXCEPT !.cands = [of |-> dialog.order, drivers |-> {}], !.busy = FALSE]
        \/ dialog.kind = "assign" /\ dialog' = [dialog EXCEPT !.busy = TRUE]
        \/ dialog' = dialog
    BY <2>1 DEF Refilled
  <2>5. /\ DOMAIN dialog' = DialogFields /\ dialog'.kind = dialog.kind /\ dialog'.order = dialog.order
        /\ dialog'.crowded = dialog.crowded
        /\ dialog.kind = "edit" => IsForm(dialog'.form)
    BY ZenonT(60), <1>1, <2>3, <2>4 DEF DialogTypes, DialogFields
  <2> QED
    BY SMTT(30), <1>1, <2>1, <2>5, DialogChangesKeepTypes DEF DialogTypes
<1>3. ASSUME NEW i \in DOMAIN cands, CandidatesArrive(i)
      PROVE  DialogTypes' /\ DOMAIN dialog' = DialogFields /\ dialog'.kind = dialog.kind
             /\ dialog'.order = dialog.order /\ dialog'.crowded = dialog.crowded /\ UNCHANGED work
  <2>1. UNCHANGED <<server, work>>
    BY <1>3 DEF CandidatesArrive
  <2>2. PICK ok \in BOOLEAN :
          dialog' = IF dialog.kind # "assign" THEN dialog
                    ELSE [dialog EXCEPT !.busy = FALSE, !.form = IF ok THEN None ELSE @,
                            !.cands = [of |-> cands[i].order,
                                       drivers |-> IF ok THEN cands[i].drivers ELSE {}]]
    BY <1>3 DEF CandidatesArrive
  <2>3. /\ DOMAIN dialog' = DialogFields /\ dialog'.kind = dialog.kind /\ dialog'.order = dialog.order
        /\ dialog'.crowded = dialog.crowded
        /\ dialog.kind = "edit" => dialog' = dialog
    BY <1>1, <2>2 DEF DialogFields
  <2> QED
    BY <1>1, <2>1, <2>3, DialogChangesKeepTypes DEF DialogTypes
<1> QED
  BY <1>2, <1>3

\* A call of handler h is served, and h goes on to step s.
NextSteps == {"patch", "done", "invalid", "refused"}
Advances(h, s) ==
    \/ work' = [work EXCEPT ![h].step = s, ![h].wrote = TRUE]
    \/ work' = [work EXCEPT ![h].step = s] /\ s # "patch"
Patches(h, s) == s = "patch" => h = "edit" /\ Touched(work[h]) /\ work[h].form.time # None

LEMMA HandlerGoesOn ==
    ASSUME DialogTypes, NEW h \in Handlers, NEW s, Advances(h, s)
    PROVE  /\ DOMAIN work' = Handlers /\ \A k \in Handlers : DOMAIN work'[k] = WorkFields
           /\ work'[h].step = s /\ work'[h].order = work[h].order /\ work'[h].snap = work[h].snap
           /\ work'[h].form = work[h].form /\ work'[h].filter = work[h].filter
           /\ work'[h].page = work[h].page /\ (work[h].wrote => work'[h].wrote)
           /\ \A k \in Handlers : k # h => work'[k] = work[k]
BY DEF DialogTypes, WorkFields, Advances

LEMMA HandlerStops ==
    ASSUME DialogTypes, NEW h \in Handlers, work' = [work EXCEPT ![h] = Idle]
    PROVE  /\ DOMAIN work' = Handlers /\ \A k \in Handlers : DOMAIN work'[k] = WorkFields
           /\ work'[h] = Idle /\ work'[h].step = "idle" /\ ~work'[h].wrote
           /\ \A k \in Handlers : k # h => work'[k] = work[k]
BY DEF DialogTypes, WorkFields, Idle

\* What a handler closes over when it starts.
LEMMA HandlerStarts ==
    ASSUME DialogTypes, NEW h \in Handlers, NEW w, DOMAIN w = WorkFields, work' = [work EXCEPT ![h] = w]
    PROVE  /\ DOMAIN work' = Handlers /\ \A k \in Handlers : DOMAIN work'[k] = WorkFields
           /\ work'[h] = w /\ \A k \in Handlers : k # h => work'[k] = work[k]
BY DEF DialogTypes, WorkFields

\* A step of a handler keeps what it closed over.
LEMMA GoingOnKeepsTypes ==
    ASSUME DialogTypes, NEW h \in Handlers, NEW s, work[h].step # "idle", Advances(h, s), Patches(h, s),
           UNCHANGED dialog, Known \subseteq Known'
    PROVE  DialogTypes'
<1>1. /\ DOMAIN work' = Handlers /\ \A k \in Handlers : DOMAIN work'[k] = WorkFields
      /\ work'[h].step = s /\ work'[h].order = work[h].order /\ work'[h].snap = work[h].snap
      /\ work'[h].form = work[h].form /\ work'[h].filter = work[h].filter /\ work'[h].page = work[h].page
      /\ \A k \in Handlers : k # h => work'[k] = work[k]
  BY HandlerGoesOn
<1>2. "edit" \in Handlers /\ "assign" \in Handlers /\ "import" \in Handlers
  BY DEF Handlers
<1>3. \A k \in Handlers : /\ work'[k].step # "idle" => work[k].step # "idle"
                          /\ work'[k].order = work[k].order /\ work'[k].snap = work[k].snap
                          /\ work'[k].form = work[k].form /\ work'[k].filter = work[k].filter
                          /\ work'[k].page = work[k].page
  BY <1>1
<1>4. work'["edit"].step = "patch" =>
        work'["edit"].form.time \in {0, 1} /\ Touched(work["edit"])'
  <2>1. CASE h = "edit"
    BY <1>1, <2>1 DEF DialogTypes, IsForm, Patches, Touched
  <2>2. CASE h # "edit"
    BY <1>1, <1>2, <2>2 DEF DialogTypes, Touched
  <2> QED
    BY <2>1, <2>2
<1>5. /\ DOMAIN dialog' = DialogFields /\ (dialog'.kind = "edit" => IsForm(dialog'.form))
      /\ (dialog'.kind \in {"edit", "assign"} => dialog'.order \in Ids)
  BY DEF DialogTypes
<1>6. /\ \A k \in Handlers : work'[k].step # "idle" => work'[k].filter \in Filters /\ work'[k].page \in Nat
      /\ \A k \in {"edit", "assign"} : work'[k].step # "idle" => work'[k].order \in Known'
      /\ work'["edit"].step # "idle" => IsForm(work'["edit"].form) /\ IsForm(work'["edit"].snap)
      /\ work'["assign"].step # "idle" => work'["assign"].form \in Drivers \cup {None}
  BY <1>2, <1>3 DEF DialogTypes
<1> QED
  BY <1>1, <1>4, <1>5, <1>6 DEF DialogTypes

\* Every call a handler makes, refused or not.
LEMMA CallsAdvance ==
    ASSUME ScreenTypes, ServeStatus \/ ServePatch \/ ServeAssign \/ ServeImport
    PROVE  /\ UNCHANGED <<list, loads, dialog, cands, hist>> /\ Known \subseteq Known'
           /\ \E h \in Handlers, s \in NextSteps : work[h].step # "idle" /\ Advances(h, s) /\ Patches(h, s)
<1>1. DialogTypes /\ TableTypes /\ Handlers = {"edit", "assign", "import"} /\ server \in Seq(Listed)
  BY DEF ScreenTypes, Handlers, TableTypes
<1>2. ASSUME NEW h \in {"edit", "assign"}, NEW row, NEW next, Commit(h, row, next)
      PROVE  Known \subseteq Known' /\ Advances(h, next)
  <2>1. server' = [server EXCEPT ![work[h].order] = row] /\ Advances(h, next)
    BY <1>2 DEF Commit, Advances
  <2>2. Len(server') = Len(server)
    BY <1>1, <2>1
  <2> QED
    BY <2>1, <2>2 DEF Known
<1>3. ASSUME NEW h \in {"edit", "assign"}, Refuse(h) PROVE Known \subseteq Known' /\ Advances(h, "refused")
  BY <1>3 DEF Refuse, Advances, Known
<1>4. \A h \in Handlers : \A s \in {"done", "invalid", "refused"} : Patches(h, s) /\ s \in NextSteps
  BY DEF Patches, NextSteps
<1>5. CASE ServeStatus
  <2>1. UNCHANGED <<list, loads, dialog, cands, hist>> /\ work["edit"].step # "idle"
    BY <1>5 DEF ServeStatus
  <2>2. Patches("edit", GoOn(work["edit"])) /\ GoOn(work["edit"]) \in NextSteps
    BY DEF GoOn, NextSteps, Patches
  <2>3. ASSUME NEW row, Commit("edit", row, GoOn(work["edit"]))
        PROVE  Known \subseteq Known' /\ Advances("edit", GoOn(work["edit"]))
    BY <1>2, <2>3
  <2>4. (\E row : Commit("edit", row, GoOn(work["edit"]))) \/ Refuse("edit")
    BY <1>5 DEF ServeStatus
  <2> QED
    BY <1>1, <1>3, <1>4, <2>1, <2>2, <2>3, <2>4
<1>6. CASE ServePatch
  <2>1. UNCHANGED <<list, loads, dialog, cands, hist>> /\ work["edit"].step # "idle"
    BY <1>6 DEF ServePatch
  <2>2. (\E row : Commit("edit", row, "done")) \/ Refuse("edit")
    BY <1>6 DEF ServePatch
  <2> QED
    BY <1>1, <1>2, <1>3, <1>4, <2>1, <2>2
<1>7. CASE ServeAssign
  <2>1. UNCHANGED <<list, loads, dialog, cands, hist>> /\ work["assign"].step # "idle"
    BY ZenonT(60), <1>7 DEF ServeAssign
  <2>2. (\E row : Commit("assign", row, "done")) \/ Refuse("assign")
    BY <1>7 DEF ServeAssign
  <2> QED
    BY SMTT(30), <1>1, <1>2, <1>3, <1>4, <2>1, <2>2
<1>8. CASE ServeImport
  <2>1. /\ UNCHANGED <<list, loads, dialog, cands, hist>> /\ work["import"].step # "idle"
        /\ Advances("import", "done") \/ Advances("import", "refused")
    BY <1>8 DEF ServeImport, Advances
  <2>2. Known \subseteq Known'
    <3>1. CASE UNCHANGED server
      BY <3>1 DEF Known
    <3>2. ASSUME NEW row \in Listed, server' = Append(server, row) PROVE Known \subseteq Known'
      BY <1>1, <3>2 DEF Known
    <3>3. [status |-> "created", time |-> 0, driver |-> None, ver |-> 0] \in Listed
      BY DEF Listed, OrderStatus
    <3> QED
      BY <1>8, <3>1, <3>2, <3>3 DEF ServeImport
  <2> QED
    BY <1>1, <1>4, <2>1, <2>2
<1> QED
  BY <1>5, <1>6, <1>7, <1>8

LEMMA ServingKeepsTypes ==
    ASSUME ScreenTypes, ServeStatus \/ ServePatch \/ ServeAssign \/ ServeImport PROVE DialogTypes'
<1>1. PICK h \in Handlers, s \in NextSteps : work[h].step # "idle" /\ Advances(h, s) /\ Patches(h, s)
  BY CallsAdvance
<1>2. UNCHANGED dialog /\ Known \subseteq Known' /\ DialogTypes
  BY CallsAdvance DEF ScreenTypes
<1> QED
  BY <1>1, <1>2, GoingOnKeepsTypes

\* A handler that ends leaves the dialogs with their forms.
LEMMA EndsKeepTypes ==
    ASSUME DialogTypes, NEW h \in Handlers, work' = [work EXCEPT ![h] = Idle], UNCHANGED server,
           dialog' \in {dialog, NoDialog}
    PROVE  DialogTypes'
<1>1. /\ DOMAIN work' = Handlers /\ \A k \in Handlers : DOMAIN work'[k] = WorkFields
      /\ work'[h].step = "idle" /\ \A k \in Handlers : k # h => work'[k] = work[k]
  BY HandlerStops
<1>2. /\ DOMAIN dialog' = DialogFields /\ (dialog'.kind = "edit" => IsForm(dialog'.form))
      /\ (dialog'.kind \in {"edit", "assign"} => dialog'.order \in Ids)
  BY OrdersScreenAssumption DEF DialogTypes, NoDialog, DialogFields
<1>3. Known' = Known /\ "edit" \in Handlers /\ "assign" \in Handlers
  BY DEF Known, Handlers
<1> QED
  BY <1>1, <1>2, <1>3 DEF DialogTypes

\* A handler starts with the dialog's order and form and the list's filter and page.
LEMMA StartsKeepTypes ==
    ASSUME ScreenTypes, NEW h \in Handlers, NEW w, DOMAIN w = WorkFields, work' = [work EXCEPT ![h] = w],
           UNCHANGED server, w.filter \in Filters, w.page \in Nat,
           h \in {"edit", "assign"} => w.order \in Known,
           h = "edit" => IsForm(w.form) /\ IsForm(w.snap),
           h = "edit" /\ w.step = "patch" => w.form.time \in {0, 1} /\ Touched(w),
           h = "assign" => w.form \in Drivers \cup {None},
           DOMAIN dialog' = DialogFields, UNCHANGED dialog \/ dialog'.kind = "import"
    PROVE  DialogTypes'
<1>1. /\ DOMAIN work' = Handlers /\ \A k \in Handlers : DOMAIN work'[k] = WorkFields
      /\ work'[h] = w /\ \A k \in Handlers : k # h => work'[k] = work[k]
  BY HandlerStarts DEF ScreenTypes
<1>2. /\ (dialog'.kind = "edit" => IsForm(dialog'.form))
      /\ (dialog'.kind \in {"edit", "assign"} => dialog'.order \in Ids)
  BY DEF ScreenTypes, DialogTypes
<1>3. Known' = Known /\ "edit" \in Handlers /\ "assign" \in Handlers
  BY DEF Known, Handlers
<1> QED
  BY <1>1, <1>2, <1>3 DEF ScreenTypes, DialogTypes

\* A handler starts: save, cancel, assign, import.
LEMMA ClicksKeepTypes ==
    ASSUME ScreenTypes,
           SaveOrder \/ CancelOrder \/ ImportOrders \/ (\E d \in Drivers \cup {None} : AssignOrder(d))
    PROVE  DialogTypes'
<1>1. /\ DialogTypes /\ TableTypes /\ DOMAIN dialog = DialogFields /\ list.filter \in Filters /\ list.page \in Nat
      /\ "edit" \in Handlers /\ "assign" \in Handlers /\ "import" \in Handlers
      /\ DOMAIN Idle = WorkFields
  BY DEF ScreenTypes, DialogTypes, TableTypes, List, Handlers, Idle, WorkFields
<1>2. ASSUME dialog.kind = "edit", RowShown
      PROVE  dialog.order \in Known /\ IsForm(FormOf(Row)) /\ IsForm(dialog.form)
  BY <1>1, <1>2, ShownRows, RowFillsForm DEF RowShown, Row, DialogTypes
<1>3. CASE SaveOrder
  <2> DEFINE w == [step |-> "start", order |-> dialog.order, snap |-> FormOf(Row),
                   form |-> dialog.form, filter |-> list.filter, page |-> list.page,
                   wrote |-> FALSE]
             first == IF w.form.status # w.snap.status THEN "status" ELSE GoOn(w)
             v == [w EXCEPT !.step = first]
  <2>1. work' = [work EXCEPT !["edit"] = v] /\ UNCHANGED <<server, dialog>> /\ dialog.kind = "edit" /\ RowShown
    BY <1>3 DEF SaveOrder, CanSave, CanEdit
  <2>2. /\ w.order \in Known /\ IsForm(w.form) /\ IsForm(w.snap) /\ w.filter \in Filters /\ w.page \in Nat
        /\ DOMAIN w = WorkFields
    BY <1>1, <1>2, <2>1 DEF WorkFields
  <2>3. first = "patch" => w.form.time \in {0, 1} /\ Touched(w)
    BY <2>2 DEF GoOn, IsForm
  <2> HIDE DEF w, first
  <2>4. /\ v.order = w.order /\ v.form = w.form /\ v.snap = w.snap /\ v.filter = w.filter /\ v.page = w.page
        /\ DOMAIN v = WorkFields /\ v.step = first
    BY <2>2 DEF WorkFields
  <2> HIDE DEF v
  <2>5. v.step = "patch" => v.form.time \in {0, 1} /\ Touched(v)
    BY <2>3, <2>4 DEF Touched
  <2>6. v.order \in Known /\ IsForm(v.form) /\ IsForm(v.snap) /\ v.filter \in Filters /\ v.page \in Nat
    BY <2>2, <2>4
  <2> QED
    BY <1>1, <2>1, <2>4, <2>5, <2>6, StartsKeepTypes
<1>4. CASE CancelOrder
  <2> DEFINE v == [step |-> "status", order |-> dialog.order, snap |-> FormOf(Row),
                   form |-> [FormOf(Row) EXCEPT !.status = "cancelled"],
                   filter |-> list.filter, page |-> list.page, wrote |-> FALSE]
  <2>1. work' = [work EXCEPT !["edit"] = v] /\ UNCHANGED <<server, dialog>> /\ dialog.kind = "edit" /\ RowShown
    BY <1>4 DEF CancelOrder, CanCancelOrder, CanSave, CanEdit
  <2>2. /\ v.order \in Known /\ IsForm(v.form) /\ IsForm(v.snap) /\ v.filter \in Filters /\ v.page \in Nat
        /\ DOMAIN v = WorkFields /\ v.step = "status"
    BY <1>1, <1>2, <2>1 DEF WorkFields, IsForm
  <2> HIDE DEF v
  <2> QED
    BY <1>1, <2>1, <2>2, StartsKeepTypes
<1>5. ASSUME NEW d \in Drivers \cup {None}, AssignOrder(d) PROVE DialogTypes'
  <2> DEFINE v == [Idle EXCEPT !.step = "assign", !.order = dialog.order, !.form = d,
                               !.filter = list.filter, !.page = list.page]
  <2>1. work' = [work EXCEPT !["assign"] = v] /\ UNCHANGED <<server, dialog>> /\ dialog.kind = "assign" /\ RowShown
    BY <1>5 DEF AssignOrder, CanAssign
  <2>2. dialog.order \in Known
    BY <1>1, <2>1, ShownRows DEF RowShown
  <2>3. v.order \in Known /\ v.form = d /\ v.filter \in Filters /\ v.page \in Nat /\ DOMAIN v = WorkFields
    BY <1>1, <2>2 DEF Idle, WorkFields
  <2> HIDE DEF v
  <2> QED
    BY <1>1, <2>1, <2>3, StartsKeepTypes
<1>6. CASE ImportOrders
  <2> DEFINE v == [Idle EXCEPT !.step = "import", !.filter = list.filter, !.page = list.page]
  <2>1. work' = [work EXCEPT !["import"] = v] /\ UNCHANGED server /\ dialog' = [NoDialog EXCEPT !.kind = "import"]
    BY <1>6 DEF ImportOrders
  <2>2. v.filter \in Filters /\ v.page \in Nat /\ DOMAIN v = WorkFields
    BY <1>1 DEF Idle, WorkFields
  <2>3. DOMAIN dialog' = DialogFields /\ dialog'.kind = "import"
    BY <2>1 DEF NoDialog, DialogFields
  <2> HIDE DEF v
  <2> QED
    BY <1>1, <2>1, <2>2, <2>3, StartsKeepTypes
<1> QED
  BY <1>3, <1>4, <1>5, <1>6

\* The dialogs in every step of the page.
LEMMA DialogStep == ScreenTypes /\ [OSNext]_osVars => DialogTypes'
<1> SUFFICES ASSUME ScreenTypes, [OSNext]_osVars PROVE DialogTypes'
  OBVIOUS
<1>1. ASSUME UNCHANGED <<dialog, work>>, Known' = Known PROVE DialogTypes'
  BY <1>1 DEF ScreenTypes, DialogTypes
<1>2. \A o \in Known : Elsewhere(o) => UNCHANGED <<dialog, work>> /\ Known' = Known
  <2> SUFFICES ASSUME NEW o \in Known, Elsewhere(o) PROVE UNCHANGED <<dialog, work>> /\ Known' = Known
    OBVIOUS
  <2>1. server \in Seq(Listed) /\ o \in DOMAIN server
    BY KnownOrders DEF ScreenTypes, TableTypes
  <2>2. \E row : server' = [server EXCEPT ![o] = row]
    BY <2>1 DEF Elsewhere
  <2>3. Len(server') = Len(server)
    BY <2>1, <2>2
  <2> QED
    BY <2>3 DEF Elsewhere, Known
<1>3. /\ (\E f \in Filters : SetFilter(f)) \/ TurnPage \/ LoadFails \/ (\E i \in DOMAIN loads : ServeLoad(i))
           \/ (\E i \in DOMAIN cands : ServeCandidates(i)) \/ UNCHANGED osVars
         => UNCHANGED <<dialog, work>> /\ Known' = Known
  BY DEF SetFilter, TurnPage, TurnTo, LoadFails, ServeLoad, ServeCandidates, osVars, Known
<1>4. SaveEnds \/ AssignEnds \/ ImportEnds => DialogTypes'
  <2>1. ASSUME NEW h \in Handlers, work' = [work EXCEPT ![h] = Idle], UNCHANGED server,
               dialog' = dialog \/ dialog' = NoDialog
        PROVE  DialogTypes'
    BY <2>1, EndsKeepTypes DEF ScreenTypes
  <2>2. CASE SaveEnds
    BY <2>1, <2>2 DEF SaveEnds, Succeed, Fail, Handlers
  <2>3. CASE AssignEnds
    BY <2>1, <2>3 DEF AssignEnds, Succeed, Fail, Handlers
  <2>4. CASE ImportEnds
    BY <2>1, <2>4 DEF ImportEnds, Handlers
  <2> QED
    BY <2>2, <2>3, <2>4
<1>5. /\ \A o \in Known : OpenView(o) \/ OpenEdit(o) \/ OpenAssign(o) => DialogTypes'
      /\ EditField \/ CloseDialog \/ (\E d \in Drivers : PickDriver(d)) => DialogTypes'
  BY DialogsKeepTypes
<1>6. /\ \A i \in DOMAIN loads : LoadArrives(i) => DialogTypes'
      /\ \A i \in DOMAIN cands : CandidatesArrive(i) => DialogTypes'
  BY AnswersKeepTypes
<1>7. SaveOrder \/ CancelOrder \/ ImportOrders \/ (\E d \in Drivers \cup {None} : AssignOrder(d)) => DialogTypes'
  BY ClicksKeepTypes
<1>8. ServeStatus \/ ServePatch \/ ServeAssign \/ ServeImport => DialogTypes'
  BY ServingKeepsTypes
<1> QED
  BY <1>1, <1>2, <1>3, <1>4, <1>5, <1>6, <1>7, <1>8 DEF OSNext

LEMMA ScreenStep == ScreenTypes /\ [OSNext]_osVars => ScreenTypes'
BY TableStep, DialogStep DEF ScreenTypes

\* The types of the list, its dialogs, its requests and its handlers.
THEOREM ScreenTyped == OSSpec => []ScreenTypes
BY InitScreenTypes, ScreenStep, PTL DEF OSSpec

-----------------------------------------------------------------------------
(* What the page's own writes change                                         *)

Writing == ServeStatus \/ ServePatch \/ ServeAssign

\* Handler h writes row, whose time is the dispatcher's only if it is a patch.
Writes(h, row, s) ==
    /\ work[h].step # "idle" /\ work[h].order \in Known /\ Commit(h, row, s)
    /\ row.ver = server[work[h].order].ver + 1
    /\ row.time = server[work[h].order].time \/ (h = "edit" /\ work[h].step = "patch")
    /\ UNCHANGED <<list, loads, dialog, cands, hist>>

\* The page writes an order where a call of its handlers is served.
LEMMA OnlyCallsWrite ==
    ASSUME ScreenTypes, [OSNext]_osVars, mine' # mine
    PROVE  Writing
BY DEF Writing, OSNext, osVars, OpenView, OpenEdit, OpenAssign, Elsewhere, SetFilter, TurnPage, TurnTo, ImportOrders,
       EditField, CloseDialog, SaveOrder, CancelOrder, PickDriver, AssignOrder, ServeLoad, LoadArrives,
       LoadFails, ServeCandidates, CandidatesArrive, SaveEnds, AssignEnds, ServeImport, ImportEnds

\* A call that is served: refused, or a write.
LEMMA WriteOfCall ==
    ASSUME ScreenTypes, Writing
    PROVE  \/ UNCHANGED <<server, mine, list, loads, dialog, cands, hist>>
           \/ \E h \in {"edit", "assign"} : \E row \in Listed : \E s \in NextSteps : Writes(h, row, s)
<1> SUFFICES ASSUME ~UNCHANGED <<server, mine, list, loads, dialog, cands, hist>>
             PROVE  \E h \in {"edit", "assign"} : \E row \in Listed : \E s \in NextSteps : Writes(h, row, s)
  OBVIOUS
<1>1. /\ DialogTypes /\ \A o \in Known : server[o] \in Listed
      /\ \A h \in {"edit", "assign"} : Refuse(h) => UNCHANGED <<server, mine>>
  BY DEF ScreenTypes, TableTypes, Known, Refuse
<1>2. CASE ServeStatus
  <2> DEFINE w == work["edit"]
             to == BackendStatus(w.form.status)
             row == [server[w.order] EXCEPT !.status = to, !.ver = @ + 1]
  <2>1. /\ CanMove(server[w.order].status, to) /\ Commit("edit", row, GoOn(w)) /\ w.step = "status"
        /\ UNCHANGED <<list, loads, dialog, cands, hist>>
    BY <1>1, <1>2 DEF ServeStatus
  <2>2. to \in OrderStatus /\ GoOn(w) \in NextSteps
    BY <2>1 DEF CanMove, AllowedTransitions, OrderStatus, GoOn, NextSteps
  <2>3. w.order \in Known /\ server[w.order] \in Listed
    BY <1>1, <2>1 DEF DialogTypes
  <2> HIDE DEF to
  <2>4. row \in Listed /\ row.time = server[w.order].time /\ row.ver = server[w.order].ver + 1
    BY <2>2, <2>3, WrittenRows
  <2> HIDE DEF row
  <2>5. Writes("edit", row, GoOn(w))
    BY <2>1, <2>3, <2>4 DEF Writes
  <2> HIDE DEF w
  <2> QED
    BY <2>2, <2>4, <2>5
<1>3. CASE ServePatch
  <2> DEFINE w == work["edit"]
             row == PatchedTime(w.order, w.form)
  <2>1. Commit("edit", row, "done") /\ w.step = "patch" /\ UNCHANGED <<list, loads, dialog, cands, hist>>
    BY <1>1, <1>3 DEF ServePatch
  <2>2. w.order \in Known /\ server[w.order] \in Listed /\ w.form.time \in {0, 1}
    BY <1>1, <2>1 DEF DialogTypes
  <2>3. row \in Listed /\ row.ver = server[w.order].ver + 1
    BY ZenonT(60), <2>2, WrittenRows DEF PatchedTime
  <2> HIDE DEF row
  <2> QED
    BY <2>1, <2>2, <2>3 DEF NextSteps, Writes
<1>4. CASE ServeAssign
  <2> DEFINE w == work["assign"]
             made(d) == [server[w.order] EXCEPT !.status = "assigned", !.driver = d, !.ver = @ + 1]
  <2>1. PICK d \in (IF w.form = None THEN Drivers ELSE {w.form}) : Commit("assign", made(d), "done")
    BY <1>1, <1>4 DEF ServeAssign
  <2>2. w.step = "assign" /\ UNCHANGED <<list, loads, dialog, cands, hist>>
    BY <1>4 DEF ServeAssign
  <2>3. w.order \in Known /\ server[w.order] \in Listed /\ w.form \in Drivers \cup {None}
    BY <1>1, <2>2 DEF DialogTypes
  <2>4. d \in Drivers
    BY <2>1, <2>3
  <2> DEFINE row == made(d)
  <2>5. row \in Listed /\ row.time = server[w.order].time /\ row.ver = server[w.order].ver + 1
    BY <2>3, <2>4, WrittenRows
  <2>6. Commit("assign", row, "done")
    BY <2>1
  <2> HIDE DEF row
  <2>7. Writes("assign", row, "done")
    BY <2>2, <2>3, <2>5, <2>6 DEF Writes
  <2> QED
    BY <2>5, <2>7 DEF NextSteps
<1> QED
  BY <1>2, <1>3, <1>4 DEF Writing

\* A save changes an order's time only where the dispatcher changed the date or the time
\* that the form was filled with (handleSaveOrder sends the changed fields).
THEOREM UntouchedTimesAreKept == OSSpec => UntouchedTimeKept
<1>1. ScreenTypes /\ [OSNext]_osVars =>
        [\A o \in Known :
           mine'[o] # mine[o] /\ server'[o].time # server[o].time =>
             work["edit"].order = o /\ Touched(work["edit"])]_osVars
  <2> SUFFICES ASSUME ScreenTypes, [OSNext]_osVars, NEW o \in Known, mine'[o] # mine[o],
                      server'[o].time # server[o].time
               PROVE  work["edit"].order = o /\ Touched(work["edit"])
    OBVIOUS
  <2>1. PICK h \in {"edit", "assign"}, row \in Listed, s \in NextSteps : Writes(h, row, s)
    BY OnlyCallsWrite, WriteOfCall
  <2>2. server' = [server EXCEPT ![work[h].order] = row] /\ server \in Seq(Listed)
    BY <2>1 DEF Commit, ScreenTypes, TableTypes, Writes
  <2>3. work[h].order = o
    BY <2>2
  <2>4. server'[o] = row
    BY <2>2, <2>3, KnownOrders DEF ScreenTypes
  <2>5. h = "edit" /\ work[h].step = "patch"
    BY <2>1, <2>3, <2>4 DEF Writes
  <2> QED
    BY <2>3, <2>5 DEF ScreenTypes, DialogTypes
<1> QED
  BY <1>1, InitScreenTypes, ScreenStep, PTL DEF OSSpec, UntouchedTimeKept

-----------------------------------------------------------------------------
(* Which handler works in which dialog                                       *)

\* Unless a dialog was left, a handler that awaits an answer was called from the
\* dialog that is open, for its order, with the list's present filter and page.
InItsDialog(h) ==
    /\ dialog.kind = h /\ work[h].filter = list.filter /\ work[h].page = list.page
    /\ h # "import" => dialog.order = work[h].order
WorkInDialog ==
    "left" \notin hist => \A h \in Handlers : work[h].step # "idle" => InItsDialog(h)

\* An edit dialog opened with nothing in flight has only its own handler at work.
FormAlone ==
    dialog.kind = "edit" /\ ~dialog.crowded =>
        loads = <<>> /\ work["assign"].step = "idle" /\ work["import"].step = "idle"

HandlersInv == WorkInDialog /\ FormAlone

LEMMA HistoryGrows == ASSUME [OSNext]_osVars PROVE hist \subseteq hist'
BY DEF OSNext, osVars, OpenView, OpenEdit, OpenAssign, Elsewhere, SetFilter, TurnPage, TurnTo, ImportOrders,
       EditField, CloseDialog, SaveOrder, CancelOrder, PickDriver, AssignOrder, ServeLoad, LoadArrives,
       LoadFails, ServeCandidates, CandidatesArrive, SaveEnds, AssignEnds, Succeed, Fail, ServeImport,
       ImportEnds, ServeStatus, ServePatch, ServeAssign

LEMMA InitHandlers == OSInit => HandlersInv
BY OrdersScreenAssumption DEF OSInit, HandlersInv, WorkInDialog, FormAlone, Handlers, Idle, NoDialog

\* With no dialog open no handler is at work.
LEMMA NobodyWorks ==
    ASSUME WorkInDialog, "left" \notin hist, dialog.kind = None PROVE \A h \in Handlers : work[h].step = "idle"
BY OrdersScreenAssumption DEF WorkInDialog, InItsDialog, Handlers

\* The table is used while no dialog is open.
LEMMA TableKeepsHandlers ==
    ASSUME ScreenTypes, HandlersInv, [OSNext]_osVars,
           \/ \E o \in Known : OpenView(o) \/ OpenEdit(o) \/ OpenAssign(o)
           \/ \E f \in Filters : SetFilter(f)
           \/ TurnPage \/ ImportOrders
    PROVE  HandlersInv'
<1>1. /\ DialogTypes /\ DOMAIN work = Handlers /\ hist \subseteq hist' /\ Handlers = {"edit", "assign", "import"}
      /\ None \notin {"view", "edit", "assign", "import"}
  BY HistoryGrows, OrdersScreenAssumption DEF ScreenTypes, DialogTypes, Handlers
<1>2. dialog.kind = None
  BY DEF OpenView, OpenEdit, OpenAssign, CanOpenAssign, CanOpenEdit, TableUsable, SetFilter, TurnPage,
         CanTurnForward, CanTurnBack, ImportOrders
<1>3. "left" \notin hist => \A h \in Handlers : work[h].step = "idle"
  BY <1>2, NobodyWorks DEF HandlersInv
<1>4. ASSUME UNCHANGED work PROVE WorkInDialog'
  BY <1>1, <1>3, <1>4 DEF WorkInDialog
<1>5. ASSUME dialog'.kind # "edit" PROVE FormAlone'
  BY <1>5 DEF FormAlone
<1>6. ASSUME NEW o \in Known, OpenView(o) \/ OpenAssign(o) PROVE HandlersInv'
  <2>1. UNCHANGED work /\ dialog'.kind # "edit"
    BY <1>6 DEF OpenView, OpenAssign, NoDialog
  <2> QED
    BY <1>4, <1>5, <2>1 DEF HandlersInv
<1>7. ASSUME NEW o \in Known, OpenEdit(o) PROVE HandlersInv'
  <2> DEFINE c == loads # <<>> \/ \E h \in Handlers : work[h] # Idle
  <2>1. UNCHANGED <<loads, work>> /\ dialog'.crowded = c
    BY <1>7 DEF OpenEdit, NoDialog
  <2>2. ~c => loads = <<>> /\ work["assign"].step = "idle" /\ work["import"].step = "idle"
    BY <1>1 DEF Idle
  <2> HIDE DEF c
  <2> QED
    BY <1>4, <2>1, <2>2 DEF HandlersInv, FormAlone
<1>8. ASSUME NEW f \in Filters, SetFilter(f) PROVE HandlersInv'
  BY <1>1, <1>2, <1>4, <1>5, <1>8 DEF SetFilter, HandlersInv
<1>9. CASE TurnPage
  BY <1>1, <1>2, <1>4, <1>5, <1>9 DEF TurnPage, TurnTo, HandlersInv
<1>10. CASE ImportOrders
  <2> DEFINE v == [Idle EXCEPT !.step = "import", !.filter = list.filter, !.page = list.page]
  <2>1. work' = [work EXCEPT !["import"] = v] /\ dialog' = [NoDialog EXCEPT !.kind = "import"] /\ UNCHANGED list
    BY <1>10 DEF ImportOrders
  <2>2. DOMAIN v = WorkFields /\ v.filter = list.filter /\ v.page = list.page
    BY DEF Idle, WorkFields
  <2> HIDE DEF v
  <2>3. work'["import"] = v /\ \A h \in Handlers : h # "import" => work'[h] = work[h]
    BY <1>1, <2>1
  <2>4. dialog'.kind = "import"
    BY <2>1 DEF NoDialog
  <2>5. InItsDialog("import")'
    BY <2>1, <2>2, <2>3, <2>4 DEF InItsDialog
  <2>6. WorkInDialog'
    BY <1>1, <1>3, <2>3, <2>5 DEF WorkInDialog
  <2> QED
    BY <1>5, <2>4, <2>6 DEF HandlersInv
<1> QED
  BY <1>6, <1>7, <1>8, <1>9, <1>10

\* What keeps the dialog and the handlers as they are, but for the form and the candidates.
LEMMA RestKeepsHandlers ==
    ASSUME HandlersInv, [OSNext]_osVars, UNCHANGED work,
           dialog'.kind = dialog.kind, dialog'.order = dialog.order, dialog'.crowded = dialog.crowded,
           list'.filter = list.filter, list'.page = list.page, loads = <<>> => loads' = <<>>
    PROVE  HandlersInv'
BY HistoryGrows DEF HandlersInv, WorkInDialog, InItsDialog, FormAlone

LEMMA AnswersKeepHandlers ==
    ASSUME ScreenTypes, HandlersInv, [OSNext]_osVars,
           \/ EditField \/ \E d \in Drivers : PickDriver(d)
           \/ \E i \in DOMAIN loads : ServeLoad(i) \/ LoadArrives(i)
           \/ LoadFails \/ \E i \in DOMAIN cands : ServeCandidates(i) \/ CandidatesArrive(i)
           \/ \E o \in Known : Elsewhere(o)
    PROVE  HandlersInv'
<1>1. DOMAIN dialog = DialogFields /\ list \in List /\ DOMAIN <<>> = {}
  BY DEF ScreenTypes, DialogTypes, TableTypes
<1>2. CASE EditField
  <2>1. UNCHANGED <<work, list, loads>>
    BY <1>2 DEF EditField
  <2>2. dialog'.kind = dialog.kind /\ dialog'.order = dialog.order /\ dialog'.crowded = dialog.crowded
    BY <1>1, <1>2 DEF EditField, DialogFields
  <2> QED
    BY <2>1, <2>2, RestKeepsHandlers
<1>3. ASSUME NEW d \in Drivers, PickDriver(d) PROVE HandlersInv'
  <2>1. UNCHANGED <<work, list, loads>>
    BY <1>3 DEF PickDriver
  <2>2. dialog'.kind = dialog.kind /\ dialog'.order = dialog.order /\ dialog'.crowded = dialog.crowded
    BY <1>1, <1>3 DEF PickDriver, DialogFields
  <2> QED
    BY <2>1, <2>2, RestKeepsHandlers
<1>4. ASSUME NEW i \in DOMAIN loads, LoadArrives(i) PROVE HandlersInv'
  <2>1. /\ dialog'.kind = dialog.kind /\ dialog'.order = dialog.order /\ dialog'.crowded = dialog.crowded
        /\ UNCHANGED work
    BY SMTT(30), <1>4, AnswersKeepTypes
  <2>2. list'.filter = list.filter /\ list'.page = list.page
    BY <1>1, <1>4 DEF LoadArrives, List
  <2>3. loads # <<>>
    BY <1>1, <1>4
  <2> QED
    BY <2>1, <2>2, <2>3, RestKeepsHandlers
<1>5. ASSUME NEW i \in DOMAIN cands, CandidatesArrive(i) PROVE HandlersInv'
  <2>1. /\ dialog'.kind = dialog.kind /\ dialog'.order = dialog.order /\ dialog'.crowded = dialog.crowded
        /\ UNCHANGED work
    BY SMTT(30), <1>5, AnswersKeepTypes
  <2>2. UNCHANGED <<list, loads>>
    BY <1>5 DEF CandidatesArrive
  <2> QED
    BY <2>1, <2>2, RestKeepsHandlers
<1>6. CASE LoadFails
  <2>1. list'.filter = list.filter /\ list'.page = list.page /\ loads # <<>> /\ UNCHANGED <<dialog, work>>
    BY <1>1, <1>6 DEF LoadFails, List
  <2> QED
    BY <2>1, RestKeepsHandlers
<1>7. ASSUME NEW i \in DOMAIN loads, ServeLoad(i) PROVE HandlersInv'
  <2>1. UNCHANGED <<dialog, work, list>> /\ loads # <<>>
    BY <1>1, <1>7 DEF ServeLoad
  <2> QED
    BY <2>1, RestKeepsHandlers
<1>8. ASSUME NEW i \in DOMAIN cands, ServeCandidates(i) PROVE HandlersInv'
  BY <1>8, RestKeepsHandlers DEF ServeCandidates
<1>9. ASSUME NEW o \in Known, Elsewhere(o) PROVE HandlersInv'
  BY <1>9, RestKeepsHandlers DEF Elsewhere
<1> QED
  BY <1>2, <1>3, <1>4, <1>5, <1>6, <1>7, <1>8, <1>9

\* Leaving a dialog is remembered when its handler was at work.
LEMMA LeavingKeepsHandlers == ASSUME ScreenTypes, HandlersInv, [OSNext]_osVars, CloseDialog PROVE HandlersInv'
<1>1. /\ dialog' = NoDialog /\ NoDialog.kind = None /\ None # "edit" /\ UNCHANGED <<work, list, loads>>
      /\ hist \subseteq hist'
  BY HistoryGrows, OrdersScreenAssumption DEF CloseDialog, NoDialog
<1>2. ASSUME "left" \notin hist', NEW h \in Handlers, work[h].step # "idle" PROVE FALSE
  <2>1. dialog.kind = h
    BY <1>1, <1>2 DEF HandlersInv, WorkInDialog, InItsDialog
  <2>2. work[h] # Idle
    BY <1>2 DEF Idle
  <2>3. hist' = hist \cup {"left"}
    BY <1>2, <2>1, <2>2 DEF CloseDialog
  <2> QED
    BY <1>2, <2>3
<1> QED
  BY <1>1, <1>2 DEF HandlersInv, WorkInDialog, FormAlone

\* A handler starts in the dialog that is open.
LEMMA StartsKeepHandlers ==
    ASSUME ScreenTypes, HandlersInv, [OSNext]_osVars,
           SaveOrder \/ CancelOrder \/ (\E d \in Drivers \cup {None} : AssignOrder(d))
    PROVE  HandlersInv'
<1>1. /\ DialogTypes /\ DOMAIN work = Handlers /\ hist \subseteq hist' /\ Handlers = {"edit", "assign", "import"}
      /\ "edit" \in Handlers /\ "assign" \in Handlers
  BY HistoryGrows DEF ScreenTypes, DialogTypes, Handlers
<1>2. ASSUME NEW h \in {"edit", "assign"}, NEW w, work' = [work EXCEPT ![h] = w], dialog.kind = h,
             w.order = dialog.order, w.filter = list.filter, w.page = list.page,
             UNCHANGED <<dialog, list, loads>>
      PROVE  HandlersInv'
  <2>1. work'[h] = w /\ \A k \in Handlers : k # h => work'[k] = work[k]
    BY <1>1, <1>2
  <2>2. InItsDialog(h)'
    BY <1>2, <2>1 DEF InItsDialog
  <2>3. WorkInDialog'
    <3> SUFFICES ASSUME "left" \notin hist', NEW k \in Handlers, work'[k].step # "idle" PROVE InItsDialog(k)'
      BY DEF WorkInDialog
    <3>1. CASE k = h
      BY <2>2, <3>1
    <3>2. CASE k # h
      <4>1. InItsDialog(k)
        BY <1>1, <2>1, <3>2 DEF HandlersInv, WorkInDialog
      <4> QED
        BY <1>2, <2>1, <3>2, <4>1 DEF InItsDialog
    <3> QED
      BY <3>1, <3>2
  <2>4. FormAlone'
    <3>1. CASE h = "edit"
      BY <1>1, <1>2, <2>1, <3>1 DEF HandlersInv, FormAlone
    <3>2. CASE h = "assign"
      BY <1>2, <3>2 DEF FormAlone
    <3> QED
      BY <3>1, <3>2
  <2> QED
    BY <2>3, <2>4 DEF HandlersInv
<1>3. CASE SaveOrder
  <2> DEFINE w == [step |-> "start", order |-> dialog.order, snap |-> FormOf(Row),
                   form |-> dialog.form, filter |-> list.filter, page |-> list.page,
                   wrote |-> FALSE]
             first == IF w.form.status # w.snap.status THEN "status" ELSE GoOn(w)
             v == [w EXCEPT !.step = first]
  <2>1. work' = [work EXCEPT !["edit"] = v] /\ UNCHANGED <<dialog, list, loads>> /\ dialog.kind = "edit"
    BY <1>3 DEF SaveOrder, CanSave, CanEdit
  <2> HIDE DEF first
  <2>2. v.order = dialog.order /\ v.filter = list.filter /\ v.page = list.page
    OBVIOUS
  <2> HIDE DEF v
  <2> QED
    BY <1>2, <2>1, <2>2
<1>4. CASE CancelOrder
  <2> DEFINE v == [step |-> "status", order |-> dialog.order, snap |-> FormOf(Row),
                   form |-> [FormOf(Row) EXCEPT !.status = "cancelled"],
                   filter |-> list.filter, page |-> list.page, wrote |-> FALSE]
  <2>1. work' = [work EXCEPT !["edit"] = v] /\ UNCHANGED <<dialog, list, loads>> /\ dialog.kind = "edit"
    BY <1>4 DEF CancelOrder, CanCancelOrder, CanSave, CanEdit
  <2>2. v.order = dialog.order /\ v.filter = list.filter /\ v.page = list.page
    OBVIOUS
  <2> HIDE DEF v
  <2> QED
    BY <1>2, <2>1, <2>2
<1>5. ASSUME NEW d \in Drivers \cup {None}, AssignOrder(d) PROVE HandlersInv'
  <2> DEFINE v == [Idle EXCEPT !.step = "assign", !.order = dialog.order, !.form = d,
                               !.filter = list.filter, !.page = list.page]
  <2>1. work' = [work EXCEPT !["assign"] = v] /\ UNCHANGED <<dialog, list, loads>> /\ dialog.kind = "assign"
    BY <1>5 DEF AssignOrder, CanAssign
  <2>2. v.order = dialog.order /\ v.filter = list.filter /\ v.page = list.page
    BY DEF Idle
  <2> HIDE DEF v
  <2> QED
    BY <1>2, <2>1, <2>2
<1> QED
  BY <1>3, <1>4, <1>5

\* A handler goes on with what it closed over.
LEMMA CallsKeepHandlers ==
    ASSUME ScreenTypes, HandlersInv, [OSNext]_osVars, ServeStatus \/ ServePatch \/ ServeAssign \/ ServeImport
    PROVE  HandlersInv'
<1>1. PICK h \in Handlers, s \in NextSteps : work[h].step # "idle" /\ Advances(h, s)
  BY CallsAdvance
<1>2. UNCHANGED <<list, loads, dialog, hist>>
  BY CallsAdvance
<1>3. \A k \in Handlers : /\ work'[k].step # "idle" => work[k].step # "idle"
                          /\ work[k].step = "idle" => work'[k].step = "idle"
                          /\ work'[k].order = work[k].order /\ work'[k].filter = work[k].filter
                          /\ work'[k].page = work[k].page
  BY <1>1, HandlerGoesOn DEF ScreenTypes
<1>4. "assign" \in Handlers /\ "import" \in Handlers
  BY DEF Handlers
<1> QED
  BY <1>2, <1>3, <1>4 DEF HandlersInv, WorkInDialog, InItsDialog, FormAlone

\* How a handler ends: alone, with a reload, or closing its dialog.
LEMMA HandlersEnd ==
    ASSUME ScreenTypes, SaveEnds \/ AssignEnds \/ ImportEnds
    PROVE  \E h \in Handlers :
             /\ work' = [work EXCEPT ![h] = Idle] /\ work[h].step \in {"done", "refused", "invalid"}
             /\ \/ /\ work[h].step = "done" /\ list' = Loading
                   /\ loads' = Append(loads, Load(work[h].filter, work[h].page))
                   /\ dialog' = IF h # "import" /\ dialog.kind = h THEN NoDialog ELSE dialog
                   /\ hist' = hist
                \/ /\ UNCHANGED <<list, loads, dialog>>
                   /\ h # "import" => hist' = IF work[h].wrote THEN hist \cup {"partial"} ELSE hist
                   /\ h = "import" => hist' = hist
<1>1. CASE SaveEnds
  BY <1>1 DEF SaveEnds, Succeed, Fail, Handlers
<1>2. CASE AssignEnds
  BY <1>2 DEF AssignEnds, Succeed, Fail, Handlers
<1>3. CASE ImportEnds
  BY <1>3 DEF ImportEnds, Handlers
<1> QED
  BY <1>1, <1>2, <1>3

LEMMA EndsKeepHandlers ==
    ASSUME ScreenTypes, HandlersInv, [OSNext]_osVars, SaveEnds \/ AssignEnds \/ ImportEnds PROVE HandlersInv'
<1>1. /\ DialogTypes /\ hist \subseteq hist' /\ Handlers = {"edit", "assign", "import"} /\ list \in List
      /\ None \notin {"view", "edit", "assign", "import"} /\ NoDialog.kind = None
  BY HistoryGrows, OrdersScreenAssumption DEF ScreenTypes, DialogTypes, TableTypes, Handlers, NoDialog
<1>2. PICK h \in Handlers :
             /\ work' = [work EXCEPT ![h] = Idle] /\ work[h].step \in {"done", "refused", "invalid"}
             /\ \/ /\ work[h].step = "done" /\ list' = Loading
                   /\ loads' = Append(loads, Load(work[h].filter, work[h].page))
                   /\ dialog' = IF h # "import" /\ dialog.kind = h THEN NoDialog ELSE dialog
                   /\ hist' = hist
                \/ /\ UNCHANGED <<list, loads, dialog>>
                   /\ h # "import" => hist' = IF work[h].wrote THEN hist \cup {"partial"} ELSE hist
                   /\ h = "import" => hist' = hist
  BY HandlersEnd
<1>3. work'[h].step = "idle" /\ \A k \in Handlers : k # h => work'[k] = work[k]
  BY <1>1, <1>2, HandlerStops
<1>4. list'.filter = list.filter /\ list'.page = list.page
  BY <1>1, <1>2 DEF Loading, List
<1>5. WorkInDialog'
  <2> SUFFICES ASSUME "left" \notin hist', NEW k \in Handlers, work'[k].step # "idle" PROVE InItsDialog(k)'
    BY DEF WorkInDialog
  <2>1. k # h /\ work'[k] = work[k] /\ InItsDialog(k)
    BY <1>1, <1>3 DEF HandlersInv, WorkInDialog
  <2>2. dialog' = dialog
    BY <1>2, <2>1 DEF InItsDialog
  <2> QED
    BY <1>4, <2>1, <2>2 DEF InItsDialog
<1>6. FormAlone'
  <2> SUFFICES ASSUME dialog'.kind = "edit", ~dialog'.crowded
               PROVE  loads' = <<>> /\ work'["assign"].step = "idle" /\ work'["import"].step = "idle"
    BY DEF FormAlone
  <2>1. dialog' = dialog
    BY <1>1, <1>2
  <2>2. loads = <<>> /\ work["assign"].step = "idle" /\ work["import"].step = "idle"
    BY <2>1 DEF HandlersInv, FormAlone
  <2>3. h = "edit"
    BY <1>1, <1>2, <2>2
  <2>4. loads' = loads
    BY <1>1, <1>2, <2>1, <2>3
  <2> QED
    BY <1>1, <1>3, <2>2, <2>3, <2>4
<1> QED
  BY <1>5, <1>6 DEF HandlersInv

LEMMA HandlersStep == ScreenTypes /\ HandlersInv /\ [OSNext]_osVars => HandlersInv'
<1> SUFFICES ASSUME ScreenTypes, HandlersInv, [OSNext]_osVars PROVE HandlersInv'
  OBVIOUS
<1>1. CASE UNCHANGED osVars
  BY <1>1, RestKeepsHandlers DEF osVars
<1>2. CASE OSNext
  BY <1>2, TableKeepsHandlers, AnswersKeepHandlers, LeavingKeepsHandlers, StartsKeepHandlers,
     CallsKeepHandlers, EndsKeepHandlers DEF OSNext
<1> QED
  BY <1>1, <1>2

\* What was typed in an edit dialog stays, and a handler closes the dialog it was
\* called from (handleSaveOrder, handleAssignDriver, the fill effect of the form).
THEOREM TypedFormStays == OSSpec => TypedFormKept
<1>1. ScreenTypes /\ HandlersInv /\ [OSNext]_osVars =>
        [/\ dialog.kind = "edit" /\ ~dialog.crowded /\ dialog'.kind = "edit"
              => (list' # list => UNCHANGED dialog)
         /\ \A h \in {"edit", "assign"} :
              work[h].step = "done" /\ work'[h] = Idle /\ dialog.kind = h =>
                  dialog.order = work[h].order \/ "left" \in hist]_osVars
  <2> SUFFICES ASSUME ScreenTypes, HandlersInv, [OSNext]_osVars
               PROVE  /\ dialog.kind = "edit" /\ ~dialog.crowded /\ dialog'.kind = "edit"
                           => (list' # list => UNCHANGED dialog)
                      /\ \A h \in {"edit", "assign"} :
                           work[h].step = "done" /\ work'[h] = Idle /\ dialog.kind = h =>
                               dialog.order = work[h].order \/ "left" \in hist
    OBVIOUS
  <2>1. ASSUME dialog.kind = "edit", ~dialog.crowded, dialog'.kind = "edit", list' # list
        PROVE  UNCHANGED dialog
    <3>1. loads = <<>> /\ DOMAIN <<>> = {} /\ None # "edit"
      BY <2>1, OrdersScreenAssumption DEF HandlersInv, FormAlone
    <3>2. ~(\E f \in Filters : SetFilter(f)) /\ ~TurnPage /\ ~LoadFails
      BY ZenonT(60), <2>1, <3>1 DEF SetFilter, TurnPage, CanTurnForward, CanTurnBack, TableUsable, LoadFails
    <3>3. SaveEnds \/ AssignEnds \/ ImportEnds
      BY <2>1, <3>1, <3>2 DEF OSNext, osVars, OpenView, OpenEdit, OpenAssign, Elsewhere, ImportOrders, EditField,
         CloseDialog, SaveOrder, CancelOrder, PickDriver, AssignOrder, ServeCandidates, CandidatesArrive,
         ServeImport, ServeStatus, ServePatch, ServeAssign
    <3>4. \E h \in Handlers : dialog' = IF h # "import" /\ dialog.kind = h THEN NoDialog ELSE dialog
      BY <2>1, <3>3, HandlersEnd
    <3> QED
      BY <2>1, <3>1, <3>4 DEF NoDialog
  <2>2. ASSUME NEW h \in {"edit", "assign"}, work[h].step = "done", "left" \notin hist
        PROVE  dialog.order = work[h].order
    BY <2>2 DEF HandlersInv, WorkInDialog, InItsDialog, Handlers
  <2> QED
    BY <2>1, <2>2
<1>2. ScreenTypes /\ HandlersInv /\ [OSNext]_osVars => ScreenTypes' /\ HandlersInv'
  BY ScreenStep, HandlersStep
<1> QED
  BY <1>1, <1>2, InitScreenTypes, InitHandlers, PTL DEF OSSpec, TypedFormKept

-----------------------------------------------------------------------------
(* The request for the list that was sent last                               *)

Newest == loads[Len(loads)]

\* What a step of a page on which nothing unusual happened makes of the list.
ListAsked ==
    /\ loads' # <<>> /\ Newest'.rows = None
    /\ Newest'.filter = list'.filter /\ Newest'.page = list'.page
ListServed ==
    /\ loads # <<>> /\ loads' # <<>> /\ UNCHANGED list
    /\ Newest'.filter = Newest.filter /\ Newest'.page = Newest.page
    /\ \/ Newest'.rows = Newest.rows
       \/ Newest'.rows = Answer(Newest.filter, Newest.page) /\ Newest \in ListLoad
ListFilled ==
    /\ loads # <<>> /\ list'.filter = list.filter /\ list'.page = list.page
    /\ \/ loads' # <<>> /\ Newest' = Newest
       \/ /\ loads' = <<>> /\ Newest.rows # None /\ list'.rows = Newest.rows
          /\ list'.of = <<Newest.filter, Newest.page>> /\ ~list'.loading

LEMMA AskedIsNewest ==
    ASSUME TableTypes, NEW q \in Seq(ListLoad), NEW f \in Filters, NEW p \in Nat,
           loads' = Append(q, Load(f, p)), list'.filter = f, list'.page = p
    PROVE  ListAsked
<1>1. /\ loads' \in Seq(ListLoad) /\ Len(loads') = Len(q) + 1 /\ loads'[Len(q) + 1] = Load(f, p)
      /\ Load(f, p).filter = f /\ Load(f, p).page = p /\ Load(f, p).rows = None /\ Len(q) \in Nat
  BY LoadJoins
<1>2. loads' # <<>> /\ Newest' = Load(f, p)
  BY <1>1 DEF Newest
<1> QED
  BY <1>1, <1>2 DEF ListAsked

\* Filter and page.
LEMMA AskingIsNewest ==
    ASSUME ScreenTypes, (\E f \in Filters : SetFilter(f)) \/ TurnPage PROVE ListAsked
<1>1. TableTypes /\ list \in List /\ list.filter \in Filters /\ list.page \in Nat /\ loads \in Seq(ListLoad)
  BY DEF ScreenTypes, TableTypes, List
<1>2. ASSUME NEW f \in Filters, SetFilter(f) PROVE ListAsked
  <2>1. list'.filter = f /\ list'.page = 1
    BY <1>1, <1>2 DEF SetFilter, Loading, List
  <2>2. \E q \in Seq(ListLoad) : loads' = Append(q, Load(f, 1))
    <3>1. CASE loads' = loads \o <<Load(f, 1)>>
      BY <1>1, <3>1, AppendProperties
    <3>2. CASE loads' = loads \o <<Load(f, list.page), Load(f, 1)>>
      <4>1. Append(loads, Load(f, list.page)) \in Seq(ListLoad)
        BY <1>1, LoadJoins
      <4>2. loads' = Append(Append(loads, Load(f, list.page)), Load(f, 1))
        BY <1>1, <3>2
      <4> QED
        BY <4>1, <4>2
    <3> QED
      BY <1>2, <3>1, <3>2 DEF SetFilter
  <2> QED
    BY <1>1, <2>1, <2>2, AskedIsNewest
<1>3. ASSUME NEW p \in Nat, TurnTo(p) PROVE ListAsked
  <2>1. list'.filter = list.filter /\ list'.page = p /\ loads' = Append(loads, Load(list.filter, p))
    BY <1>1, <1>3 DEF TurnTo, Loading, List
  <2> QED
    BY <1>1, <2>1, AskedIsNewest
<1>4. TurnPage => \E p \in Nat : TurnTo(p)
  <2>1. list.page + 1 \in Nat /\ (CanTurnBack => list.page - 1 \in Nat)
    BY <1>1 DEF CanTurnBack
  <2> QED
    BY <2>1 DEF TurnPage
<1> QED
  BY <1>2, <1>3, <1>4

LEMMA AnswersAndNewest ==
    ASSUME ScreenTypes, NEW i \in DOMAIN loads, ServeLoad(i) \/ LoadArrives(i), "overtaken" \notin hist'
    PROVE  ListServed \/ ListFilled
<1>1. /\ list \in List /\ loads \in Seq(ListLoad) /\ i \in 1..Len(loads) /\ Len(loads) \in Nat /\ loads # <<>>
      /\ DOMAIN loads = 1..Len(loads)
  BY DEF ScreenTypes, TableTypes
<1>2. Newest \in ListLoad
  BY <1>1 DEF Newest
<1>3. CASE ServeLoad(i)
  <2> DEFINE rows == Answer(loads[i].filter, loads[i].page)
             l == [loads[i] EXCEPT !.rows = rows]
  <2>1. loads' = [loads EXCEPT ![i] = l] /\ UNCHANGED list
    BY <1>1, <1>3 DEF ServeLoad
  <2>2. loads[i] \in ListLoad
    BY <1>1
  <2>3. l.filter = loads[i].filter /\ l.page = loads[i].page /\ l.rows = rows
    BY <2>2 DEF ListLoad
  <2> HIDE DEF l, rows
  <2>4. Len(loads') = Len(loads) /\ loads' # <<>> /\ loads'[i] = l
        /\ \A j \in 1..Len(loads) : j # i => loads'[j] = loads[j]
    BY <1>1, <2>1
  <2>5. CASE i = Len(loads)
    BY <1>1, <1>2, <2>1, <2>3, <2>4, <2>5 DEF ListServed, Newest, rows
  <2>6. CASE i # Len(loads)
    BY <1>1, <2>1, <2>4, <2>6 DEF ListServed, Newest
  <2> QED
    BY <2>5, <2>6
<1>4. CASE LoadArrives(i)
  <2>1. i = 1
    BY <1>4 DEF LoadArrives
  <2>2. /\ loads' = Without(loads, i) /\ list'.filter = list.filter /\ list'.page = list.page
        /\ loads[i].rows # None /\ list'.rows = loads[i].rows
        /\ list'.of = <<loads[i].filter, loads[i].page>> /\ list'.loading = FALSE
    BY <1>1, <1>4 DEF LoadArrives, Without, List
  <2>3. /\ loads' \in Seq(ListLoad) /\ Len(loads') = Len(loads) - 1
        /\ \A j \in i..(Len(loads) - 1) : loads'[j] = loads[j + 1]
    BY <1>1, <2>2, AnsweredLeaves
  <2>4. CASE Len(loads) = 1
    <3>1. loads' = <<>> /\ Newest = loads[i]
      BY <2>1, <2>3, <2>4 DEF Newest
    <3> QED
      BY <1>1, <2>2, <3>1 DEF ListFilled
  <2>5. CASE Len(loads) # 1
    <3>1. Len(loads) - 1 \in i..(Len(loads) - 1) /\ (Len(loads) - 1) + 1 = Len(loads) /\ Len(loads') > 0
      BY <1>1, <2>1, <2>3, <2>5
    <3>2. Newest' = Newest /\ loads' # <<>>
      BY <2>3, <3>1 DEF Newest
    <3> QED
      BY <1>1, <2>2, <3>2 DEF ListFilled
  <2> QED
    BY <2>4, <2>5
<1> QED
  BY <1>3, <1>4

\* A handler reloads with the filter and page it closed over, which are the present ones.
LEMMA EndsAskAgain ==
    ASSUME ScreenTypes, HandlersInv, "left" \notin hist, SaveEnds \/ AssignEnds \/ ImportEnds
    PROVE  UNCHANGED <<list, loads>> \/ ListAsked
<1>1. /\ TableTypes /\ list \in List /\ loads \in Seq(ListLoad) /\ list.filter \in Filters /\ list.page \in Nat
  BY DEF ScreenTypes, TableTypes, List
<1>2. ASSUME NEW h \in Handlers, work[h].step = "done", list' = Loading,
             loads' = Append(loads, Load(work[h].filter, work[h].page))
      PROVE  ListAsked
  <2>1. work[h].filter = list.filter /\ work[h].page = list.page
    BY <1>2 DEF HandlersInv, WorkInDialog, InItsDialog
  <2>2. list'.filter = list.filter /\ list'.page = list.page
    BY <1>1, <1>2 DEF Loading, List
  <2> QED
    BY <1>1, <1>2, <2>1, <2>2, AskedIsNewest
<1> QED
  BY <1>2, HandlersEnd

LEMMA ListMoves ==
    ASSUME ScreenTypes, HandlersInv, [OSNext]_osVars, hist' \cap {"left", "overtaken", "lost"} = {}
    PROVE  UNCHANGED <<list, loads>> \/ ListAsked \/ ListServed \/ ListFilled
<1>1. "left" \notin hist /\ "overtaken" \notin hist' /\ "lost" \notin hist'
  BY HistoryGrows
<1>2. (\E f \in Filters : SetFilter(f)) \/ TurnPage => ListAsked
  BY AskingIsNewest
<1>3. \A i \in DOMAIN loads : ServeLoad(i) \/ LoadArrives(i) => ListServed \/ ListFilled
  BY <1>1, AnswersAndNewest
<1>4. SaveEnds \/ AssignEnds \/ ImportEnds => UNCHANGED <<list, loads>> \/ ListAsked
  BY <1>1, EndsAskAgain
<1>5. ~LoadFails
  BY SMTT(30), <1>1 DEF LoadFails
<1>6. ServeStatus \/ ServePatch \/ ServeAssign \/ ServeImport => UNCHANGED <<list, loads>>
  BY DEF ServeStatus, ServePatch, ServeAssign, ServeImport
<1>7. /\ \A o \in Known : OpenView(o) \/ OpenEdit(o) \/ OpenAssign(o) \/ Elsewhere(o) => UNCHANGED <<list, loads>>
      /\ ImportOrders \/ EditField \/ CloseDialog \/ SaveOrder \/ CancelOrder => UNCHANGED <<list, loads>>
      /\ \A d \in Drivers : PickDriver(d) => UNCHANGED <<list, loads>>
      /\ \A d \in Drivers \cup {None} : AssignOrder(d) => UNCHANGED <<list, loads>>
      /\ \A i \in DOMAIN cands : ServeCandidates(i) \/ CandidatesArrive(i) => UNCHANGED <<list, loads>>
      /\ UNCHANGED osVars => UNCHANGED <<list, loads>>
  BY DEF OpenView, OpenEdit, OpenAssign, Elsewhere, ImportOrders, EditField, CloseDialog, SaveOrder,
         CancelOrder, PickDriver, AssignOrder, ServeCandidates, CandidatesArrive, osVars
<1> QED
  BY <1>2, <1>3, <1>4, <1>5, <1>6, <1>7 DEF OSNext

\* The newest request asks for the present filter and page, and once it has been
\* answered the list is that answer.
ListFollows ==
    hist \cap {"left", "overtaken", "lost"} = {} =>
        /\ loads = <<>> => list.of = <<list.filter, list.page>> /\ ~list.loading
        /\ loads # <<>> => Newest.filter = list.filter /\ Newest.page = list.page

LEMMA ListFollowsStep == ScreenTypes /\ HandlersInv /\ ListFollows /\ [OSNext]_osVars => ListFollows'
<1> SUFFICES ASSUME ScreenTypes, HandlersInv, ListFollows, [OSNext]_osVars,
                    hist' \cap {"left", "overtaken", "lost"} = {}
             PROVE  /\ loads' = <<>> => list'.of = <<list'.filter, list'.page>> /\ ~list'.loading
                    /\ loads' # <<>> => Newest'.filter = list'.filter /\ Newest'.page = list'.page
  BY DEF ListFollows
<1>1. hist \cap {"left", "overtaken", "lost"} = {}
  BY HistoryGrows
<1>2. CASE UNCHANGED <<list, loads>>
  BY <1>1, <1>2 DEF ListFollows, Newest
<1>3. CASE ListAsked
  BY <1>3 DEF ListAsked
<1>4. CASE ListServed
  BY <1>1, <1>4 DEF ListServed, ListFollows
<1>5. CASE ListFilled
  BY <1>1, <1>5 DEF ListFilled, ListFollows
<1> QED
  BY <1>2, <1>3, <1>4, <1>5, ListMoves

\* The newest request for candidates is for the order of the open dialog, and once
\* it has been answered the candidates are that answer.
CandsFollow ==
    dialog.kind = "assign" /\ "overtaken" \notin hist =>
        /\ cands = <<>> => dialog.cands.of = dialog.order
        /\ cands # <<>> => cands[Len(cands)].order = dialog.order

LEMMA RestKeepsCandidates ==
    ASSUME CandsFollow, [OSNext]_osVars, UNCHANGED cands,
           dialog'.kind = "assign" => dialog.kind = "assign" /\ dialog'.order = dialog.order /\ dialog'.cands = dialog.cands
    PROVE  CandsFollow'
BY HistoryGrows DEF CandsFollow

\* Candidates are asked for the order of the dialog.
LEMMA AskingKeepsCandidates ==
    ASSUME TableTypes, NEW o, cands' = Append(cands, [order |-> o, drivers |-> None]), dialog'.order = o
    PROVE  CandsFollow'
<1> DEFINE c == [order |-> o, drivers |-> None]
<1>1. cands' = Append(cands, c) /\ c.order = o /\ cands \in Seq(Cand)
  BY DEF TableTypes
<1> HIDE DEF c
<1>2. cands' # <<>> /\ cands'[Len(cands')] = c
  BY <1>1
<1> QED
  BY <1>1, <1>2 DEF CandsFollow

LEMMA ListAnswersKeepCandidates ==
    ASSUME ScreenTypes, CandsFollow, [OSNext]_osVars, NEW i \in DOMAIN loads, LoadArrives(i)
    PROVE  CandsFollow'
<1> DEFINE rows == loads[i].rows
<1>1. dialog' = Refilled(rows) /\ cands' = AskedAgain(rows) /\ DOMAIN dialog = DialogFields /\ TableTypes
  BY DEF LoadArrives, ScreenTypes, DialogTypes
<1> HIDE DEF rows
<1>2. CASE dialog.kind = "assign" /\ AsksCandidates(dialog.order, rows)
  <2>1. dialog' = [dialog EXCEPT !.busy = TRUE]
    BY <1>1, <1>2 DEF Refilled
  <2>2. dialog'.order = dialog.order
    BY <1>1, <2>1 DEF DialogFields
  <2>3. cands' = Append(cands, [order |-> dialog.order, drivers |-> None])
    BY <1>1, <1>2 DEF AskedAgain
  <2> QED
    BY <1>1, <2>2, <2>3, AskingKeepsCandidates
<1>3. CASE dialog.kind = "assign" /\ ~AsksCandidates(dialog.order, rows)
  <2>1. dialog' = [dialog EXCEPT !.cands = [of |-> dialog.order, drivers |-> {}], !.busy = FALSE] /\ cands' = cands
    BY <1>1, <1>3 DEF Refilled, AskedAgain
  <2>2. dialog'.order = dialog.order /\ dialog'.cands.of = dialog.order /\ dialog'.kind = "assign"
    BY <1>1, <1>3, <2>1 DEF DialogFields
  <2> QED
    BY <1>3, <2>1, <2>2, HistoryGrows DEF CandsFollow
<1>4. CASE dialog.kind # "assign"
  <2>1. dialog'.kind = dialog.kind
    BY AnswersKeepTypes
  <2> QED
    BY <1>4, <2>1 DEF CandsFollow
<1> QED
  BY <1>2, <1>3, <1>4

LEMMA CandidateAnswersKeepCandidates ==
    ASSUME ScreenTypes, CandsFollow, [OSNext]_osVars, NEW i \in DOMAIN cands,
           ServeCandidates(i) \/ CandidatesArrive(i)
    PROVE  CandsFollow'
<1>1. /\ cands \in Seq(Cand) /\ i \in 1..Len(cands) /\ Len(cands) \in Nat /\ cands # <<>>
      /\ DOMAIN dialog = DialogFields
  BY DEF ScreenTypes, TableTypes, DialogTypes
<1>2. CASE ServeCandidates(i)
  <2>1. PICK D \in SUBSET Drivers : cands' = [cands EXCEPT ![i].drivers = D]
    BY <1>2 DEF ServeCandidates
  <2> DEFINE c == [cands[i] EXCEPT !.drivers = D]
  <2>2. cands' = [cands EXCEPT ![i] = c]
    BY <2>1
  <2>3. c.order = cands[i].order
    OBVIOUS
  <2> HIDE DEF c
  <2>4. cands' # <<>> /\ Len(cands') = Len(cands) /\ cands'[Len(cands')].order = cands[Len(cands)].order
    BY <1>1, <2>2, <2>3
  <2> QED
    BY <1>1, <1>2, <2>4 DEF CandsFollow, ServeCandidates
<1>3. CASE CandidatesArrive(i)
  <2> SUFFICES ASSUME dialog'.kind = "assign", "overtaken" \notin hist'
               PROVE  /\ cands' = <<>> => dialog'.cands.of = dialog'.order
                      /\ cands' # <<>> => cands'[Len(cands')].order = dialog'.order
    BY DEF CandsFollow
  <2>1. /\ i = 1 /\ cands' = Without(cands, i) /\ dialog'.kind = dialog.kind /\ dialog'.order = dialog.order
        /\ "overtaken" \notin hist
    BY <1>3, AnswersKeepTypes, HistoryGrows DEF CandidatesArrive, Without
  <2>2. cands[Len(cands)].order = dialog.order
    BY <1>1, <2>1 DEF CandsFollow
  <2>3. /\ cands' \in Seq(Cand) /\ Len(cands') = Len(cands) - 1
        /\ \A j \in i..(Len(cands) - 1) : cands'[j] = cands[j + 1]
    BY <1>1, <2>1, AnsweredLeaves
  <2>4. dialog'.cands.of = cands[i].order
    <3>1. PICK ok \in BOOLEAN :
            dialog' = [dialog EXCEPT !.busy = FALSE, !.form = IF ok THEN None ELSE @,
                         !.cands = [of |-> cands[i].order,
                                    drivers |-> IF ok THEN cands[i].drivers ELSE {}]]
      BY <1>3, <2>1 DEF CandidatesArrive
    <3> QED
      BY <1>1, <3>1 DEF DialogFields
  <2>5. CASE Len(cands) = 1
    <3>1. cands' = <<>>
      BY <2>3, <2>5
    <3> QED
      BY <2>1, <2>2, <2>4, <2>5, <3>1
  <2>6. CASE Len(cands) # 1
    <3>1. Len(cands) - 1 \in i..(Len(cands) - 1) /\ (Len(cands) - 1) + 1 = Len(cands) /\ Len(cands') > 0
      BY <1>1, <2>1, <2>3, <2>6
    <3>2. cands' # <<>> /\ cands'[Len(cands')] = cands[Len(cands)]
      BY <2>3, <3>1
    <3> QED
      BY <2>1, <2>2, <3>2
  <2> QED
    BY <2>5, <2>6
<1> QED
  BY <1>2, <1>3

LEMMA CandsFollowStep == ScreenTypes /\ CandsFollow /\ [OSNext]_osVars => CandsFollow'
<1> SUFFICES ASSUME ScreenTypes, CandsFollow, [OSNext]_osVars PROVE CandsFollow'
  OBVIOUS
<1>1. /\ DOMAIN dialog = DialogFields /\ TableTypes /\ NoDialog.kind = None /\ None # "assign"
  BY OrdersScreenAssumption DEF ScreenTypes, DialogTypes, NoDialog
<1>2. ASSUME NEW o \in Known, OpenAssign(o) PROVE CandsFollow'
  <2>1. dialog'.order = o /\ cands' = Append(cands, [order |-> o, drivers |-> None])
    BY <1>2 DEF OpenAssign, NoDialog
  <2> QED
    BY <1>1, <2>1, AskingKeepsCandidates
<1>3. ASSUME NEW o \in Known, OpenView(o) \/ OpenEdit(o) \/ Elsewhere(o) PROVE CandsFollow'
  <2>1. UNCHANGED cands /\ (dialog'.kind = "assign" => UNCHANGED dialog)
    BY <1>3 DEF OpenView, OpenEdit, Elsewhere, NoDialog
  <2> QED
    BY <2>1, RestKeepsCandidates
<1>4. CASE ImportOrders \/ EditField \/ CloseDialog \/ SaveOrder \/ CancelOrder
  <2>1. UNCHANGED cands
    BY <1>4 DEF ImportOrders, EditField, CloseDialog, SaveOrder, CancelOrder
  <2>2. dialog'.kind = "assign" => UNCHANGED dialog
    <3>1. EditField => dialog'.kind = "edit"
      BY <1>1 DEF EditField, CanEdit, DialogFields
    <3> QED
      BY <1>1, <1>4, <3>1 DEF ImportOrders, CloseDialog, SaveOrder, CancelOrder, NoDialog
  <2> QED
    BY <2>1, <2>2, RestKeepsCandidates
<1>5. ASSUME NEW d \in Drivers, PickDriver(d) PROVE CandsFollow'
  <2>1. UNCHANGED cands /\ dialog'.kind = dialog.kind /\ dialog'.order = dialog.order /\ dialog'.cands = dialog.cands
    BY <1>1, <1>5 DEF PickDriver, DialogFields
  <2> QED
    BY <2>1, RestKeepsCandidates
<1>6. /\ \A f \in Filters : SetFilter(f) => UNCHANGED <<dialog, cands>>
      /\ \A d \in Drivers \cup {None} : AssignOrder(d) => UNCHANGED <<dialog, cands>>
      /\ \A i \in DOMAIN loads : ServeLoad(i) => UNCHANGED <<dialog, cands>>
      /\ TurnPage \/ LoadFails \/ ServeStatus \/ ServePatch \/ ServeAssign \/ ServeImport => UNCHANGED <<dialog, cands>>
      /\ UNCHANGED osVars => UNCHANGED <<dialog, cands>>
  BY DEF SetFilter, AssignOrder, ServeLoad, TurnPage, TurnTo, LoadFails, ServeStatus, ServePatch,
         ServeAssign, ServeImport, osVars
<1>7. ASSUME UNCHANGED <<dialog, cands>> PROVE CandsFollow'
  BY <1>7, RestKeepsCandidates
<1>8. CASE SaveEnds \/ AssignEnds \/ ImportEnds
  <2>1. UNCHANGED cands /\ (dialog' = dialog \/ dialog' = NoDialog)
    BY <1>8, HandlersEnd DEF SaveEnds, AssignEnds, ImportEnds
  <2> QED
    BY <1>1, <2>1, RestKeepsCandidates
<1>9. \A i \in DOMAIN loads : LoadArrives(i) => CandsFollow'
  BY ListAnswersKeepCandidates
<1>10. \A i \in DOMAIN cands : ServeCandidates(i) \/ CandidatesArrive(i) => CandsFollow'
  BY CandidateAnswersKeepCandidates
<1> QED
  BY <1>2, <1>3, <1>4, <1>5, <1>6, <1>7, <1>8, <1>9, <1>10 DEF OSNext

LEMMA InitFollows == OSInit => ListFollows /\ CandsFollow
<1> SUFFICES ASSUME OSInit PROVE ListFollows /\ CandsFollow
  OBVIOUS
<1>1. loads # <<>> /\ Newest = Load("all", 1)
  BY DEF OSInit, Newest
<1>2. Load("all", 1).filter = "all" /\ Load("all", 1).page = 1
  BY DEF Load
<1>3. list.filter = "all" /\ list.page = 1 /\ dialog.kind = None
  BY DEF OSInit, NoDialog
<1> QED
  BY <1>1, <1>2, <1>3, OrdersScreenAssumption DEF ListFollows, CandsFollow

\* When nothing is in flight the list answers the filter and page that are selected,
\* and the candidates are those of the order in the dialog (the effects of the list
\* and of the assign dialog, and the reload of every handler).
THEOREM PageIsCurrent == OSSpec => []SettledPageIsCurrent
<1>1. OSInit => ScreenTypes /\ HandlersInv /\ ListFollows /\ CandsFollow
  BY InitScreenTypes, InitHandlers, InitFollows
<1>2. ScreenTypes /\ HandlersInv /\ ListFollows /\ CandsFollow /\ [OSNext]_osVars
        => ScreenTypes' /\ HandlersInv' /\ ListFollows' /\ CandsFollow'
  BY ScreenStep, HandlersStep, ListFollowsStep, CandsFollowStep
<1>3. ListFollows /\ CandsFollow => SettledPageIsCurrent
  BY DEF ListFollows, CandsFollow, SettledPageIsCurrent, AtRest
<1> QED
  BY <1>1, <1>2, <1>3, PTL DEF OSSpec

-----------------------------------------------------------------------------
(* The page's own writes                                                     *)

\* No write of the page is newer than the order it wrote.
Version(o) == IF o \in Known THEN server[o].ver ELSE 0
MineKnown == \A o \in Ids : mine[o] <= Version(o)

\* As long as nothing unusual happened, a write is still to be reloaded by the
\* handler that made it, or in the newest answer for the list, sent or to come.
UpTo(rows, o) == o \in DOMAIN rows => rows[o].ver >= mine[o]
Wrote(h, o) == work[h].step # "idle" /\ work[h].wrote /\ work[h].order = o
Awaited(o) ==
    /\ loads = <<>> => UpTo(list.rows, o)
    /\ loads # <<>> => Newest.rows = None \/ UpTo(Newest.rows, o)
ChangesShown == hist = {} => \A o \in Ids : Wrote("edit", o) \/ Wrote("assign", o) \/ Awaited(o)

LEMMA InitWrites == OSInit => MineKnown /\ ChangesShown
<1> SUFFICES ASSUME OSInit PROVE MineKnown /\ ChangesShown
  OBVIOUS
<1>1. TableTypes /\ \A o \in Known : server[o] \in Listed
  BY InitScreenTypes DEF ScreenTypes, TableTypes, Known
<1>2. \A o \in Ids : mine[o] = 0 /\ Version(o) \in Nat
  BY <1>1 DEF OSInit, Version, Listed
<1>3. loads # <<>> /\ Newest.rows = None
  BY DEF OSInit, Newest, Load
<1> QED
  BY <1>2, <1>3 DEF MineKnown, ChangesShown, Awaited

\* Orders only get newer.
LEMMA VersionsGrow ==
    ASSUME ScreenTypes, [OSNext]_osVars, NEW o \in Ids, Writing => UNCHANGED server
    PROVE  Version(o) \in Nat /\ Version(o)' \in Nat /\ Version(o) <= Version(o)'
<1>1. /\ TableTypes /\ TableTypes' /\ server \in Seq(Listed) /\ \A p \in Known : server[p] \in Listed
      /\ \A p \in Known' : server'[p] \in Listed
  BY TableStep DEF ScreenTypes, TableTypes, Known
<1>2. Version(o) \in Nat /\ Version(o)' \in Nat
  BY <1>1 DEF Version, Listed
<1>3. CASE server' = server
  BY <1>2, <1>3 DEF Version, Known
<1>4. ASSUME NEW p \in Known, Elsewhere(p) PROVE Version(o) <= Version(o)'
  <2>1. PICK row : server' = [server EXCEPT ![p] = row] /\ row.ver = server[p].ver + 1
    <3>1. CASE \E s \in OrderStatus : server' = [server EXCEPT ![p].status = s, ![p].ver = @ + 1]
      <4>1. PICK s \in OrderStatus : server' = [server EXCEPT ![p].status = s, ![p].ver = @ + 1]
        BY <3>1
      <4>2. /\ server' = [server EXCEPT ![p] = [server[p] EXCEPT !.status = s, !.ver = @ + 1]]
            /\ [server[p] EXCEPT !.status = s, !.ver = @ + 1].ver = server[p].ver + 1
        BY <1>1, <4>1, KnownOrders, WrittenRows
      <4> QED
        BY <4>2
    <3>2. CASE server' = [server EXCEPT ![p].time = 1 - @, ![p].ver = @ + 1]
      <4> DEFINE row == [server[p] EXCEPT !.time = 1 - @, !.ver = @ + 1]
      <4>1. server' = [server EXCEPT ![p] = row]
        BY <1>1, <3>2, KnownOrders
      <4>2. 1 - server[p].time \in {0, 1}
        BY <1>1 DEF Listed
      <4>3. row.ver = server[p].ver + 1
        BY <1>1, <4>2, WrittenRows
      <4> HIDE DEF row
      <4> QED
        BY <4>1, <4>3
    <3> QED
      BY <1>4, <3>1, <3>2 DEF Elsewhere
  <2>2. Len(server') = Len(server) /\ \A q \in Known : q # p => server'[q] = server[q]
    BY <1>1, <2>1, KnownOrders
  <2>3. server'[p] = row /\ server[p].ver \in Nat /\ Known' = Known
    BY <1>1, <2>1, <2>2, KnownOrders DEF Known, Listed
  <2> QED
    BY <1>2, <2>1, <2>2, <2>3 DEF Version
<1>5. CASE ServeImport
  <2>1. ASSUME NEW row \in Listed, server' = Append(server, row) PROVE Version(o) <= Version(o)'
    <3>1. \A p \in Known : p \in Known' /\ server'[p] = server[p]
      BY <1>1, <2>1 DEF Known
    <3>2. CASE o \in Known
      BY <1>2, <3>1, <3>2 DEF Version
    <3>3. CASE o \notin Known
      BY <1>2, <3>3 DEF Version
    <3> QED
      BY <3>2, <3>3
  <2>2. [status |-> "created", time |-> 0, driver |-> None, ver |-> 0] \in Listed
    BY DEF Listed, OrderStatus
  <2>3. server' = server \/ \E row \in Listed : server' = Append(server, row)
    BY <1>5, <2>2 DEF ServeImport
  <2> QED
    BY <1>2, <1>3, <2>1, <2>3
<1>6. OSNext /\ server' # server => Writing \/ ServeImport \/ \E p \in Known : Elsewhere(p)
  BY DEF OSNext, Writing, OpenView, OpenEdit, OpenAssign, SetFilter, TurnPage, TurnTo, ImportOrders,
         EditField, CloseDialog, SaveOrder, CancelOrder, PickDriver, AssignOrder, ServeLoad, LoadArrives,
         LoadFails, ServeCandidates, CandidatesArrive, SaveEnds, AssignEnds, ImportEnds
<1> QED
  BY <1>2, <1>3, <1>4, <1>5, <1>6 DEF osVars

LEMMA MineKnownStep == ScreenTypes /\ MineKnown /\ [OSNext]_osVars => MineKnown'
<1> SUFFICES ASSUME ScreenTypes, MineKnown, [OSNext]_osVars PROVE MineKnown'
  OBVIOUS
<1>1. /\ mine \in [Ids -> Nat] /\ server \in Seq(Listed) /\ Known \subseteq Ids /\ Known = DOMAIN server
      /\ Known = 1..Len(server)
  BY KnownOrders DEF ScreenTypes, TableTypes, Known
<1>2. ASSUME NEW h \in {"edit", "assign"}, NEW row \in Listed, NEW s \in NextSteps, Writes(h, row, s)
      PROVE  MineKnown'
  <2> DEFINE o == work[h].order
  <2>1. o \in Known /\ server' = [server EXCEPT ![o] = row] /\ mine' = [mine EXCEPT ![o] = row.ver]
    BY <1>2 DEF Writes, Commit
  <2> HIDE DEF o
  <2>2. Known' = Known /\ server'[o] = row /\ \A p \in Known : p # o => server'[p] = server[p]
    BY <1>1, <2>1 DEF Known
  <2>3. mine'[o] = row.ver /\ \A p \in Ids : p # o => mine'[p] = mine[p]
    BY <1>1, <2>1
  <2>4. row.ver \in Nat
    BY DEF Listed
  <2>5. ASSUME NEW p \in Ids PROVE mine'[p] <= Version(p)'
    <3>1. CASE p = o
      BY <2>1, <2>2, <2>3, <2>4, <3>1 DEF Version
    <3>2. CASE p # o
      BY <2>2, <2>3, <3>2 DEF Version, MineKnown
    <3> QED
      BY <3>1, <3>2
  <2> QED
    BY <2>5 DEF MineKnown
<1>3. ASSUME mine' = mine, Writing => UNCHANGED server PROVE MineKnown'
  <2> SUFFICES ASSUME NEW o \in Ids PROVE mine'[o] <= Version(o)'
    BY DEF MineKnown
  <2>1. Version(o) \in Nat /\ Version(o)' \in Nat /\ Version(o) <= Version(o)'
    BY <1>3, VersionsGrow
  <2>2. mine[o] \in Nat /\ mine[o] <= Version(o)
    BY <1>1 DEF MineKnown
  <2> QED
    BY <1>3, <2>1, <2>2
<1>4. CASE ~Writing
  BY <1>3, <1>4, OnlyCallsWrite
<1> QED
  BY <1>2, <1>3, <1>4, WriteOfCall

\* What the list shows or will show stays recent while the page writes nothing.
LEMMA AwaitedStays ==
    ASSUME ScreenTypes, HandlersInv, MineKnown, [OSNext]_osVars, hist' = {}, mine' = mine,
           NEW o \in Ids, Awaited(o)
    PROVE  Awaited(o)'
<1>1. /\ TableTypes /\ mine[o] \in Nat /\ mine[o] <= Version(o) /\ mine'[o] = mine[o]
      /\ hist' \cap {"left", "overtaken", "lost"} = {}
  BY DEF ScreenTypes, TableTypes, MineKnown
<1>2. ASSUME Newest \in ListLoad, o \in DOMAIN Answer(Newest.filter, Newest.page)
      PROVE  Answer(Newest.filter, Newest.page)[o].ver >= mine[o]
  <2>1. Newest.filter \in Filters /\ Newest.page \in Nat
    BY <1>2 DEF ListLoad
  <2>2. o \in Known /\ Answer(Newest.filter, Newest.page)[o] = server[o]
    BY <1>1, <1>2, <2>1, AnswerIsKnown
  <2>3. server[o].ver >= mine[o]
    <3>1. server[o] \in Listed
      BY <1>1, <2>2 DEF TableTypes, Known
    <3> QED
      BY <1>1, <2>2, <3>1 DEF Version, Listed
  <2> QED
    BY <2>2, <2>3
<1>3. CASE UNCHANGED <<list, loads>>
  BY <1>1, <1>3 DEF Awaited, UpTo, Newest
<1>4. CASE ListAsked
  BY <1>4 DEF ListAsked, Awaited
<1>5. CASE ListServed
  BY <1>1, <1>2, <1>5 DEF ListServed, Awaited, UpTo
<1>6. CASE ListFilled
  BY <1>1, <1>6 DEF ListFilled, Awaited, UpTo
<1> QED
  BY <1>1, <1>3, <1>4, <1>5, <1>6, ListMoves

\* What a handler wrote stays with it until it reloads the list.
LEMMA WroteStays ==
    ASSUME ScreenTypes, HandlersInv, [OSNext]_osVars, hist' = {}, NEW h \in {"edit", "assign"}, NEW o \in Ids,
           Wrote(h, o)
    PROVE  Wrote(h, o)' \/ Awaited(o)'
<1>1. /\ DialogTypes /\ DOMAIN work = Handlers /\ h \in Handlers /\ Handlers = {"edit", "assign", "import"}
      /\ work[h].step # "idle" /\ work[h] # Idle /\ "left" \notin hist
  BY HistoryGrows DEF ScreenTypes, DialogTypes, Handlers, Wrote, Idle
<1>2. ASSUME work'[h] = work[h] PROVE Wrote(h, o)'
  BY <1>2 DEF Wrote
<1>3. CASE SaveOrder \/ CancelOrder
  <2>1. work["edit"] = Idle /\ \E w : work' = [work EXCEPT !["edit"] = w]
    BY <1>3 DEF SaveOrder, CancelOrder, CanCancelOrder, CanSave
  <2> QED
    BY <1>1, <1>2, <2>1
<1>4. ASSUME NEW d \in Drivers \cup {None}, AssignOrder(d) PROVE Wrote(h, o)'
  <2>1. work["assign"] = Idle /\ \E w : work' = [work EXCEPT !["assign"] = w]
    BY <1>4 DEF AssignOrder, CanAssign
  <2> QED
    BY <1>1, <1>2, <2>1
<1>5. CASE ImportOrders
  <2>1. \E w : work' = [work EXCEPT !["import"] = w]
    BY <1>5 DEF ImportOrders
  <2> QED
    BY <1>1, <1>2, <2>1
<1>6. CASE Writing \/ ServeImport
  <2>1. PICK k \in Handlers, s \in NextSteps : Advances(k, s)
    BY <1>6, CallsAdvance DEF Writing
  <2>2. /\ work'[k].step = s /\ work'[k].order = work[k].order /\ (work[k].wrote => work'[k].wrote)
        /\ \A j \in Handlers : j # k => work'[j] = work[j]
    BY <1>1, <2>1, HandlerGoesOn
  <2>3. CASE k = h
    BY <2>2, <2>3 DEF Wrote, NextSteps
  <2>4. CASE k # h
    BY <1>1, <1>2, <2>2, <2>4
  <2> QED
    BY <2>3, <2>4
<1>7. CASE SaveEnds \/ AssignEnds \/ ImportEnds
  <2>1. PICK k \in Handlers :
             /\ work' = [work EXCEPT ![k] = Idle] /\ work[k].step \in {"done", "refused", "invalid"}
             /\ \/ /\ work[k].step = "done" /\ list' = Loading
                   /\ loads' = Append(loads, Load(work[k].filter, work[k].page))
                   /\ dialog' = IF k # "import" /\ dialog.kind = k THEN NoDialog ELSE dialog
                   /\ hist' = hist
                \/ /\ UNCHANGED <<list, loads, dialog>>
                   /\ k # "import" => hist' = IF work[k].wrote THEN hist \cup {"partial"} ELSE hist
                   /\ k = "import" => hist' = hist
    BY <1>7, HandlersEnd
  <2>2. CASE k # h
    <3>1. work'[h] = work[h]
      BY <1>1, <2>1, <2>2
    <3> QED
      BY <1>2, <3>1
  <2>3. CASE k = h
    <3>1. loads' = Append(loads, Load(work[k].filter, work[k].page)) /\ work[k].step = "done"
      BY <1>1, <2>1, <2>3 DEF Wrote
    <3>2. work[k].filter \in Filters /\ work[k].page \in Nat /\ loads \in Seq(ListLoad) /\ TableTypes
      BY <3>1 DEF ScreenTypes, DialogTypes, TableTypes
    <3> DEFINE q == Load(work[k].filter, work[k].page)
    <3>3. q.rows = None
      BY DEF Load
    <3> HIDE DEF q
    <3>4. loads' # <<>> /\ loads'[Len(loads')] = q
      BY <3>1, <3>2 DEF q
    <3> QED
      BY <3>3, <3>4 DEF Awaited, Newest
  <2> QED
    BY <2>2, <2>3
<1>8. /\ \A p \in Known : OpenView(p) \/ OpenEdit(p) \/ OpenAssign(p) \/ Elsewhere(p) => work' = work
      /\ \A f \in Filters : SetFilter(f) => work' = work
      /\ TurnPage \/ EditField \/ CloseDialog \/ LoadFails => work' = work
      /\ \A d \in Drivers : PickDriver(d) => work' = work
      /\ \A i \in DOMAIN loads : ServeLoad(i) \/ LoadArrives(i) => work' = work
      /\ \A i \in DOMAIN cands : ServeCandidates(i) \/ CandidatesArrive(i) => work' = work
      /\ UNCHANGED osVars => work' = work
  BY DEF OpenView, OpenEdit, OpenAssign, Elsewhere, SetFilter, TurnPage, TurnTo, EditField, CloseDialog,
         LoadFails, PickDriver, ServeLoad, LoadArrives, ServeCandidates, CandidatesArrive, osVars
<1>9. ASSUME work' = work PROVE Wrote(h, o)'
  BY <1>2, <1>9
<1> QED
  BY <1>3, <1>4, <1>5, <1>6, <1>7, <1>8, <1>9 DEF OSNext, Writing

LEMMA ChangesShownStep ==
    ScreenTypes /\ HandlersInv /\ MineKnown /\ ChangesShown /\ [OSNext]_osVars => ChangesShown'
<1> SUFFICES ASSUME ScreenTypes, HandlersInv, MineKnown, ChangesShown, [OSNext]_osVars, hist' = {}, NEW o \in Ids
             PROVE  Wrote("edit", o)' \/ Wrote("assign", o)' \/ Awaited(o)'
  BY DEF ChangesShown
<1>1. Wrote("edit", o) \/ Wrote("assign", o) \/ Awaited(o)
  BY HistoryGrows DEF ChangesShown
<1>2. CASE Wrote("edit", o)
  BY <1>2, WroteStays
<1>3. CASE Wrote("assign", o)
  BY <1>3, WroteStays
<1>4. CASE Awaited(o) /\ mine' = mine
  BY <1>4, AwaitedStays
<1>5. ASSUME NEW h \in {"edit", "assign"}, NEW row \in Listed, NEW s \in NextSteps, Writes(h, row, s), Awaited(o)
      PROVE  Wrote(h, o)' \/ Awaited(o)'
  <2>1. /\ mine' = [mine EXCEPT ![work[h].order] = row.ver] /\ UNCHANGED <<list, loads>>
        /\ work' = [work EXCEPT ![h].step = s, ![h].wrote = TRUE] /\ mine \in [Ids -> Nat]
    BY <1>5 DEF Writes, Commit, ScreenTypes, TableTypes
  <2>2. CASE o = work[h].order
    <3>1. work'[h].step = s /\ work'[h].wrote /\ work'[h].order = work[h].order
      BY <2>1 DEF ScreenTypes, DialogTypes, Handlers, WorkFields
    <3> QED
      BY <2>2, <3>1 DEF Wrote, NextSteps
  <2>3. CASE o # work[h].order
    <3>1. mine'[o] = mine[o]
      BY <2>1, <2>3
    <3> QED
      BY <1>5, <2>1, <3>1 DEF Awaited, UpTo, Newest
  <2> QED
    BY <2>2, <2>3
<1>6. CASE Awaited(o) /\ mine' # mine
  <2>1. PICK h \in {"edit", "assign"}, row \in Listed, s \in NextSteps : Writes(h, row, s)
    BY <1>6, OnlyCallsWrite, WriteOfCall
  <2>2. Wrote(h, o)' \/ Awaited(o)'
    BY <1>5, <1>6, <2>1
  <2>3. h = "edit" \/ h = "assign"
    OBVIOUS
  <2> QED
    BY <2>2, <2>3
<1> QED
  BY <1>1, <1>2, <1>3, <1>4, <1>6

\* When nothing is in flight the rows shown are no older than what this page wrote
\* (each handler reloads the list, unless it failed after its first write).
THEOREM WritesAreShown == OSSpec => []OwnWritesShown
<1>1. OSInit => ScreenTypes /\ HandlersInv /\ MineKnown /\ ChangesShown
  BY InitScreenTypes, InitHandlers, InitWrites
<1>2. ScreenTypes /\ HandlersInv /\ MineKnown /\ ChangesShown /\ [OSNext]_osVars
        => ScreenTypes' /\ HandlersInv' /\ MineKnown' /\ ChangesShown'
  BY ScreenStep, HandlersStep, MineKnownStep, ChangesShownStep
<1>3. ScreenTypes /\ ChangesShown => OwnWritesShown
  <2> SUFFICES ASSUME ScreenTypes, ChangesShown, AtRest, hist = {}
               PROVE  /\ \A o \in DOMAIN list.rows : list.rows[o].ver >= mine[o]
                      /\ Viewed # None => Viewed.ver >= mine[dialog.order]
    BY DEF OwnWritesShown
  <2>1. loads = <<>> /\ work["edit"].step = "idle" /\ work["assign"].step = "idle"
    BY DEF AtRest, Handlers, Idle
  <2>2. DOMAIN list.rows \subseteq Ids
    BY ShownRows DEF ScreenTypes
  <2>3. \A o \in DOMAIN list.rows : list.rows[o].ver >= mine[o]
    BY <2>1, <2>2 DEF ChangesShown, Wrote, Awaited, UpTo
  <2> QED
    BY <2>3 DEF Viewed, Row, RowShown
<1> QED
  BY <1>1, <1>2, <1>3, PTL DEF OSSpec

=============================================================================
