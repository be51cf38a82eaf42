----------------------------- MODULE RoutePoints -----------------------------
(***************************************************************************)
(* The two points of an order in the create dialog (components/Orders.tsx, *)
(* components/RouteMapPicker.tsx, shared/yandex/addressSearch.ts): the form*)
(* and the map keep a copy each, and five sources write them: the address  *)
(* search, the suggestions, typed coordinates, clicks on the map and       *)
(* dragged markers.  Four of them wait for the geocoder and go on whenever *)
(* it answers.                                                             *)
(*                                                                         *)
(* A place stands for its address and its coordinates: the two agree when  *)
(* they are the same place.                                                *)
(***************************************************************************)
EXTENDS Naturals, Sequences

CONSTANTS
    Places,
    NoPlace,
    MaxLookups, \* bound: geocoder calls in flight
    MaxMoves    \* bound: what the dispatcher does

ASSUME RoutePointsAssumption == NoPlace \notin Places /\ MaxMoves \in Nat

VARIABLES
    form,      \* form[f]: address text and coordinates in the form; edited: the
               \* text or the coordinates were typed since the last lookup
    marker,    \* marker[f]: the coordinates the map keeps
    mode,      \* the point the next click changes when both are set
    mapReady,  \* the map API has loaded
    lookups,   \* geocoder calls in flight
    selection, \* selection[f]: requestId of the suggestion view of field f
    geocoded,  \* geocodeCache: places looked up, and whether they were found
    clicked,   \* places clicked since the form was empty
    odd,       \* unusual events so far
    moves      \* what the dispatcher has done, up to MaxMoves

rpVars == <<form, marker, mode, mapReady, lookups, selection, geocoded, clicked, odd, moves>>

Fields == {"pickup", "dropoff"}
Other(f) == CHOOSE g \in Fields : g # f
EmptyPoint == [addr |-> NoPlace, coords |-> NoPlace, edited |-> FALSE]

\* early: coordinates entered before the map had loaded;  late: the form was
\* emptied under a lookup; overtaken: a lookup was answered before an earlier
\* one; mixed: something but a click set a point.
OddEvents == {"early", "late", "overtaken", "mixed"}

Move == moves < MaxMoves /\ moves' = moves + 1
Ask(lookup) == Len(lookups) < MaxLookups /\ lookups' = Append(lookups, lookup)
Note(event, happens) == odd' = IF happens THEN odd \cup {event} ELSE odd

\* Mutant: the effect "sync from parent" is missing.
SetFormOnly(f, point) == form' = [form EXCEPT ![f] = point] /\ UNCHANGED marker

\* The form gets a point; the effect "sync from parent" moves the marker along
\* if the coordinates changed, provided the map exists.
SetPoint(f, point) ==
    /\ form' = [form EXCEPT ![f] = point]
    /\ marker' = IF mapReady /\ point.coords # form[f].coords
                 THEN [marker EXCEPT ![f] = point.coords] ELSE marker

\* applyYandexPickupResult and its three siblings.
Found(p) == [addr |-> p, coords |-> p, edited |-> FALSE]

-----------------------------------------------------------------------------
RPInit ==
    /\ form = [f \in Fields |-> EmptyPoint]
    /\ marker = [f \in Fields |-> NoPlace]
    /\ mode = "pickup" /\ mapReady = FALSE
    /\ lookups = <<>> /\ selection = [f \in Fields |-> 0]
    /\ geocoded = <<>>
    /\ clicked = <<>> /\ odd = {} /\ moves = 0

\* loadYmaps resolves: the map is drawn with the markers the picker knows.
MapLoads ==
    /\ ~mapReady /\ mapReady' = TRUE
    /\ UNCHANGED <<form, marker, mode, lookups, selection, geocoded, clicked, odd, moves>>

\* The address is typed: the coordinates stay as they are.
TypeAddress(f, p) ==
    /\ Move /\ p # form[f].addr
    /\ form' = [form EXCEPT ![f].addr = p, ![f].edited = TRUE]
    /\ Note("mixed", TRUE)
    /\ UNCHANGED <<marker, mode, mapReady, lookups, selection, geocoded, clicked>>

\* Enter in the address field: geocodePickupAddress, which has no request id.
\* An empty address drops the coordinates.
SearchAddress(f) ==
    /\ Move /\ mapReady
    /\ IF form[f].addr = NoPlace
       THEN SetPoint(f, [form[f] EXCEPT !.coords = NoPlace]) /\ UNCHANGED lookups
       ELSE /\ Ask([by |-> "search", field |-> f, place |-> form[f].addr, id |-> 0])
            /\ UNCHANGED <<form, marker>>
    /\ Note("mixed", TRUE)
    /\ UNCHANGED <<mode, mapReady, selection, geocoded, clicked>>

\* A suggestion is selected (createSuggestView): the view counts its requests.
SelectSuggestion(f, p) ==
    /\ Move /\ mapReady
    /\ selection' = [selection EXCEPT ![f] = @ + 1]
    /\ Ask([by |-> "suggest", field |-> f, place |-> p, id |-> selection[f] + 1])
    /\ Note("mixed", TRUE)
    /\ UNCHANGED <<form, marker, mode, mapReady, geocoded, clicked>>

\* Coordinates are typed or pasted (applyCoordsInput): the address stays.
TypeCoords(f, p) ==
    /\ Move /\ p # form[f].coords
    /\ SetPoint(f, [form[f] EXCEPT !.coords = p, !.edited = TRUE])
    /\ odd' = odd \cup {"mixed"} \cup (IF mapReady THEN {} ELSE {"early"})
    /\ UNCHANGED <<mode, mapReady, lookups, selection, geocoded, clicked>>

\* A click on the map asks for the address of the place before anything is set.
ClickMap(p) ==
    /\ Move /\ mapReady
    /\ Ask([by |-> "click", field |-> "pickup", place |-> p, id |-> 0])
    /\ clicked' = Append(clicked, p)
    /\ UNCHANGED <<form, marker, mode, mapReady, selection, geocoded, odd>>

\* A marker is dropped: the map's copy changes now, the form's with the answer.
DragMarker(f, p) ==
    /\ Move /\ mapReady /\ marker[f] \notin {NoPlace, p}
    /\ marker' = [marker EXCEPT ![f] = p]
    /\ Ask([by |-> "drag", field |-> f, place |-> p, id |-> 0])
    /\ Note("mixed", TRUE)
    /\ UNCHANGED <<form, mode, mapReady, selection, geocoded, clicked>>

\* resetRouteAndTime, or the dialog closed: lookups in flight are not cancelled.
EmptyForm ==
    /\ Move
    /\ form' = [f \in Fields |-> EmptyPoint]
    /\ marker' = [f \in Fields |-> IF mapReady /\ form[f].coords # NoPlace
                                   THEN NoPlace ELSE marker[f]]
    /\ clicked' = <<>>
    /\ Note("late", lookups # <<>>)
    /\ UNCHANGED <<mode, mapReady, lookups, selection, geocoded>>

-----------------------------------------------------------------------------
(* Answers of the geocoder                                                   *)

\* resolveQuery: the chain of providers finds the place or not, once: the
\* outcome is kept for the session, also when the network was the reason.
Outcome(l, found) ==
    IF l.by \in {"click", "drag"} THEN found /\ UNCHANGED geocoded
    ELSE IF l.place \in DOMAIN geocoded
         THEN found = geocoded[l.place] /\ UNCHANGED geocoded
         ELSE geocoded' = [p \in DOMAIN geocoded \cup {l.place} |->
                             IF p = l.place THEN found ELSE geocoded[p]]

\* Mutant: a click sets the point whose turn it is, set or not.
ClickTargetByTurn == mode

\* Which point a click sets (applySearchResult, selectionMode "both").
ClickTarget ==
    CASE marker["pickup"] = NoPlace -> "pickup"
      [] marker["pickup"] # NoPlace /\ marker["dropoff"] = NoPlace -> "dropoff"
      [] OTHER -> mode

AnswerSearch(l, found) ==
    /\ l.by = "search"
    /\ SetPoint(l.field, IF found THEN Found(l.place)
                         ELSE [form[l.field] EXCEPT !.coords = NoPlace])
    /\ UNCHANGED mode

AnswerSuggestion(l, found) ==
    /\ l.by = "suggest"
    /\ IF l.id = selection[l.field] /\ found THEN SetPoint(l.field, Found(l.place))
       ELSE UNCHANGED <<form, marker>>
    /\ UNCHANGED mode

AnswerClick(l) ==
    /\ l.by = "click"
    /\ form' = [form EXCEPT ![ClickTarget] = Found(l.place)]
    /\ marker' = [marker EXCEPT ![ClickTarget] = l.place]
    /\ mode' = Other(ClickTarget)

AnswerDrag(l) ==
    /\ l.by = "drag"
    /\ SetPoint(l.field, Found(l.place))
    /\ UNCHANGED mode

GeocoderAnswers(i) ==
    LET l == lookups[i]
    IN  \E found \in BOOLEAN :
        /\ Outcome(l, found)
        /\ AnswerSearch(l, found) \/ AnswerSuggestion(l, found) \/ AnswerClick(l) \/ AnswerDrag(l)
        /\ lookups' = SubSeq(lookups, 1, i - 1) \o SubSeq(lookups, i + 1, Len(lookups))
        /\ Note("overtaken", i > 1)
        /\ UNCHANGED <<mapReady, selection, clicked, moves>>

RPNext ==
    \/ MapLoads
    \/ \E f \in Fields, p \in Places \cup {NoPlace} : TypeAddress(f, p)
    \/ \E f \in Fields : SearchAddress(f)
    \/ \E f \in Fields, p \in Places :
         SelectSuggestion(f, p) \/ TypeCoords(f, p) \/ DragMarker(f, p)
    \/ \E p \in Places : ClickMap(p)
    \/ EmptyForm
    \/ \E i \in DOMAIN lookups : GeocoderAnswers(i)

RPSpec == RPInit /\ [][RPNext]_rpVars

-----------------------------------------------------------------------------
(* Properties                                                                *)

\* The form and the map stay within the values the code produces.
RoutePointsTypeOK ==
    /\ \A f \in Fields : /\ form[f].addr \in Places \cup {NoPlace}
                         /\ form[f].coords \in Places \cup {NoPlace}
                         /\ marker[f] \in Places \cup {NoPlace}
    /\ mode \in Fields /\ Len(lookups) <= MaxLookups
    /\ DOMAIN geocoded \subseteq Places /\ odd \subseteq OddEvents

\* When no lookup is in flight the marker on the map is at the coordinates that
\* would be sent, and unless one of them was typed by hand since, the address
\* sent with them is theirs: whatever the order in which the five sources were
\* used and answered, if the map had loaded and no lookup outlived its form.
SettledPointsAgree ==
    lookups = <<>> /\ odd \cap {"early", "late"} = {} =>
        \A f \in Fields :
            /\ marker[f] = form[f].coords
            /\ ~form[f].edited /\ form[f].coords # NoPlace => form[f].addr = form[f].coords

\* The help under the map: the first click is where from (A), the second is
\* where to (B).
FirstClickIsPickup ==
    lookups = <<>> /\ odd \cap {"mixed", "late"} = {} /\ Len(clicked) \in {1, 2} =>
        /\ form["pickup"].coords = clicked[1]
        /\ Len(clicked) = 2 => form["dropoff"].coords = clicked[2]

\* The same, as far as it goes: clicks are placed in the order of their answers.
ClicksPlacedInOrder == "overtaken" \notin odd => FirstClickIsPickup
=============================================================================
