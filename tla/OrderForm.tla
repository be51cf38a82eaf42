------------------------------ MODULE OrderForm ------------------------------
(***************************************************************************)
(* The passenger and the creation of orders in the create dialog of the    *)
(* console (components/Orders.tsx) with ordersApi.createOrder and          *)
(* passengersApi.  The passenger is searched for by phone, 300 ms after    *)
(* the last change; answers are not matched with what is typed by then.    *)
(* Creating an order is up to four calls, each of which may be refused, or *)
(* served while its answer is lost.                                        *)
(*                                                                         *)
(* A person stands for their phone number.  The points and the time of the *)
(* trip are entered or not (RoutePoints has their details).                *)
(***************************************************************************)
EXTENDS Naturals, Sequences, FiniteSets

CONSTANTS
    Persons,
    Partial,     \* a number of which only the digits all persons share is typed
    Short,       \* less than four characters of a number
    Nothing,     \* an empty field, no choice
    Capacity,    \* active orders a client may have for a date (4)
    MaxSearches, \* bound: searches in flight
    MaxInputs    \* bound: what the dispatcher does

ASSUME OrderFormAssumption ==
    /\ {Partial, Short, Nothing} \cap Persons = {} /\ Cardinality({Partial, Short, Nothing}) = 3
    /\ Capacity \in Nat /\ MaxSearches \in Nat /\ MaxInputs \in Nat
    /\ Nothing \notin [phone: Persons \cup {Partial, Short, Nothing},
                      mode: {"existing", "new", Nothing}, chosen: Persons \cup {Nothing}]

VARIABLES
    clients,  \* persons registered as clients
    placed,   \* orders created, in order
    entry,    \* the form
    matches,  \* matchingPassengers
    timer,    \* the search that is due 300 ms after the last change, or Nothing
    searches, \* searches in flight
    creation, \* performCreateOrder awaiting an answer
    mishaps,  \* unusual events so far
    inputs    \* what the dispatcher has done, up to MaxInputs

ofVars == <<clients, placed, entry, matches, timer, searches, creation, mishaps, inputs>>

Phones == Persons \cup {Partial, Short, Nothing}
EmptyEntry == [phone |-> Nothing, mode |-> Nothing, chosen |-> Nothing,
               named |-> FALSE, routed |-> FALSE, round |-> FALSE]
NoCreation == [step |-> "idle", then |-> Nothing, client |-> Nothing, phone |-> Nothing,
               round |-> FALSE, settled |-> FALSE, wrote |-> FALSE, attempt |-> 0]

\* overtaken: a search was answered after a later one or after the field was
\* emptied;  unheard: the answer of a write was lost;  half: a creation failed
\* after an order was made;  left: the dialog was closed during a creation.
Mishaps == {"overtaken", "unheard", "half", "left"}

\* GET /clients: the persons whose number contains what is typed.
Matching(phone) == IF phone = Partial THEN clients ELSE {phone} \cap clients

\* The search effect depends on the phone and on the mode: a change of either
\* starts the 300 ms again, with the values of that moment.
Change(next) ==
    /\ entry' = next
    /\ timer' = IF <<next.phone, next.mode>> = <<entry.phone, entry.mode>> THEN timer
                ELSE [phone |-> next.phone, mode |-> next.mode, chosen |-> next.chosen]

Input == inputs < MaxInputs /\ inputs' = inputs + 1

-----------------------------------------------------------------------------
OFInit ==
    /\ clients \in {C \in SUBSET Persons : C # {}}
    /\ placed = <<>> /\ entry = EmptyEntry /\ matches = {} /\ timer = Nothing
    /\ searches = <<>> /\ creation = NoCreation /\ mishaps = {} /\ inputs = 0

TypePhone(phone) ==
    /\ Input /\ phone # entry.phone
    /\ Change([entry EXCEPT !.phone = phone])
    /\ UNCHANGED <<clients, placed, matches, searches, creation, mishaps>>

\* Searches in flight are not cancelled by anything.
Outdated(queue) == [i \in DOMAIN queue |-> [queue[i] EXCEPT !.old = TRUE]]

\* 300 ms have passed: less than four characters empty the matches, an empty
\* field empties the passenger, anything else is searched for.
TimerFires ==
    /\ timer # Nothing
    /\ \/ /\ timer.phone = Short
          /\ matches' = {} /\ timer' = Nothing /\ searches' = Outdated(searches)
          /\ UNCHANGED entry
       \/ /\ timer.phone = Nothing
          /\ matches' = {} /\ searches' = Outdated(searches)
          /\ LET bare == [entry EXCEPT !.mode = Nothing, !.chosen = Nothing, !.named = FALSE]
             IN  /\ entry' = bare
                 /\ timer' = IF bare.mode = entry.mode THEN Nothing
                             ELSE [phone |-> entry.phone, mode |-> Nothing, chosen |-> Nothing]
       \/ /\ timer.phone \notin {Short, Nothing} /\ Len(searches) < MaxSearches
          /\ searches' = Append(searches, [of |-> timer, found |-> Nothing, old |-> FALSE])
          /\ timer' = Nothing
          /\ UNCHANGED <<entry, matches>>
    /\ UNCHANGED <<clients, placed, creation, mishaps, inputs>>

ServeSearch(i) ==
    /\ searches[i].found = Nothing
    /\ searches' = [searches EXCEPT ![i].found = Matching(searches[i].of.phone)]
    /\ UNCHANGED <<clients, placed, entry, matches, timer, creation, mishaps, inputs>>

\* What the answer does to the choice, judged by the choice the search closed over.
AfterSearch(of, found) ==
    CASE found = {} -> [entry EXCEPT !.mode = "new", !.chosen = Nothing]
      [] found # {} /\ of.chosen \notin found \cup {Nothing} ->
           [entry EXCEPT !.mode = Nothing, !.chosen = Nothing]
      [] found # {} /\ of.mode = Nothing /\ found = {of.phone} ->
           [entry EXCEPT !.mode = "existing", !.chosen = of.phone, !.named = TRUE]
      [] OTHER -> entry

\* An answer arrives, or the search fails and the matches are emptied.
SearchArrives(i) ==
    /\ searches[i].found # Nothing
    /\ matches' = searches[i].found
    /\ Change(AfterSearch(searches[i].of, searches[i].found))
    /\ searches' = Outdated(SubSeq(searches, 1, i - 1)) \o SubSeq(searches, i + 1, Len(searches))
    /\ mishaps' = IF searches[i].old THEN mishaps \cup {"overtaken"} ELSE mishaps
    /\ UNCHANGED <<clients, placed, creation, inputs>>

SearchFails ==
    /\ searches # <<>>
    /\ searches' = Tail(searches) /\ matches' = {}
    /\ UNCHANGED <<clients, placed, entry, timer, creation, mishaps, inputs>>

-----------------------------------------------------------------------------
(* The passenger part of the form                                            *)

ListShown == matches # {} /\ entry.mode # "new"

PickClient(p) ==
    /\ Input /\ ListShown /\ p \in matches /\ entry.chosen = Nothing
    /\ Change([entry EXCEPT !.mode = "existing", !.chosen = p, !.named = TRUE])
    /\ UNCHANGED <<clients, placed, matches, searches, creation, mishaps>>

PickAnother ==
    /\ Input /\ ListShown /\ entry.chosen # Nothing
    /\ Change([entry EXCEPT !.chosen = Nothing])
    /\ UNCHANGED <<clients, placed, matches, searches, creation, mishaps>>

AddNewClient ==
    /\ Input /\ ListShown
    /\ Change([entry EXCEPT !.mode = "new", !.chosen = Nothing])
    /\ UNCHANGED <<clients, placed, matches, searches, creation, mishaps>>

\* The fields of a new passenger, also offered when nobody was found.
FillClient ==
    /\ Input /\ ~entry.named
    /\ entry.mode = "new" \/ (matches = {} /\ entry.phone \notin {Short, Nothing})
    /\ entry' = [entry EXCEPT !.named = TRUE]
    /\ UNCHANGED <<clients, placed, matches, timer, searches, creation, mishaps>>

\* The points, the time and the way back.
FillTrip(round) ==
    /\ Input
    /\ entry' = [entry EXCEPT !.routed = TRUE, !.round = round] /\ entry' # entry
    /\ UNCHANGED <<clients, placed, matches, timer, searches, creation, mishaps>>

\* Escape, the cross and "cancel" empty the form, also while an order is made.
CloseForm ==
    /\ Input /\ entry # EmptyEntry
    /\ Change(EmptyEntry) /\ matches' = {}
    /\ mishaps' = IF creation.step # "idle" THEN mishaps \cup {"left"} ELSE mishaps
    /\ UNCHANGED <<clients, placed, searches, creation>>

-----------------------------------------------------------------------------
(* performCreateOrder and ordersApi.createOrder                              *)

\* Mutant: the buttons are not locked while an order is created.
CanSubmitAgain(then) ==
    /\ entry.phone # Nothing /\ entry.routed
    /\ (entry.mode = "existing" /\ entry.chosen # Nothing) \/ entry.named
    /\ then = "mamash" => ~entry.round

\* isCreateOrderFormValid, and the buttons' own conditions.
CanSubmit(then) ==
    /\ entry.phone # Nothing /\ entry.routed /\ creation.step = "idle"
    /\ (entry.mode = "existing" /\ entry.chosen # Nothing) \/ entry.named
    /\ then = "mamash" => ~entry.round

\* Mutant: the choice is not looked up in the present matches.
UsesChosen == entry.mode = "existing" /\ entry.chosen # Nothing

\* The passenger in the list is used only if the list still has it.
UsesExisting == entry.mode = "existing" /\ entry.chosen \in matches
Settled == timer = Nothing /\ searches = <<>> /\ "overtaken" \notin mishaps

Submit(then) ==
    /\ Input /\ CanSubmit(then)
    /\ UsesExisting \/ entry.named
    /\ creation' = [step |-> IF UsesExisting THEN "there" ELSE "lookup", then |-> then,
                    client |-> IF UsesExisting THEN entry.chosen ELSE Nothing,
                    phone |-> entry.phone, round |-> entry.round, settled |-> Settled,
                    wrote |-> FALSE, attempt |-> creation.attempt]
    /\ UNCHANGED <<clients, placed, entry, matches, timer, searches, mishaps>>

\* The client with exactly the phone, or a new one; the server registers no
\* incomplete number.
LookUpClient ==
    /\ creation.step = "lookup"
    /\ creation' = CASE creation.phone \in clients ->
                          [creation EXCEPT !.step = "there", !.client = creation.phone]
                     [] creation.phone \in Persons \ clients ->
                          [creation EXCEPT !.step = "register"]
                     [] OTHER -> [creation EXCEPT !.step = "failed"]
    /\ UNCHANGED <<clients, placed, entry, matches, timer, searches, mishaps, inputs>>

RegisterClient ==
    /\ creation.step = "register"
    /\ \E heard \in BOOLEAN :
         /\ clients' = clients \cup {creation.phone}
         /\ creation' = IF heard THEN [creation EXCEPT !.step = "there", !.client = creation.phone]
                        ELSE [creation EXCEPT !.step = "failed"]
    /\ UNCHANGED <<placed, entry, matches, timer, searches, mishaps, inputs>>

NextStep == IF creation.step = "there" /\ creation.round THEN "back" ELSE "done"

\* POST /orders, for the trip or for the way back; the way back names the
\* passenger of the order just made.
PlaceOrder ==
    /\ creation.step \in {"there", "back"}
    /\ Cardinality({i \in DOMAIN placed : placed[i].client = creation.client}) < Capacity
    /\ placed' = Append(placed, [client |-> creation.client, way |-> creation.step,
                                 attempt |-> creation.attempt])
    /\ \E heard \in BOOLEAN :
         /\ creation' = [creation EXCEPT !.step = IF heard THEN NextStep ELSE "failed",
                                         !.wrote = heard]
         /\ mishaps' = IF heard THEN mishaps ELSE mishaps \cup {"unheard"}
    /\ UNCHANGED <<clients, entry, matches, timer, searches, inputs>>

\* The client has its four orders for the date, or the call fails on the way.
OrderRefused ==
    /\ creation.step \in {"there", "back"}
    /\ creation' = [creation EXCEPT !.step = "failed"]
    /\ UNCHANGED <<clients, placed, entry, matches, timer, searches, mishaps, inputs>>

\* handleCreateOrder closes the dialog, handleCreateOrderAndAddAnother keeps the
\* passenger, handleCreateOrderMamash keeps the trip.
CreationSucceeds ==
    /\ creation.step = "done"
    /\ creation' = [NoCreation EXCEPT !.attempt = creation.attempt + 1]
    /\ CASE creation.then = "close" -> Change(EmptyEntry) /\ matches' = {}
         [] creation.then = "another" ->
              Change([entry EXCEPT !.routed = FALSE, !.round = FALSE]) /\ UNCHANGED matches
         [] OTHER ->
              /\ Change([EmptyEntry EXCEPT !.routed = entry.routed, !.round = entry.round])
              /\ matches' = {}
    /\ UNCHANGED <<clients, placed, searches, mishaps, inputs>>

CreationFails ==
    /\ creation.step = "failed"
    /\ creation' = [NoCreation EXCEPT !.attempt = creation.attempt]
    /\ mishaps' = IF creation.wrote THEN mishaps \cup {"half"} ELSE mishaps
    /\ UNCHANGED <<clients, placed, entry, matches, timer, searches, inputs>>

OFNext ==
    \/ \E phone \in Phones : TypePhone(phone)
    \/ TimerFires \/ SearchFails
    \/ \E i \in DOMAIN searches : ServeSearch(i) \/ SearchArrives(i)
    \/ \E p \in Persons : PickClient(p)
    \/ PickAnother \/ AddNewClient \/ FillClient \/ CloseForm
    \/ \E round \in BOOLEAN : FillTrip(round)
    \/ \E then \in {"close", "another", "mamash"} : Submit(then)
    \/ LookUpClient \/ RegisterClient \/ PlaceOrder \/ OrderRefused
    \/ CreationSucceeds \/ CreationFails

OFSpec == OFInit /\ [][OFNext]_ofVars

-----------------------------------------------------------------------------
(* Properties                                                                *)

\* The form stays within the values its code produces.
OrderFormTypeOK ==
    /\ entry.phone \in Phones /\ entry.mode \in {Nothing, "existing", "new"}
    /\ entry.chosen \in Persons \cup {Nothing}
    /\ matches \subseteq clients /\ clients \subseteq Persons
    /\ Len(searches) <= MaxSearches /\ mishaps \subseteq Mishaps
    /\ creation.step \in {"idle", "lookup", "register", "there", "back", "done", "failed"}

\* An order submitted when the search had settled is for the person whose phone
\* is in the form, through every way the choice can outlive a change of phone.
OrderIsForTypedPhone ==
    [][placed' # placed /\ creation.settled =>
         creation.phone = Partial \/ placed'[Len(placed')].client = creation.phone]_ofVars

\* Without a lost answer or a half-done round trip no trip is ordered twice,
\* however often the dispatcher presses the buttons after a refusal; and a way back
\* is ordered only after its way there, for the same client.
NoTripTwice ==
    /\ mishaps \cap {"unheard", "half"} = {} =>
         \A i, j \in DOMAIN placed :
            i # j => <<placed[i].attempt, placed[i].way>> # <<placed[j].attempt, placed[j].way>>
    /\ \A i \in DOMAIN placed : placed[i].way = "back" =>
         \E j \in 1..(i - 1) :
            placed[j] = [placed[i] EXCEPT !.way = "there"]
=============================================================================
