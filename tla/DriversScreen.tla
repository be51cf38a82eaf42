----------------------------- MODULE DriversScreen -----------------------------
(***************************************************************************)
(* The drivers page (components/Drivers.tsx, services/drivers.ts): its     *)
(* cards, filter and pages, the edit, add, delete, map and orders dialogs, *)
(* and what the API does to the drivers table.                             *)
(*                                                                         *)
(* The page never drops an answer: the list shown is the one that arrived  *)
(* last.  A list that arrives under the edit dialog fills its form again,  *)
(* and saving sends the whole form, also what was not touched.  Only the   *)
(* map dialog's polling cancels what it asked for when it closes; the      *)
(* request after a saved position does not.                                *)
(*                                                                         *)
(* Lists are cut at 200 drivers by the request (loadDrivers); the model    *)
(* has fewer.                                                              *)
(***************************************************************************)
EXTENDS Naturals, Sequences, FiniteSets

CONSTANTS
    NumDrivers,   \* drivers, in the order of their names; the last has yet to be added
    CardsPerPage, \* DRIVERS_PAGE_SIZE (20)
    MaxTurns,     \* bound: what the dispatcher does
    MaxOthers,    \* bound: what drivers and other dispatchers do
    MaxAsked,     \* bound: list requests, and polls, in flight
    None

ASSUME DriversScreenAssumption ==
    /\ NumDrivers \in Nat \ {0} /\ CardsPerPage \in Nat \ {0}
    /\ MaxTurns \in Nat /\ MaxOthers \in Nat /\ MaxAsked \in Nat \ {0}
    /\ None \notin Nat \cup {"view", "edit", "delete", "map", "orders", "call", "add", "place"}

VARIABLES
    fleet,    \* the drivers table; ver[f]: how often field f of the row changed
    wanted,   \* the filter and the page chosen
    lists,    \* list requests in flight, in the order they were sent
    grid,     \* the cards shown, and what they answer
    panel,    \* the open dialog
    draft,    \* the edit form, with the versions of the row it was filled from
    writes,   \* handlers awaiting an answer
    detail,   \* mapDetailDriver, and what brought it
    polls,    \* requests of the map dialog's effect
    dragged,  \* newDriverPosition is set
    rides,    \* whose orders the orders dialog shows
    rideAsks, \* order requests in flight, by driver
    crossed,  \* an answer overtook another, or an outdated list was asked for
    others,   \* up to MaxOthers
    spent     \* up to MaxTurns

boardVars == <<wanted, lists, grid, draft, crossed>>
mapVars == <<detail, polls, dragged>>
rideVars == <<rides, rideAsks>>
fsVars == <<fleet, boardVars, panel, writes, mapVars, rideVars, others, spent>>

Drivers == 1..NumDrivers
\* UpdateDriverRequest: the flag, and what the form writes to the row itself; its
\* model and plate, here one number, may be NULL.
Fields == {"online", "car"}
Dash == 0
\* Driver, with what the account says of it.
Row == [state: {"absent", "active", "archived"}, online: BOOLEAN,
        car: 0..MaxOthers + MaxTurns + 1 \cup {None},
        ver: [Fields -> 0..MaxOthers + MaxTurns]]
\* DriversListParams: search, region and flag are one filter.
Query == [filter: {"all", "online"}, page: 1..NumDrivers]
NoPanel == [kind |-> None, who |-> None]
NoVersion == [f \in Fields |-> 0]
EmptyDraft == [online |-> FALSE, car |-> 0, ver |-> NoVersion, touched |-> {}]

-----------------------------------------------------------------------------
(* services/drivers.ts and the API                                           *)

\* The repository lists the drivers whose account is active.
Matching(filter) ==
    {d \in Drivers : fleet[d].state = "active" /\ (filter = "online" => fleet[d].online)}

\* adaptDriver: a dash stands for a model or plate that is NULL.
Shown(car) == IF car = None THEN Dash ELSE car

\* getDriversPaginated: the whole list is fetched and a page cut from it.
OnPage(q) ==
    LET m == Matching(q.filter)
        place(d) == Cardinality({e \in m : e <= d})
    IN {d \in m : place(d) > (q.page - 1) * CardsPerPage /\ place(d) <= q.page * CardsPerPage}

Listing(q) ==
    [of |-> q, total |-> Cardinality(Matching(q.filter)),
     cards |-> [d \in OnPage(q) |-> [fleet[d] EXCEPT !.car = Shown(@)]]]

Changed(d, f, v) == [fleet EXCEPT ![d][f] = v, ![d].ver[f] = @ + 1]
Step(w, stage) == (writes \ {w}) \cup {[w EXCEPT !.stage = stage]}

\* PATCH /drivers/{id} commits the fields, a dash like any text; then, if the flag asked for differs
\* from the row's, set_online commits it.  Neither asks for the account's status.
ServeFields ==
    \E w \in writes :
        /\ w.kind = "edit" /\ w.stage = "sent"
        /\ fleet' = IF w.form.car = fleet[w.who].car THEN fleet
                    ELSE Changed(w.who, "car", w.form.car)
        /\ writes' = Step(w, IF w.form.online = fleet[w.who].online THEN "served" ELSE "fields")

ServeOnline ==
    \E w \in writes :
        /\ w.kind = "edit" /\ w.stage = "fields"
        /\ fleet' = Changed(w.who, "online", w.form.online)
        /\ writes' = Step(w, "served")

\* POST /auth/users with a driver profile: the new driver is off line, whatever
\* the form's box says.  A phone that exists is refused, see Refuse.
ServeCreate ==
    \E w \in writes :
        /\ w.kind = "add" /\ w.stage = "sent" /\ fleet[w.who].state = "absent"
        /\ fleet' = [fleet EXCEPT ![w.who].state = "active"]
        /\ writes' = Step(w, "find")

\* createDriver looks the new driver up in a list of its own.
ServeFind ==
    \E w \in writes :
        /\ w.kind = "add" /\ w.stage = "find" /\ fleet[w.who].state = "active"
        /\ writes' = Step(w, "served")
        /\ UNCHANGED fleet

\* DELETE /drivers/{id} archives: the row stays, the account is blocked.
ServeDelete ==
    \E w \in writes :
        /\ w.kind = "delete" /\ w.stage = "sent"
        /\ fleet' = [Changed(w.who, "online", FALSE) EXCEPT ![w.who].state = "archived"]
        /\ writes' = Step(w, "served")

\* updateLocation stores the position as the driver's home.
ServePlace ==
    \E w \in writes :
        /\ w.kind = "place" /\ w.stage = "sent"
        /\ writes' = Step(w, "served")
        /\ UNCHANGED fleet

Serve == /\ ServeFields \/ ServeOnline \/ ServeCreate \/ ServeFind \/ ServeDelete \/ ServePlace
         /\ UNCHANGED <<boardVars, panel, mapVars, rideVars, others, spent>>

\* Drivers switch themselves on and off, other dispatchers edit.
Elsewhere ==
    /\ others < MaxOthers /\ others' = others + 1
    /\ \E d \in Drivers :
         /\ fleet[d].state = "active"
         /\ fleet' \in {Changed(d, "online", ~fleet[d].online),
                       Changed(d, "car", Shown(fleet[d].car) + 1)}
    /\ UNCHANGED <<boardVars, panel, writes, mapVars, rideVars, spent>>

-----------------------------------------------------------------------------
(* The list                                                                  *)

Turn == spent < MaxTurns /\ spent' = spent + 1
Ask(q, by) == [of |-> q, by |-> by, answer |-> None]

FSInit ==
    /\ fleet = [d \in Drivers |->
         [state |-> IF d = NumDrivers THEN "absent" ELSE "active",
          online |-> d = 1, car |-> IF d = 1 THEN None ELSE 1, ver |-> NoVersion]]
    /\ wanted = [filter |-> "all", page |-> 1]
    /\ lists = <<Ask(wanted, None)>>
    /\ grid = [of |-> None, total |-> 0, cards |-> [d \in {} |-> None]]
    /\ panel = NoPanel /\ draft = EmptyDraft /\ writes = {}
    /\ detail = None /\ polls = {} /\ dragged = FALSE
    /\ rides = None /\ rideAsks = {}
    /\ crossed = FALSE /\ others = 0 /\ spent = 0

\* Mutant: the second effect sets the page without a load of its own.
SetFilterAskingOnce ==
    /\ Turn /\ Len(lists) + 1 < MaxAsked /\ panel = NoPanel
    /\ \E f \in {"all", "online"} \ {wanted.filter} :
         /\ wanted' = [filter |-> f, page |-> 1]
         /\ lists' = Append(lists, Ask([wanted EXCEPT !.filter = f], None))
    /\ UNCHANGED <<fleet, grid, draft, crossed, panel, writes, mapVars, rideVars, others>>

\* The search field or the filter: the list is loaded with the page chosen
\* before, then the page is set to 1, and loaded again if that changed it.
SetFilter ==
    /\ Turn /\ Len(lists) + 1 < MaxAsked /\ panel = NoPanel
    /\ \E f \in {"all", "online"} \ {wanted.filter} :
         LET first == [wanted EXCEPT !.filter = f] IN
         /\ wanted' = [first EXCEPT !.page = 1]
         /\ lists' = Append(lists, Ask(first, None))
                       \o IF first = wanted' THEN <<>> ELSE <<Ask(wanted', None)>>
    /\ UNCHANGED <<fleet, grid, draft, crossed, panel, writes, mapVars, rideVars, others>>

TurnPage ==
    /\ Turn /\ Len(lists) < MaxAsked /\ panel = NoPanel /\ grid.total > 0
    /\ \/ wanted.page > 1 /\ wanted' = [wanted EXCEPT !.page = @ - 1]
       \/ wanted.page * CardsPerPage < grid.total /\ wanted' = [wanted EXCEPT !.page = @ + 1]
    /\ lists' = Append(lists, Ask(wanted', None))
    /\ UNCHANGED <<fleet, grid, draft, crossed, panel, writes, mapVars, rideVars, others>>

ServeList ==
    /\ \E i \in DOMAIN lists :
         lists[i].answer = None /\ lists' = [lists EXCEPT ![i].answer = Listing(lists[i].of)]
    /\ UNCHANGED <<fleet, wanted, grid, draft, crossed, panel, writes, mapVars, rideVars, others, spent>>

\* Mutant: the form starts from the values it was reset to.
FormReset(row) == [EmptyDraft EXCEPT !.car = row.car, !.ver = row.ver]

\* The edit effect: the form takes the card's values.
FormOf(row) == [online |-> row.online, car |-> row.car, ver |-> row.ver, touched |-> {}]

\* It runs whenever selectedDriver is another object, after every load.
Refill(cards) ==
    draft' = IF panel.kind = "edit" /\ panel.who \in DOMAIN cards
             THEN FormOf(cards[panel.who]) ELSE draft

Without(s, i) == SubSeq(s, 1, i - 1) \o SubSeq(s, i + 1, Len(s))

\* What the handler that waited for this load does next: an edit, a creation or
\* a deletion closes its kind of dialog, whoever it is open for by now; a saved
\* position asks for the driver again.
Continue(by, cards) ==
    IF by = None THEN /\ Refill(cards)
                      /\ UNCHANGED <<writes, panel>>
    ELSE LET mine == {w \in writes : w.kind = by /\ w.stage = "refresh"} IN
         IF by = "place" THEN /\ writes' = (writes \ mine) \cup {[w EXCEPT !.stage = "again"] : w \in mine}
                              /\ Refill(cards)
                              /\ UNCHANGED panel
         ELSE /\ writes' = writes \ mine
              /\ panel' = IF panel.kind = by THEN NoPanel ELSE panel
              /\ IF by = "edit" THEN draft' = EmptyDraft ELSE Refill(cards)

Arrived(i, shown) ==
    /\ grid' = shown
    /\ lists' = Without(lists, i)
    /\ crossed' = ((crossed \/ i > 1) /\ ~(Len(lists) = 1 /\ lists[i].of = wanted))
    /\ Continue(lists[i].by, shown.cards)
    /\ UNCHANGED <<fleet, wanted, mapVars, rideVars, others, spent>>

ListArrives == \E i \in DOMAIN lists : lists[i].answer # None /\ Arrived(i, lists[i].answer)

\* A load that fails empties the page.
ListFails ==
    \E i \in DOMAIN lists :
        Arrived(i, [of |-> lists[i].of, total |-> 0, cards |-> [d \in {} |-> None]])

-----------------------------------------------------------------------------
(* The dialogs                                                               *)

\* The buttons of a card.  Opening the map asks for the driver, opening the
\* orders asks for them.
OpenPanel ==
    /\ Turn /\ panel = NoPanel
    /\ \E kind \in {"view", "edit", "delete", "map", "orders"}, d \in DOMAIN grid.cards :
         /\ panel' = [kind |-> kind, who |-> d]
         /\ draft' = IF kind = "edit" THEN FormOf(grid.cards[d]) ELSE draft
         /\ polls' = IF kind = "map" THEN polls \cup {[of |-> d, live |-> TRUE]} ELSE polls
         /\ rideAsks' = IF kind = "orders" THEN rideAsks \cup {d} ELSE rideAsks
    /\ UNCHANGED <<fleet, wanted, lists, grid, crossed, writes, detail, dragged, rides, others>>

\* The call dialog has a copy of name and number; both of its buttons leave the
\* drivers as they are.
OpenCall ==
    /\ Turn /\ panel = NoPanel
    /\ \E d \in DOMAIN grid.cards : panel' = [kind |-> "call", who |-> d]
    /\ UNCHANGED <<fleet, boardVars, writes, mapVars, rideVars, others>>

OpenAdd ==
    /\ Turn /\ panel = NoPanel
    /\ panel' = [kind |-> "add", who |-> NumDrivers]
    /\ UNCHANGED <<fleet, boardVars, writes, mapVars, rideVars, others>>

\* The view dialog's button.
ShowOnMap ==
    /\ Turn /\ panel.kind = "view" /\ panel.who \in DOMAIN grid.cards
    /\ panel' = [panel EXCEPT !.kind = "map"]
    /\ polls' = polls \cup {[of |-> panel.who, live |-> TRUE]}
    /\ UNCHANGED <<fleet, boardVars, writes, detail, dragged, rideVars, others>>

\* Mutant: closing the map does not cancel what its effect asked for.
HushNobody(asked) == asked

\* cancelled = true, in the effect's cleanup.
Hush(asked) == {[p EXCEPT !.live = FALSE] : p \in asked}

\* The cross, the backdrop or Escape: open to the dispatcher also while the
\* dialog's handler waits.
ClosePanel ==
    /\ Turn /\ panel.kind \in {"view", "edit", "call", "add", "delete"}
    /\ panel' = NoPanel
    /\ draft' = IF panel.kind = "edit" THEN EmptyDraft ELSE draft
    /\ UNCHANGED <<fleet, wanted, lists, grid, crossed, writes, mapVars, rideVars, others>>

CloseMap ==
    /\ Turn /\ panel.kind = "map" /\ panel' = NoPanel
    /\ detail' = None /\ polls' = Hush(polls) /\ dragged' = FALSE
    /\ UNCHANGED <<fleet, boardVars, writes, rideVars, others>>

CloseRides ==
    /\ Turn /\ panel.kind = "orders" /\ panel' = NoPanel
    /\ rides' = None
    /\ UNCHANGED <<fleet, boardVars, writes, mapVars, rideAsks, others>>

EditDraft ==
    /\ Turn /\ panel.kind = "edit" /\ panel.who \in DOMAIN grid.cards
    /\ draft' \in {[draft EXCEPT !.online = ~@, !.touched = @ \cup {"online"}],
                   [draft EXCEPT !.car = @ + 1, !.touched = @ \cup {"car"}]}
    /\ UNCHANGED <<fleet, wanted, lists, grid, crossed, panel, writes, mapVars, rideVars, others>>

Drag ==
    /\ Turn /\ panel.kind = "map" /\ panel.who \in DOMAIN grid.cards /\ ~dragged
    /\ dragged' = TRUE
    /\ UNCHANGED <<fleet, boardVars, panel, writes, detail, polls, rideVars, others>>

\* A handler starts; it keeps the query of the moment for its refresh.
Submit(kind) ==
    /\ writes' = writes \cup {[kind |-> kind, who |-> panel.who, form |-> draft,
                                asks |-> wanted, stage |-> "sent"]}
    /\ UNCHANGED <<fleet, boardVars, panel, mapVars, rideVars, others>>

\* The button is disabled while the handler runs.
Idle(kind) == \A w \in writes : w.kind # kind

\* handleSaveEdit.
SubmitEdit == /\ Turn /\ panel.kind = "edit" /\ panel.who \in DOMAIN grid.cards /\ Idle("edit")
              /\ Submit("edit")

\* handleCreateDriver, with the fields filled in.
SubmitAdd == Turn /\ panel.kind = "add" /\ Idle("add") /\ Submit("add")

\* The button of the deletion, which nothing disables; a second click at once is
\* the first again.
SubmitDelete == Turn /\ panel.kind = "delete" /\ Submit("delete")

\* The button under the map, once the marker was dragged.
SubmitPlace == Turn /\ panel.kind = "map" /\ dragged /\ Idle("place") /\ Submit("place")

\* The write is answered: the handler refreshes the list, with its own query.
Answered ==
    /\ Len(lists) < MaxAsked
    /\ \E w \in writes :
         /\ w.stage = "served"
         /\ writes' = Step(w, "refresh")
         /\ lists' = Append(lists, Ask(w.asks, w.kind))
         /\ crossed' = (crossed \/ w.asks # wanted)
    /\ UNCHANGED <<fleet, wanted, grid, draft, panel, mapVars, rideVars, others, spent>>

\* Refused, or the answer is lost: the dialog stays with an error.  What was
\* committed stays committed.
Refuse ==
    /\ \E w \in writes :
         w.stage \in {"sent", "fields", "find", "served"} /\ writes' = writes \ {w}
    /\ UNCHANGED <<fleet, boardVars, panel, mapVars, rideVars, others, spent>>

\* The request after a saved position; nobody asks whether its dialog is open.
PlaceShown ==
    /\ \E w \in writes :
         /\ w.kind = "place" /\ w.stage = "again"
         /\ writes' = writes \ {w}
         /\ detail' \in {detail} \cup {[of |-> w.who, via |-> "save"]}
    /\ dragged' = FALSE
    /\ UNCHANGED <<fleet, boardVars, panel, polls, rideVars, others, spent>>

\* Mutant: the interval runs only until a driver is shown.
PollUntilShown ==
    /\ panel.kind = "map" /\ Cardinality(polls) < MaxAsked /\ detail = None
    /\ polls' = polls \cup {[of |-> panel.who, live |-> TRUE]}
    /\ UNCHANGED <<fleet, boardVars, panel, writes, detail, dragged, rideVars, others, spent>>

\* The map dialog's interval of 8 s.
PollDriver ==
    /\ panel.kind = "map" /\ Cardinality(polls) < MaxAsked
    /\ polls' = polls \cup {[of |-> panel.who, live |-> TRUE]}
    /\ UNCHANGED <<fleet, boardVars, panel, writes, detail, dragged, rideVars, others, spent>>

\* driversApi.getDriver looks for him in the whole list.
GetDriver(d) == IF d \in Matching("all") THEN [of |-> d, via |-> "poll"] ELSE None

PollAnswered ==
    /\ \E p \in polls :
         /\ polls' = polls \ {p}
         /\ detail' = IF p.live THEN GetDriver(p.of) ELSE detail
    /\ UNCHANGED <<fleet, boardVars, panel, writes, dragged, rideVars, others, spent>>

PollFails ==
    /\ Turn
    /\ \E p \in polls : polls' = polls \ {p} /\ detail' = IF p.live THEN None ELSE detail
    /\ UNCHANGED <<fleet, boardVars, panel, writes, dragged, rideVars, others>>

\* loadDriverOrders: nobody asks whose dialog is open; a failure leaves what is shown.
RidesArrive ==
    /\ \E d \in rideAsks : rideAsks' = rideAsks \ {d} /\ rides' \in {rides, d}
    /\ UNCHANGED <<fleet, boardVars, panel, writes, mapVars, others, spent>>

FSNext ==
    \/ Serve \/ Elsewhere
    \/ SetFilter \/ TurnPage \/ ServeList \/ ListArrives \/ ListFails
    \/ OpenPanel \/ OpenCall \/ OpenAdd \/ ShowOnMap \/ EditDraft \/ Drag
    \/ ClosePanel \/ CloseMap \/ CloseRides
    \/ SubmitEdit \/ SubmitAdd \/ SubmitDelete \/ SubmitPlace \/ Answered \/ Refuse \/ PlaceShown
    \/ PollDriver \/ PollAnswered \/ PollFails \/ RidesArrive

FSSpec == FSInit /\ [][FSNext]_fsVars /\ WF_fsVars(PollDriver) /\ WF_fsVars(PollAnswered)

-----------------------------------------------------------------------------
DriversScreenTypeOK ==
    /\ DOMAIN fleet = Drivers /\ \A d \in Drivers : fleet[d] \in Row
    /\ wanted \in Query
    /\ panel.who \in Drivers \cup {None} /\ draft.touched \subseteq Fields
    /\ \A w \in writes : w.kind \in {"edit", "add", "delete", "place"}
    /\ rideAsks \subseteq Drivers /\ rides \in rideAsks \cup Drivers \cup {None}
    /\ dragged \in BOOLEAN /\ crossed \in BOOLEAN

\* At rest the page shows the filter and the page that are chosen, also after
\* the two loads one change of the filter makes, unless answers crossed or a
\* handler refreshed a list that had been left since.
SettledGridIsWanted == lists = <<>> /\ ~crossed => grid.of = wanted

\* A saved form overwrites a field the dispatcher did not touch only with what
\* the list knew of it: to put a driver off line behind his back, the driver must
\* have switched after the list the form was filled from.  Except that what was
\* NULL becomes the dash that the card shows for it.
OverwritesOnlyUnseen ==
    [][\A w \in writes : \A f \in Fields \ w.form.touched :
         w.stage \in {"sent", "fields"} /\ w.kind = "edit" /\ fleet'[w.who] # fleet[w.who]
           /\ fleet'[w.who][f] # fleet[w.who][f] /\ fleet'[w.who][f] = w.form[f]
           /\ others' = others
         => \/ fleet[w.who].ver[f] # w.form.ver[f]
            \/ f = "car" /\ fleet[w.who].car = None /\ fleet'[w.who].car = Dash]_fsVars

\* What polling brought into the map dialog is the driver it is open for, however
\* late the answers of an earlier dialog arrive.
PolledDetailIsOfDialog ==
    detail # None /\ detail.via = "poll" => panel = [kind |-> "map", who |-> detail.of]

\* A map dialog that stays open gets to show its own driver, also when the answer
\* to a position saved for another one came into it; unless he has been archived.
MapDialogRecovers ==
    \A d \in Drivers :
        panel = [kind |-> "map", who |-> d]
          ~> \/ panel # [kind |-> "map", who |-> d]
             \/ detail = [of |-> d, via |-> "poll"]
             \/ fleet[d].state # "active"
=============================================================================
