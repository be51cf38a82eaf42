---------------------------- MODULE OrdersScreen ----------------------------
(***************************************************************************)
(* The "orders" page of the dispatcher's console (components/Orders.tsx    *)
(* with services/orders.ts): the paged list, the edit and assign dialogs   *)
(* and the bulk import, against the orders table that other dispatchers    *)
(* and drivers change at the same time.                                    *)
(*                                                                         *)
(* Every call is a request of its own: it is sent, served, and answered    *)
(* some time later.  A handler goes on after its await with the values it  *)
(* closed over when it was called, not with the page's present ones.       *)
(***************************************************************************)
EXTENDS Naturals, Sequences, FiniteSets, OrderStates

CONSTANTS
    Filters,      \* the status filters the dispatcher uses, a subset of FilterNames
    Drivers,
    InitialStatus,\* statuses orders may have when the page is opened
    InitialCount, \* orders in the table when the page is opened
    MaxOrders,    \* orders after an import
    PageSize,     \* pageSize of the list (20)
    Limit,        \* rows per answer that loadOrders asks for (100)
    MaxElsewhere, \* bound: changes of orders by others
    MaxClicks,    \* bound: what the dispatcher does on the page
    MaxLoads,     \* bound: requests of a kind in flight when one is started
    None

FilterNames == {"all", "waiting", "on_the_way", "completed", "cancelled"}

ASSUME OrdersScreenAssumption ==
    /\ Filters \subseteq FilterNames /\ "all" \in Filters
    /\ InitialStatus \subseteq OrderStatus /\ InitialStatus # {}
    /\ MaxOrders \in Nat /\ InitialCount \in 1..MaxOrders /\ PageSize \in 1..Limit
    /\ None \notin Drivers \cup OrderStatus \cup {"view", "edit", "assign", "import"}

VARIABLES
    server,   \* the orders table, in the order the API lists it
    mine,     \* mine[o]: version of o that this page's last write produced
    list,     \* the list: rows, what they answer, filter, page, loading
    loads,    \* list requests in flight, in the order they were sent
    dialog,   \* the open dialog (edit or assign) and what was entered in it
    work,     \* work["edit"], work["assign"], work["import"]: the handler awaiting an answer
    cands,    \* candidate requests in flight
    hist,     \* unusual events so far, see Events
    clicks,   \* what the dispatcher has done, up to MaxClicks
    foreign   \* changes of orders by others, up to MaxElsewhere

osVars == <<server, mine, list, loads, dialog, work, cands, hist, clicks, foreign>>

Ids == 1..MaxOrders
Known == 1..Len(server)
Versions == 0..(MaxElsewhere + MaxClicks)
Handlers == {"edit", "assign", "import"}

\* left: a dialog was closed while its handler awaited an answer;
\* overtaken: an answer arrived before that of an earlier request;
\* lost: a list request failed;  partial: a handler failed after a write.
Events == {"left", "overtaken", "lost", "partial"}

Order == [status: OrderStatus, time: 0..1, driver: Drivers \cup {None}, ver: Versions]
AreRows(rows) == DOMAIN rows \subseteq Ids /\ \A o \in DOMAIN rows : rows[o] \in Order
\* day: the order's own date, another one, or (None, as for the time) none that
\* validatePickupDateTime accepts.
Days == {"own", "other", None}
Form == [status: STRING, time: {0, 1, None}, day: Days]
NoDialog == [kind |-> None, order |-> None, form |-> None, cands |-> None,
             busy |-> FALSE, crowded |-> FALSE]
Idle == [step |-> "idle", order |-> None, snap |-> None, form |-> None,
         filter |-> None, page |-> 1, wrote |-> FALSE]

-----------------------------------------------------------------------------
(* services/orders.ts                                                        *)

\* backendStatusGroups, and the statuses that backendStatus sends as they are.
StatusesOf(f) ==
    CASE f = "all" -> OrderStatus
      [] f = "waiting" -> {"created", "scheduled", "assigned"}
      [] f = "on_the_way" -> {"driver_en_route", "picked_up"}
      [] OTHER -> {f}

\* loadOrders: the API filters by one status and cuts the window; a group of
\* statuses is filtered by the page afterwards.  The offset counts pages of
\* PageSize rows, the window is always Limit rows long.
Answer(filter, page) ==
    LET grouped == filter \in {"waiting", "on_the_way"}
        listed == {o \in Known : grouped \/ server[o].status \in StatusesOf(filter)}
        Rank(o) == Cardinality({p \in listed : p <= o})
        skip == (page - 1) * PageSize
        window == {o \in listed : Rank(o) \in (skip + 1)..(skip + Limit)}
    IN  [o \in {p \in window : server[p].status \in StatusesOf(filter)} |-> server[o]]

\* getOrdersPaginated: the count is the length of the answer, next is null.
Count(rows) == Cardinality(DOMAIN rows)

\* backendStatus, on the way to the API.
BackendStatus(s) == CASE s = "ride_ongoing" -> "picked_up"
                      [] s = "pending" -> "created"
                      [] OTHER -> s

\* adaptOrder, on the way back.
ShownStatus(s) == IF s = "picked_up" THEN "ride_ongoing" ELSE s

\* updateOrder: of the date and time that the page sends, the call carries the
\* time of day alone, never the date.
PatchedTime(o, form) == [server[o] EXCEPT !.time = form.time, !.ver = @ + 1]

-----------------------------------------------------------------------------
(* What the page offers                                                      *)

\* getAvailableStatuses.
AvailableStatuses(s) ==
    CASE s = "draft" -> {"submitted", "cancelled"}
      [] s = "submitted" -> {"awaiting_dispatcher_decision", "rejected", "cancelled"}
      [] s = "awaiting_dispatcher_decision" -> {"active_queue", "rejected", "cancelled"}
      [] s = "rejected" -> {"submitted", "cancelled"}
      [] s = "active_queue" -> {"assigned", "cancelled"}
      [] s = "assigned" -> {"driver_en_route", "cancelled"}
      [] s = "driver_en_route" -> {"arrived_waiting", "cancelled"}
      [] s = "arrived_waiting" -> {"ride_ongoing", "no_show", "cancelled"}
      [] s = "no_show" -> {"cancelled"}
      [] s = "ride_ongoing" -> {"completed", "incident", "cancelled"}
      [] s = "incident" -> {"completed", "cancelled"}
      [] s = "cancelled" -> {"submitted", "active_queue"}
      [] OTHER -> {}

Row == list.rows[dialog.order]
RowShown == dialog.order \in DOMAIN list.rows      \* selectedOrderData exists
\* The view dialog: the order as the present list has it, or nothing.
Viewed == IF dialog.kind = "view" /\ RowShown THEN Row ELSE None

FormOf(row) == [status |-> ShownStatus(row.status), time |-> row.time, day |-> "own"]

\* Mutant: an open dialog does not cover the table.
TableUsableUnder == ~list.loading

\* The table, its buttons and the page buttons are replaced by a spinner while
\* the list loads, and an open dialog covers them.
TableUsable == ~list.loading /\ dialog.kind = None

CanTurnForward == TableUsable /\ list.page * PageSize < Count(list.rows)
CanTurnBack == TableUsable /\ Count(list.rows) > 0 /\ list.page > 1
CanOpenEdit(o) == TableUsable /\ o \in DOMAIN list.rows
CanOpenAssign(o) ==
    /\ CanOpenEdit(o)
    /\ list.rows[o].driver = None
    /\ list.rows[o].status \notin {"completed", "cancelled"}

\* The edit dialog: fields, "cancel the order", save.
CanEdit == dialog.kind = "edit" /\ RowShown
CanSave == CanEdit /\ work["edit"] = Idle
CanCancelOrder == CanSave /\ "cancelled" \in AvailableStatuses(ShownStatus(Row.status))

\* The assign dialog: pick a candidate, assign, leave it to the planner.
CanPick(d) == dialog.kind = "assign" /\ RowShown /\ ~dialog.busy /\ d \in dialog.cands.drivers
CanAssign == dialog.kind = "assign" /\ RowShown /\ work["assign"] = Idle

-----------------------------------------------------------------------------
(* Effects and continuations                                                 *)

\* loadOrders as called by an effect: with the page's present filter and page.
Load(filter, page) == [filter |-> filter, page |-> page, rows |-> None]
Loading == [list EXCEPT !.loading = TRUE]

\* The effect of the assign dialog: unless the row is closed, ask for candidates.
AsksCandidates(o, rows) ==
    o \in DOMAIN rows => rows[o].status \notin {"completed", "cancelled"}

\* The effects that run because the array of orders is a new one: the edit
\* dialog is filled anew, the assign dialog asks for candidates again.
Refilled(rows) ==
    CASE dialog.kind = "edit" /\ dialog.order \in DOMAIN rows ->
           [dialog EXCEPT !.form = FormOf(rows[dialog.order])]
      [] dialog.kind = "assign" /\ ~AsksCandidates(dialog.order, rows) ->
           [dialog EXCEPT !.cands = [of |-> dialog.order, drivers |-> {}], !.busy = FALSE]
      [] dialog.kind = "assign" /\ AsksCandidates(dialog.order, rows) ->
           [dialog EXCEPT !.busy = TRUE]
      [] OTHER -> dialog

AskedAgain(rows) ==
    IF dialog.kind = "assign" /\ AsksCandidates(dialog.order, rows)
    THEN Append(cands, [order |-> dialog.order, drivers |-> None])
    ELSE cands

\* Mutant: a handler that succeeded does not reload.
SucceedQuietly(h) ==
    /\ dialog' = IF dialog.kind = h THEN NoDialog ELSE dialog
    /\ work' = [work EXCEPT ![h] = Idle]
    /\ UNCHANGED <<loads, list>>

\* A handler succeeded: it starts a reload with the filter and page it closed
\* over and closes whatever dialog of its kind is open (refreshOrders does not
\* wait for the reload: it returns no promise).
Succeed(h) ==
    /\ loads' = Append(loads, Load(work[h].filter, work[h].page))
    /\ list' = Loading
    /\ dialog' = IF dialog.kind = h THEN NoDialog ELSE dialog
    /\ work' = [work EXCEPT ![h] = Idle]

\* A handler ended without success: the dialog stays as it is.
Fail(h) ==
    /\ work' = [work EXCEPT ![h] = Idle]
    /\ hist' = IF work[h].wrote THEN hist \cup {"partial"} ELSE hist

-----------------------------------------------------------------------------
\* Every action is a click, counted, or an answer.
Clicked == clicks < MaxClicks /\ clicks' = clicks + 1 /\ UNCHANGED foreign
Unclicked == UNCHANGED <<clicks, foreign>>

OSInit ==
    /\ server \in [1..InitialCount ->
                     [status: InitialStatus, time: {0}, driver: {None}, ver: {0}]]
    /\ mine = [o \in Ids |-> 0]
    /\ list = [rows |-> <<>>, of |-> None, filter |-> "all", page |-> 1, loading |-> TRUE]
    /\ loads = <<Load("all", 1)>>
    /\ dialog = NoDialog
    /\ work = [h \in Handlers |-> Idle]
    /\ cands = <<>>
    /\ hist = {}
    /\ clicks = 0
    /\ foreign = 0

\* Another dispatcher, a driver or the planner changes an order.
Elsewhere(o) ==
    /\ foreign < MaxElsewhere /\ foreign' = foreign + 1
    /\ \/ \E s \in OrderStatus :
            /\ CanMove(server[o].status, s)
            /\ server' = [server EXCEPT ![o].status = s, ![o].ver = @ + 1]
       \/ /\ server[o].status \in {"created", "scheduled"}
          /\ server' = [server EXCEPT ![o].time = 1 - @, ![o].ver = @ + 1]
    /\ UNCHANGED <<mine, list, loads, dialog, work, cands, hist, clicks>>

\* Mutant: the two requests of a filter change are sent in the other order.
SetFilterSwapped(f) ==
    /\ Clicked
    /\ dialog.kind = None /\ f # list.filter /\ Len(loads) <= MaxLoads
    /\ list' = [Loading EXCEPT !.filter = f, !.page = 1]
    /\ loads' = loads \o (IF list.page = 1 THEN <<Load(f, 1)>>
                          ELSE <<Load(f, 1), Load(f, list.page)>>)
    /\ UNCHANGED <<server, mine, dialog, work, cands, hist>>

\* The dispatcher chooses a filter: the list is asked for with the page shown,
\* and again with page 1 when the reset effect changes the page.
SetFilter(f) ==
    /\ Clicked
    /\ dialog.kind = None /\ f # list.filter /\ Len(loads) <= MaxLoads
    /\ list' = [Loading EXCEPT !.filter = f, !.page = 1]
    /\ loads' = loads \o (IF list.page = 1 THEN <<Load(f, 1)>>
                          ELSE <<Load(f, list.page), Load(f, 1)>>)
    /\ UNCHANGED <<server, mine, dialog, work, cands, hist>>

TurnTo(p) ==
    /\ Len(loads) <= MaxLoads
    /\ list' = [Loading EXCEPT !.page = p]
    /\ loads' = Append(loads, Load(list.filter, p))
    /\ UNCHANGED <<server, mine, dialog, work, cands, hist>>

TurnPage ==
    /\ Clicked
    /\ \/ CanTurnForward /\ TurnTo(list.page + 1)
       \/ CanTurnBack /\ TurnTo(list.page - 1)

ServeLoad(i) ==
    /\ Unclicked
    /\ loads[i].rows = None
    /\ loads' = [loads EXCEPT ![i].rows = Answer(loads[i].filter, loads[i].page)]
    /\ UNCHANGED <<server, mine, list, dialog, work, cands, hist>>

LoadArrives(i) ==
    /\ Unclicked
    /\ loads[i].rows # None
    /\ loads' = SubSeq(loads, 1, i - 1) \o SubSeq(loads, i + 1, Len(loads))
    /\ list' = [list EXCEPT !.rows = loads[i].rows, !.loading = FALSE,
                            !.of = <<loads[i].filter, loads[i].page>>]
    /\ dialog' = Refilled(loads[i].rows)
    /\ cands' = AskedAgain(loads[i].rows)
    /\ hist' = IF i = 1 THEN hist ELSE hist \cup {"overtaken"}
    /\ UNCHANGED <<server, mine, work>>

LoadFails ==
    /\ Unclicked
    /\ loads # <<>> /\ loads' = Tail(loads)
    /\ list' = [list EXCEPT !.loading = FALSE]
    /\ hist' = hist \cup {"lost"}
    /\ UNCHANGED <<server, mine, dialog, work, cands>>

-----------------------------------------------------------------------------
(* The edit dialog                                                           *)

OpenView(o) ==
    /\ Clicked
    /\ TableUsable /\ o \in DOMAIN list.rows
    /\ dialog' = [NoDialog EXCEPT !.kind = "view", !.order = o]
    /\ UNCHANGED <<server, mine, list, loads, work, cands, hist>>

OpenEdit(o) ==
    /\ Clicked
    /\ CanOpenEdit(o)
    /\ dialog' = [NoDialog EXCEPT !.kind = "edit", !.order = o,
                    !.form = FormOf(list.rows[o]),
                    !.crowded = loads # <<>> \/ \E h \in Handlers : work[h] # Idle]
    /\ UNCHANGED <<server, mine, list, loads, work, cands, hist>>

EditField ==
    /\ Clicked
    /\ CanEdit
    /\ \/ \E s \in AvailableStatuses(ShownStatus(Row.status)) :
            dialog' = [dialog EXCEPT !.form.status = s]
       \/ \E t \in {0, 1, None} : dialog' = [dialog EXCEPT !.form.time = t]
       \/ \E d \in Days : dialog' = [dialog EXCEPT !.form.day = d]
    /\ UNCHANGED <<server, mine, list, loads, work, cands, hist>>

\* Escape and the cross close a dialog at any time.
CloseDialog ==
    /\ Clicked
    /\ dialog.kind # None
    /\ dialog' = NoDialog
    /\ hist' = IF dialog.kind \in Handlers /\ work[dialog.kind] # Idle THEN hist \cup {"left"} ELSE hist
    /\ UNCHANGED <<server, mine, list, loads, work, cands>>

\* Mutant: the form is sent whole, changed or not.
GoOnWhole(w) == IF None \in {w.form.time, w.form.day} THEN "invalid" ELSE "patch"

\* The date or the time is not as the dialog was filled.
Touched(w) == w.form.time # w.snap.time \/ w.form.day # w.snap.day

\* The part of handleSaveOrder after the status call: check date and time if one
\* of them changed, send the changed fields if there are any.
GoOn(w) ==
    IF ~Touched(w) THEN "done"
    ELSE IF None \in {w.form.time, w.form.day} THEN "invalid" ELSE "patch"

\* Click on save: the first call is the status change, if there is one.
SaveOrder ==
    /\ Clicked
    /\ CanSave
    /\ LET w == [step |-> "start", order |-> dialog.order, snap |-> FormOf(Row),
                 form |-> dialog.form, filter |-> list.filter, page |-> list.page,
                 wrote |-> FALSE]
           first == IF w.form.status # w.snap.status THEN "status" ELSE GoOn(w)
       IN  work' = [work EXCEPT !["edit"] = [w EXCEPT !.step = first]]
    /\ UNCHANGED <<server, mine, list, loads, dialog, cands, hist>>

\* Click on "cancel the order": the status call alone.
CancelOrder ==
    /\ Clicked
    /\ CanCancelOrder
    /\ work' = [work EXCEPT !["edit"] =
                  [step |-> "status", order |-> dialog.order, snap |-> FormOf(Row),
                   form |-> [FormOf(Row) EXCEPT !.status = "cancelled"],
                   filter |-> list.filter, page |-> list.page, wrote |-> FALSE]]
    /\ UNCHANGED <<server, mine, list, loads, dialog, cands, hist>>

\* A write of handler h is served: o becomes row, or the call is refused and
\* the handler's catch runs when the answer arrives.
Commit(h, row, next) ==
    LET o == work[h].order
    IN  /\ server' = [server EXCEPT ![o] = row]
        /\ mine' = [mine EXCEPT ![o] = row.ver]
        /\ work' = [work EXCEPT ![h].step = next, ![h].wrote = TRUE]

Refuse(h) ==
    /\ work' = [work EXCEPT ![h].step = "refused"]
    /\ UNCHANGED <<server, mine>>

\* updateOrderStatus: the transition is made or refused by the server.
ServeStatus ==
    LET w == work["edit"]
        to == BackendStatus(w.form.status)
    IN  /\ Unclicked
        /\ w.step = "status"
        /\ IF CanMove(server[w.order].status, to)
           THEN Commit("edit", [server[w.order] EXCEPT !.status = to, !.ver = @ + 1], GoOn(w))
           ELSE Refuse("edit")
        /\ UNCHANGED <<list, loads, dialog, cands, hist>>

\* updateOrder: the server edits orders only while they are created or scheduled.
ServePatch ==
    LET w == work["edit"]
    IN  /\ Unclicked
        /\ w.step = "patch"
        /\ IF server[w.order].status \in {"created", "scheduled"}
           THEN Commit("edit", PatchedTime(w.order, w.form), "done")
           ELSE Refuse("edit")
        /\ UNCHANGED <<list, loads, dialog, cands, hist>>

\* The last answer arrives and handleSaveOrder ends.
SaveEnds ==
    /\ Unclicked
    /\ \/ /\ work["edit"].step = "done" /\ Succeed("edit")
          /\ UNCHANGED <<server, mine, cands, hist>>
       \/ /\ work["edit"].step \in {"invalid", "refused"} /\ Fail("edit")
          /\ UNCHANGED <<server, mine, list, loads, dialog, cands>>

-----------------------------------------------------------------------------
(* The assign dialog                                                         *)

OpenAssign(o) ==
    /\ Clicked
    /\ CanOpenAssign(o) /\ Len(cands) <= MaxLoads
    /\ dialog' = [NoDialog EXCEPT !.kind = "assign", !.order = o, !.busy = TRUE,
                    !.cands = [of |-> None, drivers |-> {}]]
    /\ cands' = Append(cands, [order |-> o, drivers |-> None])
    /\ UNCHANGED <<server, mine, list, loads, work, hist>>

\* The server's list of candidates: any set of drivers, fixed when it is served.
ServeCandidates(i) ==
    /\ Unclicked
    /\ cands[i].drivers = None
    /\ \E D \in SUBSET Drivers : cands' = [cands EXCEPT ![i].drivers = D]
    /\ UNCHANGED <<server, mine, list, loads, dialog, work, hist>>

\* The answer fills the dialog that is open now, whatever order it was asked
\* for, and drops the driver that was picked; a failed request empties the list.
CandidatesArrive(i) ==
    /\ Unclicked
    /\ cands[i].drivers # None
    /\ cands' = SubSeq(cands, 1, i - 1) \o SubSeq(cands, i + 1, Len(cands))
    /\ \E ok \in BOOLEAN :
         dialog' = IF dialog.kind # "assign" THEN dialog
                   ELSE [dialog EXCEPT !.busy = FALSE, !.form = IF ok THEN None ELSE @,
                           !.cands = [of |-> cands[i].order,
                                      drivers |-> IF ok THEN cands[i].drivers ELSE {}]]
    /\ hist' = IF i = 1 THEN hist ELSE hist \cup {"overtaken"}
    /\ UNCHANGED <<server, mine, list, loads, work>>

PickDriver(d) ==
    /\ Clicked
    /\ CanPick(d)
    /\ dialog' = [dialog EXCEPT !.form = d]
    /\ UNCHANGED <<server, mine, list, loads, work, cands, hist>>

\* handleAssignDriver with the picked driver, handleAutoAssign without one.
AssignOrder(d) ==
    /\ Clicked
    /\ CanAssign
    /\ d \in {None, dialog.form}
    /\ work' = [work EXCEPT !["assign"] =
                  [Idle EXCEPT !.step = "assign", !.order = dialog.order, !.form = d,
                               !.filter = list.filter, !.page = list.page]]
    /\ UNCHANGED <<server, mine, list, loads, dialog, cands, hist>>

\* The server assigns a pending order, to the driver named or to one it chooses.
ServeAssign ==
    LET w == work["assign"]
    IN  /\ Unclicked
        /\ w.step = "assign"
        /\ \/ /\ server[w.order].status \in Pending
              /\ \E d \in (IF w.form = None THEN Drivers ELSE {w.form}) :
                   Commit("assign", [server[w.order] EXCEPT !.status = "assigned",
                                       !.driver = d, !.ver = @ + 1], "done")
           \/ Refuse("assign")
        /\ UNCHANGED <<list, loads, dialog, cands, hist>>

AssignEnds ==
    /\ Unclicked
    /\ \/ /\ work["assign"].step = "done" /\ Succeed("assign")
          /\ UNCHANGED <<server, mine, cands, hist>>
       \/ /\ work["assign"].step = "refused" /\ Fail("assign")
          /\ UNCHANGED <<server, mine, list, loads, dialog, cands>>

-----------------------------------------------------------------------------
(* Import of a file of orders                                                *)

ImportOrders ==
    /\ Clicked
    /\ TableUsable /\ work["import"] = Idle
    /\ work' = [work EXCEPT !["import"] = [Idle EXCEPT !.step = "import",
                              !.filter = list.filter, !.page = list.page]]
    /\ dialog' = [NoDialog EXCEPT !.kind = "import"]
    /\ UNCHANGED <<server, mine, list, loads, cands, hist>>

ServeImport ==
    /\ Unclicked
    /\ work["import"].step = "import"
    /\ \/ /\ Len(server) < MaxOrders
          /\ server' = Append(server, [status |-> "created", time |-> 0,
                                       driver |-> None, ver |-> 0])
          /\ work' = [work EXCEPT !["import"].step = "done"]
       \/ /\ work' = [work EXCEPT !["import"].step = "refused"]
          /\ UNCHANGED server
    /\ UNCHANGED <<mine, list, loads, dialog, cands, hist>>

\* The import dialog stays open on the result; the list is reloaded under it.
ImportEnds ==
    /\ Unclicked
    /\ \/ /\ work["import"].step = "done"
          /\ loads' = Append(loads, Load(work["import"].filter, work["import"].page))
          /\ list' = Loading
       \/ work["import"].step = "refused" /\ UNCHANGED <<list, loads>>
    /\ work' = [work EXCEPT !["import"] = Idle]
    /\ UNCHANGED <<server, mine, dialog, cands, hist>>

-----------------------------------------------------------------------------
OSNext ==
    \/ \E o \in Known : OpenView(o) \/ OpenEdit(o) \/ OpenAssign(o) \/ Elsewhere(o)
    \/ \E f \in Filters : SetFilter(f)
    \/ TurnPage \/ ImportOrders
    \/ EditField \/ CloseDialog \/ SaveOrder \/ CancelOrder
    \/ \E d \in Drivers : PickDriver(d)
    \/ \E d \in Drivers \cup {None} : AssignOrder(d)
    \/ \E i \in DOMAIN loads : ServeLoad(i) \/ LoadArrives(i)
    \/ LoadFails
    \/ \E i \in DOMAIN cands : ServeCandidates(i) \/ CandidatesArrive(i)
    \/ ServeStatus \/ ServePatch \/ SaveEnds
    \/ ServeAssign \/ AssignEnds
    \/ ServeImport \/ ImportEnds

OSSpec == OSInit /\ [][OSNext]_osVars

-----------------------------------------------------------------------------
(* Properties                                                                *)

\* The page's state stays within the values its code produces.
OrdersScreenTypeOK ==
    /\ server \in Seq(Order) /\ Len(server) \in InitialCount..MaxOrders
    /\ AreRows(list.rows) /\ list.filter \in Filters /\ list.page \in 1..MaxOrders
    /\ \A i \in DOMAIN loads : loads[i].rows = None \/ AreRows(loads[i].rows)
    /\ dialog.kind = "edit" => dialog.form \in Form
    /\ dialog.kind = "assign" => dialog.form \in Drivers \cup {None}
    /\ \A h \in Handlers : work[h].step \in
         {"idle", "status", "patch", "assign", "import", "invalid", "refused", "done"}
    /\ hist \subseteq Events

AtRest == loads = <<>> /\ cands = <<>> /\ \A h \in Handlers : work[h] = Idle

\* When nothing is in flight the page shows what is asked of it: the list answers
\* the filter and the page that are selected, although a filter change sends two
\* requests, a reload may start behind any of them and each handler reloads with
\* the filter it closed over; and the candidates offered are those of the order
\* the dialog is open for, although the dialog takes every answer.  Only a dialog
\* left before its answer, answers out of order or a lost answer can break it.
SettledPageIsCurrent ==
    /\ AtRest /\ hist \cap {"left", "overtaken", "lost"} = {}
        => list.of = <<list.filter, list.page>> /\ ~list.loading
    /\ cands = <<>> /\ dialog.kind = "assign" /\ "overtaken" \notin hist
        => dialog.cands.of = dialog.order

\* When nothing is in flight the rows shown, in the list and in the view dialog,
\* are no older than what this page itself wrote: every handler that wrote
\* reloads, except one that failed after its first write.
OwnWritesShown ==
    AtRest /\ hist = {} =>
        /\ \A o \in DOMAIN list.rows : list.rows[o].ver >= mine[o]
        /\ Viewed # None => Viewed.ver >= mine[dialog.order]

\* What was typed into an edit dialog opened with nothing in flight is replaced
\* neither by a reload nor by another handler's end while that dialog is open, and
\* a handler that ends closes only the dialog it was called from, unless the
\* dispatcher had left that dialog.
TypedFormKept ==
    [][/\ dialog.kind = "edit" /\ ~dialog.crowded /\ dialog'.kind = "edit"
            => (list' # list => UNCHANGED dialog)
       /\ \A h \in {"edit", "assign"} :
            work[h].step = "done" /\ work'[h] = Idle /\ dialog.kind = h =>
                dialog.order = work[h].order \/ "left" \in hist]_osVars

\* A save in whose dialog neither the date nor the time was changed leaves the
\* order's time alone, whatever others made of it while the dialog was open.  (To
\* change the date counts as changing the time: updateOrder then sends the time
\* of day, and only that.)
UntouchedTimeKept ==
    [][\A o \in Known :
         mine'[o] # mine[o] /\ server'[o].time # server[o].time =>
             work["edit"].order = o /\ Touched(work["edit"])]_osVars

=============================================================================
