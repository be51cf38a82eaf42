--------------------------- MODULE LiveSocketProofs ---------------------------
(***************************************************************************)
(* The two parts of the fleet: the live link and, from the middle on, the  *)
(* drivers page.                                                           *)
(*                                                                         *)
(* OneSocketIfPatient for any number of sockets, retries and pages.  While *)
(* no page has opened the link in haste there is at most one socket in any *)
(* state but unused, closing ones included: a page that is not shown has   *)
(* given its socket up, and a retry is due only when there is none.        *)
(*                                                                         *)
(* The drivers page for any number of drivers, fields and requests.  What  *)
(* a card or a form carries was the table's at some time, and the table's  *)
(* versions only grow (PageKnows); the newest list request asks for what   *)
(* is wanted (GridFollows); a poll that is answered is the open dialog's   *)
(* (PollsOfDialog).                                                        *)
(***************************************************************************)
EXTENDS LiveSocket, DriversScreen, FiniteSetTheorems, SequenceTheorems, TLAPS

LinkClient == [ws: Ids \cup {Nil}, status: {"connected", "connecting", "disconnected", "error"},
               attempts: Nat, timer: BOOLEAN, closedByClient: BOOLEAN]

LinkTypes ==
    /\ sockets \in [Ids -> SocketState] /\ client \in LinkClient
    /\ mounted \in BOOLEAN /\ hasty \in BOOLEAN

\* One socket in use, and the client knows it unless it is on its way out.
OneInUse ==
    ~hasty => /\ \A s, t \in Ids : sockets[s] # "unused" /\ sockets[t] # "unused" => s = t
              /\ \A s \in InState({"connecting", "open"}) : client.ws = s
              /\ client.timer => client.ws = Nil
              /\ client.ws # Nil => sockets[client.ws] # "unused"

\* A page that is not shown leaves neither a socket nor a retry behind.
LeftAlone ==
    ~mounted => /\ client.ws = Nil /\ ~client.timer
                /\ client.closedByClient \/ \A s \in Ids : sockets[s] = "unused"

Heard == client.status = "connected" => \E s \in Ids : sockets[s] \in {"open", "evicted"}

LinkInv == LinkTypes /\ OneInUse /\ LeftAlone /\ Heard

\* No page is shown and no socket exists at the start.
LEMMA InitLink == LSInit => LinkInv
<1> SUFFICES ASSUME LSInit PROVE LinkInv
  OBVIOUS
<1>1. LinkTypes
  BY DEF LSInit, LinkTypes, LinkClient, SocketState
<1>2. \A s \in Ids : sockets[s] = "unused"
  BY DEF LSInit
<1>3. OneInUse /\ LeftAlone /\ Heard
  BY <1>2 DEF LSInit, OneInUse, LeftAlone, Heard, InState
<1> QED
  BY <1>1, <1>3 DEF LinkInv

\* A step that touches none of it.
LEMMA SameLink == ASSUME LinkInv, UNCHANGED <<sockets, client, mounted, hasty>> PROVE LinkInv'
BY DEF LinkInv, LinkTypes, OneInUse, LeftAlone, Heard, InState

\* What connect does: nothing while the client's socket is open, else a new socket
\* becomes the client's, in haste if there is one that has yet to close.
LEMMA ConnectDoes ==
    ASSUME NEW c \in LinkClient, NEW sock \in [Ids -> SocketState], Connect(c, sock)
    PROVE  \/ Connected(c, sock) /\ client' = c /\ sockets' = sock /\ hasty' = hasty
           \/ /\ ~Connected(c, sock)
              /\ \E s \in Ids :
                   /\ sock[s] = "unused" /\ sockets' = [sock EXCEPT ![s] = "connecting"]
                   /\ client' \in LinkClient /\ client'.ws = s /\ client'.status = "connecting"
                   /\ client'.timer = c.timer /\ client'.closedByClient = FALSE
              /\ hasty' = (hasty \/ \E t \in Ids : sock[t] \in {"closing", "evicted"})
<1>1. CASE Connected(c, sock)
  BY <1>1 DEF Connect
<1>2. CASE ~Connected(c, sock)
  <2>1. PICK s \in Ids :
          /\ sock[s] = "unused" /\ sockets' = [sock EXCEPT ![s] = "connecting"]
          /\ client' = [c EXCEPT !.ws = s, !.status = "connecting", !.closedByClient = FALSE]
    BY <1>2 DEF Connect
  <2>2. /\ client' \in LinkClient /\ client'.ws = s /\ client'.status = "connecting"
        /\ client'.timer = c.timer /\ client'.closedByClient = FALSE
    BY <2>1 DEF LinkClient
  <2>3. hasty' = (hasty \/ \E t \in Ids : sock[t] \in {"closing", "evicted"})
    BY <1>2 DEF Connect
  <2> QED
    BY <1>2, <2>1, <2>2, <2>3
<1> QED
  BY <1>1, <1>2

\* Connecting keeps the invariant if, unless a page was hasty, the sockets are all
\* on their way out, or the client's is open already.
LEMMA ConnectKeepsLink ==
    ASSUME LinkInv, NEW c \in LinkClient, NEW sock \in [Ids -> SocketState], Connect(c, sock), mounted' = TRUE,
           ~hasty =>
             /\ \A s, t \in Ids : sock[s] # "unused" /\ sock[t] # "unused" => s = t
             /\ \A s \in Ids : sock[s] \in {"connecting", "open"} => c.ws = s /\ sock[s] = "open"
             /\ ~c.timer,
           c.status = "connected" => \E s \in Ids : sock[s] \in {"open", "evicted"}
    PROVE  LinkInv'
<1>1. CASE Connected(c, sock) /\ client' = c /\ sockets' = sock /\ hasty' = hasty
  <2>1. c.ws # Nil /\ sock[c.ws] = "open"
    BY <1>1 DEF Connected
  <2>2. LinkTypes' /\ LeftAlone' /\ Heard'
    BY <1>1 DEF LinkInv, LinkTypes, LeftAlone, Heard
  <2>3. OneInUse'
    BY <1>1, <2>1 DEF OneInUse, InState
  <2> QED
    BY <2>2, <2>3 DEF LinkInv
<1>2. CASE /\ ~Connected(c, sock)
           /\ \E s \in Ids :
                /\ sock[s] = "unused" /\ sockets' = [sock EXCEPT ![s] = "connecting"]
                /\ client' \in LinkClient /\ client'.ws = s /\ client'.status = "connecting"
                /\ client'.timer = c.timer /\ client'.closedByClient = FALSE
           /\ hasty' = (hasty \/ \E t \in Ids : sock[t] \in {"closing", "evicted"})
  <2>1. PICK s \in Ids :
          /\ sock[s] = "unused" /\ sockets' = [sock EXCEPT ![s] = "connecting"]
          /\ client' \in LinkClient /\ client'.ws = s /\ client'.status = "connecting"
          /\ client'.timer = c.timer /\ client'.closedByClient = FALSE
    BY <1>2
  <2>2. LinkTypes'
    BY <1>2, <2>1 DEF LinkInv, LinkTypes, LinkClient, SocketState
  <2>3. OneInUse'
    <3> SUFFICES ASSUME ~hasty' PROVE OneInUse'
      BY DEF OneInUse
    <3>1. ~hasty /\ \A t \in Ids : sock[t] \notin {"closing", "evicted"}
      BY <1>2
    <3>2. \A t \in Ids : sock[t] = "unused"
      <4> SUFFICES ASSUME NEW t \in Ids, sock[t] # "unused" PROVE FALSE
        OBVIOUS
      <4>1. sock[t] \in {"connecting", "open"}
        BY <3>1 DEF SocketState
      <4>2. c.ws = t /\ sock[t] = "open"
        BY <3>1, <4>1
      <4> QED
        BY <1>2, <4>2, LiveSocketAssumption DEF Connected, Ids
    <3>3. \A t \in Ids : sockets'[t] # "unused" => t = s
      BY <2>1, <3>2
    <3> QED
      BY <2>1, <3>1, <3>3 DEF OneInUse, InState
  <2>4. LeftAlone' /\ Heard'
    BY <2>1 DEF LeftAlone, Heard
  <2> QED
    BY <2>2, <2>3, <2>4 DEF LinkInv
<1> QED
  BY <1>1, <1>2, ConnectDoes

\* What disconnect leaves: the client without socket and timer, its socket on its
\* way out.
LEMMA DisconnectLeaves ==
    ASSUME LinkInv
    PROVE  /\ Disconnected \in LinkClient /\ Disconnected.ws = Nil /\ ~Disconnected.timer
           /\ Disconnected.status = "disconnected" /\ Disconnected.closedByClient
           /\ Closed(sockets) \in [Ids -> SocketState]
           /\ ~hasty => /\ \A s, t \in Ids : Closed(sockets)[s] # "unused" /\ Closed(sockets)[t] # "unused" => s = t
                        /\ \A s \in Ids : Closed(sockets)[s] \notin {"connecting", "open"}
<1>1. /\ Disconnected \in LinkClient /\ Disconnected.ws = Nil /\ ~Disconnected.timer
      /\ Disconnected.status = "disconnected" /\ Disconnected.closedByClient
  BY DEF Disconnected, LinkInv, LinkTypes, LinkClient
<1>2. Closed(sockets) \in [Ids -> SocketState]
  BY DEF Closed, LinkInv, LinkTypes, SocketState
<1>3. client.ws \in Ids \cup {Nil} /\ Nil \notin Ids
  BY LiveSocketAssumption DEF LinkInv, LinkTypes, LinkClient, Ids
<1>4. CASE client.ws = Nil \/ sockets[client.ws] = "evicted"
  <2>1. Closed(sockets) = sockets
    BY <1>4 DEF Closed
  <2>2. ASSUME ~hasty, NEW s \in Ids PROVE sockets[s] \notin {"connecting", "open"}
    BY <1>3, <1>4, <2>2 DEF LinkInv, OneInUse, InState
  <2> QED
    BY <1>1, <1>2, <2>1, <2>2 DEF LinkInv, OneInUse
<1>5. CASE client.ws # Nil /\ sockets[client.ws] # "evicted"
  <2>1. Closed(sockets) = [sockets EXCEPT ![client.ws] = "closing"]
    BY <1>5 DEF Closed
  <2>2. ASSUME ~hasty, NEW s \in Ids, s # client.ws PROVE sockets[s] = "unused"
    BY <1>3, <1>5, <2>2 DEF LinkInv, OneInUse
  <2>3. ASSUME ~hasty, NEW s \in Ids, s # client.ws PROVE Closed(sockets)[s] = "unused"
    BY <2>1, <2>2, <2>3 DEF LinkInv, LinkTypes
  <2>4. Closed(sockets)[client.ws] = "closing"
    BY <1>3, <1>5, <2>1 DEF LinkInv, LinkTypes
  <2> QED
    BY <1>1, <1>2, <2>3, <2>4
<1> QED
  BY <1>4, <1>5

\* A page opens the link, or closes and opens it at once.
LEMMA PageOpensLink ==
    ASSUME LinkInv, Mount \/ Reopen PROVE LinkInv'
<1>1. CASE Mount
  <2>1. Connect(client, sockets) /\ ~mounted /\ mounted' = TRUE
    BY <1>1 DEF Mount
  <2>2. ASSUME ~hasty, NEW s \in Ids PROVE sockets[s] \notin {"connecting", "open"}
    BY <2>1, <2>2, LiveSocketAssumption DEF LinkInv, OneInUse, LeftAlone, InState, Ids
  <2>3. client \in LinkClient /\ sockets \in [Ids -> SocketState] /\ ~client.timer
    BY <2>1 DEF LinkInv, LinkTypes, LeftAlone
  <2> QED
    BY <2>1, <2>2, <2>3, ConnectKeepsLink DEF LinkInv, OneInUse, Heard
<1>2. CASE Reopen
  <2>1. Connect(Disconnected, Closed(sockets)) /\ mounted' = TRUE
    BY <1>2 DEF Reopen, LinkInv, LinkTypes
  <2> QED
    BY <2>1, DisconnectLeaves, ConnectKeepsLink
<1> QED
  BY <1>1, <1>2

\* The retry finds no socket, unless a page was hasty.
LEMMA RetryKeepsLink == ASSUME LinkInv, RetryTimer PROVE LinkInv'
<1> DEFINE c == [client EXCEPT !.timer = FALSE]
<1>1. Connect(c, sockets) /\ client.timer /\ mounted' = mounted
  BY DEF RetryTimer
<1>2. c \in LinkClient /\ c.ws = client.ws /\ ~c.timer /\ c.status = client.status
  BY DEF LinkInv, LinkTypes, LinkClient
<1>3. mounted' = TRUE /\ sockets \in [Ids -> SocketState]
  BY <1>1 DEF LinkInv, LinkTypes, LeftAlone
<1>4. ASSUME ~hasty, NEW s \in Ids PROVE sockets[s] \notin {"connecting", "open"}
  BY <1>1, <1>4, LiveSocketAssumption DEF LinkInv, OneInUse, InState, Ids
<1>5. ~hasty => \A s, t \in Ids : sockets[s] # "unused" /\ sockets[t] # "unused" => s = t
  BY DEF LinkInv, OneInUse
<1>6. c.status = "connected" => \E s \in Ids : sockets[s] \in {"open", "evicted"}
  BY <1>2 DEF LinkInv, Heard
<1> HIDE DEF c
<1> QED
  BY <1>1, <1>2, <1>3, <1>4, <1>5, <1>6, ConnectKeepsLink

\* A page closes the link.
LEMMA UnmountKeepsLink == ASSUME LinkInv, Unmount PROVE LinkInv'
<1>1. client' = Disconnected /\ sockets' = Closed(sockets) /\ mounted' = FALSE /\ hasty' = hasty
  BY DEF Unmount
<1> QED
  BY <1>1, DisconnectLeaves DEF LinkInv, LinkTypes, OneInUse, LeftAlone, Heard, InState

\* The server is lost: open sockets are on their way out.
LEMMA OutageKeepsLink == ASSUME LinkInv, Outage PROVE LinkInv'
<1>1. /\ sockets' = IF up THEN [s \in Ids |-> IF sockets[s] = "open" THEN "evicted" ELSE sockets[s]] ELSE sockets
      /\ UNCHANGED <<client, mounted, hasty>>
  BY DEF Outage
<1>2. LinkTypes'
  BY <1>1 DEF LinkInv, LinkTypes, SocketState
<1>3. \A s \in Ids : /\ sockets'[s] = "unused" <=> sockets[s] = "unused"
                     /\ sockets'[s] \in {"connecting", "open"} => sockets[s] \in {"connecting", "open"}
                     /\ sockets[s] \in {"open", "evicted"} => sockets'[s] \in {"open", "evicted"}
  BY <1>1 DEF LinkInv, LinkTypes
<1>4. OneInUse'
  BY <1>1, <1>3 DEF LinkInv, LinkTypes, LinkClient, OneInUse, InState
<1>5. LeftAlone' /\ Heard'
  BY <1>1, <1>3 DEF LinkInv, LeftAlone, Heard
<1> QED
  BY <1>2, <1>4, <1>5 DEF LinkInv

\* A socket opens, and the hub may send older ones on their way out.
LEMMA OpeningKeepsLink == ASSUME LinkInv, NEW s \in Ids, SocketOpens(s) PROVE LinkInv'
<1>1. /\ sockets[s] = "connecting" /\ UNCHANGED <<mounted, hasty>>
      /\ client' = [client EXCEPT !.status = "connected", !.attempts = 0]
  BY DEF SocketOpens
<1>2. /\ client' \in LinkClient /\ client'.ws = client.ws /\ client'.timer = client.timer
      /\ client'.closedByClient = client.closedByClient
  BY <1>1 DEF LinkInv, LinkTypes, LinkClient
<1>3. /\ sockets' \in [Ids -> SocketState] /\ sockets'[s] = "open"
      /\ \A t \in Ids \ {s} : \/ sockets'[t] = sockets[t]
                              \/ sockets[t] = "open" /\ sockets'[t] = "evicted"
  <2> DEFINE all == Append(hub, s)
             excess == IF Len(all) > HubLimit THEN Len(all) - HubLimit ELSE 0
             left(t) == t \in {all[i] : i \in 1..excess}
  <2>1. sockets' = [t \in Ids |-> IF t = s THEN "open"
                                 ELSE IF sockets[t] = "open" /\ left(t) THEN "evicted"
                                 ELSE sockets[t]]
    BY DEF SocketOpens, Registered
  <2> HIDE DEF left
  <2> QED
    BY <2>1 DEF LinkInv, LinkTypes, SocketState
<1>4. OneInUse'
  BY <1>1, <1>2, <1>3 DEF LinkInv, LinkTypes, LinkClient, OneInUse, InState
<1>5. LeftAlone'
  BY <1>1, <1>2, <1>3 DEF LinkInv, LeftAlone
<1>6. LinkTypes' /\ Heard'
  BY <1>1, <1>2, <1>3 DEF LinkInv, LinkTypes, Heard
<1> QED
  BY <1>4, <1>5, <1>6 DEF LinkInv

\* A socket is gone: the client forgets whatever socket it has, and retries if no
\* page closed the link.
LEMMA ClosingKeepsLink == ASSUME LinkInv, NEW s \in Ids, SocketCloses(s) PROVE LinkInv'
<1> DEFINE d == [client EXCEPT !.ws = Nil, !.status = "disconnected"]
<1>1. /\ sockets[s] # "unused" /\ sockets' = [sockets EXCEPT ![s] = "unused"]
      /\ UNCHANGED <<mounted, hasty>>
  BY DEF SocketCloses
<1>2. /\ d \in LinkClient /\ d.ws = Nil /\ d.status = "disconnected"
      /\ d.closedByClient = client.closedByClient /\ d.timer = client.timer
  BY DEF LinkInv, LinkTypes, LinkClient
<1>3. client' = IF d.closedByClient THEN d ELSE ScheduleReconnect(d)
  BY DEF SocketCloses, OnClose
<1> HIDE DEF d
<1>4. /\ client' \in LinkClient /\ client'.ws = Nil /\ client'.status # "connected"
      /\ client'.closedByClient = client.closedByClient
      /\ client.closedByClient => client'.timer = client.timer
  <2>1. /\ ScheduleReconnect(d) \in LinkClient /\ ScheduleReconnect(d).ws = Nil
        /\ ScheduleReconnect(d).status \in {"disconnected", "error"}
        /\ ScheduleReconnect(d).closedByClient = d.closedByClient
    <3>1. CASE d.attempts >= MaxRetries
      BY <1>2, <3>1 DEF ScheduleReconnect, LinkClient
    <3>2. CASE ~(d.attempts >= MaxRetries) /\ d.timer
      BY <1>2, <3>2 DEF ScheduleReconnect
    <3>3. CASE ~(d.attempts >= MaxRetries) /\ ~d.timer
      <4>1. ScheduleReconnect(d) = [d EXCEPT !.timer = TRUE, !.attempts = @ + 1]
        BY <3>3 DEF ScheduleReconnect
      <4>2. d.attempts + 1 \in Nat
        BY <1>2 DEF LinkClient
      <4> QED
        BY <1>2, <4>1, <4>2 DEF LinkClient
    <3> QED
      BY <3>1, <3>2, <3>3
  <2> QED
    BY <1>2, <1>3, <2>1
<1>5. LinkTypes' /\ Heard'
  BY <1>1, <1>4 DEF LinkInv, LinkTypes, SocketState, Heard
<1>6. OneInUse'
  <2> SUFFICES ASSUME ~hasty PROVE OneInUse'
    BY <1>1 DEF OneInUse
  <2>1. \A t \in Ids : sockets'[t] = "unused"
    BY <1>1 DEF LinkInv, LinkTypes, OneInUse
  <2> QED
    BY <1>4, <2>1 DEF OneInUse, InState
<1>7. LeftAlone'
  BY <1>1, <1>4 DEF LinkInv, LinkTypes, LeftAlone
<1> QED
  BY <1>5, <1>6, <1>7 DEF LinkInv

\* Every step of the link and the map.
LEMMA StepKeepsLink == ASSUME LinkInv, [LSNext]_lsVars PROVE LinkInv'
<1>1. CASE UNCHANGED lsVars
  BY <1>1, SameLink DEF lsVars, linkVars
<1>2. CASE Move \/ ShiftChanges \/ Publish \/ ServeMapData \/ MapDataArrives
  BY <1>2, SameLink DEF Move, ShiftChanges, Publish, ServeMapData, MapDataArrives, linkVars
<1>3. ASSUME NEW s \in Ids, HearPosition(s) \/ ForgetDistrict(s) PROVE LinkInv'
  BY <1>3, SameLink DEF HearPosition, ForgetDistrict, linkVars
<1> QED
  BY <1>1, <1>2, <1>3, PageOpensLink, RetryKeepsLink, UnmountKeepsLink, OutageKeepsLink,
     OpeningKeepsLink, ClosingKeepsLink DEF LSNext

\* A set whose members are all one has at most one.
LEMMA AtMostOne ==
    ASSUME NEW S, \A x, y \in S : x = y PROVE Cardinality(S) <= 1
<1>1. CASE S = {}
  BY <1>1, FS_EmptySet
<1>2. CASE \E x \in S : S = {x}
  BY <1>2, FS_Singleton
<1> QED
  BY <1>1, <1>2

\* As long as no page opened the link before the previous socket had told of its
\* close (services/websocket.ts connect and disconnect), at most one socket is not
\* closing; and while the status is "connected" some socket is open or has just
\* been closed by the hub, although several sockets may share that status.
THEOREM PatientPagesShareOneSocket == LSSpec => []OneSocketIfPatient
<1>1. LSInit => LinkInv
  BY InitLink
<1>2. LinkInv /\ [LSNext]_lsVars => LinkInv'
  BY StepKeepsLink
<1>3. LinkInv => OneSocketIfPatient
  <2> SUFFICES ASSUME LinkInv PROVE OneSocketIfPatient
    OBVIOUS
  <2>1. ASSUME ~hasty PROVE Cardinality(InState({"connecting", "open", "evicted"})) <= 1
    <3>1. \A x, y \in InState({"connecting", "open", "evicted"}) : x = y
      BY <2>1 DEF InState, LinkInv, OneInUse
    <3> QED
      BY <3>1, AtMostOne
  <2>2. client.status = "connected" => InState({"open", "evicted"}) # {}
    BY DEF LinkInv, Heard, InState
  <2> QED
    BY <2>1, <2>2 DEF OneSocketIfPatient
<1> QED
  BY <1>1, <1>2, <1>3, PTL DEF LSSpec

-----------------------------------------------------------------------------
(* The drivers page: what is typed                                           *)

IsList(q) == \E S : q \in Seq(S)
Handlers == {"edit", "add", "delete", "place"}
RowShape(r) == DOMAIN r = {"state", "online", "car", "ver"} /\ r.ver \in [Fields -> Nat]

\* What a card shows of a field.
Card(r, f) == IF f = "car" THEN Shown(r[f]) ELSE r[f]

\* A card as its row once was, in table F of now: no field of it is of a later
\* version, and a field of the same version is what the row would be shown as.
OnceWas(F, row, d) ==
    /\ d \in Drivers /\ RowShape(row)
    /\ \A f \in Fields : /\ row.ver[f] <= F[d].ver[f]
                         /\ row.ver[f] = F[d].ver[f] => row[f] = Card(F[d], f)
CardsOnceWere(F, cards) == \A d \in DOMAIN cards : OnceWas(F, cards[d], d)

\* A form, in the fields that were not touched.
FormOnceWas(F, form, d) ==
    /\ d \in Drivers /\ DOMAIN form = {"online", "car", "ver", "touched"} /\ form.ver \in [Fields -> Nat]
    /\ \A f \in Fields \ form.touched : /\ form.ver[f] <= F[d].ver[f]
                                        /\ form.ver[f] = F[d].ver[f] => form[f] = Card(F[d], f)

FleetShape(F) == DOMAIN F = Drivers /\ \A d \in Drivers : RowShape(F[d])

\* A request for a list: who waits for it, and an answer that was so once.
RequestOk(F, r) ==
    /\ r.by \in Handlers \cup {None} /\ DOMAIN r = {"of", "by", "answer"}
    /\ r.answer # None => r.answer.of = r.of /\ CardsOnceWere(F, r.answer.cards)
ListsOk(F, q) == IsList(q) /\ \A i \in DOMAIN q : RequestOk(F, q[i])

\* A handler, and the form it saves.
WriteOk(F, w) ==
    /\ w.kind \in Handlers /\ DOMAIN w = {"kind", "who", "form", "asks", "stage"}
    /\ w.kind = "edit" => FormOnceWas(F, w.form, w.who)

\* Everything the page knows of the drivers was so once: its cards, the answers on
\* their way, the form under the dispatcher's hands and those being saved.
PageKnows ==
    /\ FleetShape(fleet) /\ ListsOk(fleet, lists) /\ CardsOnceWere(fleet, grid.cards)
    /\ panel.kind = "edit" => FormOnceWas(fleet, draft, panel.who)
    /\ \A w \in writes : WriteOk(fleet, w)

\* The last list under way is of what is chosen, or the one shown is.
GridFollows ==
    /\ crossed \in BOOLEAN
    /\ ~crossed => IF lists = <<>> THEN grid.of = wanted ELSE lists[Len(lists)].of = wanted

\* A request that may still set the driver on the map is of the dialog's driver.
PollsOfDialog ==
    /\ panel = [kind |-> panel.kind, who |-> panel.who] /\ \A p \in polls : DOMAIN p = {"of", "live"}
    /\ \A p \in polls : p.live => panel = [kind |-> "map", who |-> p.of]
    /\ detail # None /\ detail.via = "poll" => panel = [kind |-> "map", who |-> detail.of]

DriversInv == PageKnows /\ GridFollows /\ PollsOfDialog

\* Table G is table F after some changes: versions grow, and what changes has a new one.
Later(F, G) ==
    \A d \in Drivers : \A f \in Fields :
        /\ F[d].ver[f] \in Nat /\ G[d].ver[f] \in Nat /\ F[d].ver[f] <= G[d].ver[f]
        /\ G[d].ver[f] = F[d].ver[f] => G[d][f] = F[d][f]

-----------------------------------------------------------------------------
(* Lemmas                                                                    *)

\* A request joins the list of those under way.
LEMMA ListGrows ==
    ASSUME NEW q, IsList(q), NEW e
    PROVE  /\ IsList(Append(q, e)) /\ Append(q, e) # <<>> /\ Len(q) \in Nat
           /\ DOMAIN Append(q, e) = 1..(Len(q) + 1) /\ DOMAIN q = 1..Len(q)
           /\ Len(Append(q, e)) = Len(q) + 1
           /\ Append(q, e)[Len(q) + 1] = e /\ \A i \in 1..Len(q) : Append(q, e)[i] = q[i]
<1>1. PICK S : q \in Seq(S)
  BY DEF IsList
<1> DEFINE T == S \cup {e}
<1>2. q \in Seq(T) /\ e \in T
  BY <1>1, SeqMonotonic
<1> HIDE DEF T
<1>3. Append(q, e) \in Seq(T) /\ Len(q) \in Nat /\ Len(Append(q, e)) = Len(q) + 1
  BY SMTT(30), <1>2
<1> QED
  BY <1>2, <1>3 DEF IsList

\* One that is answered leaves it, the others close up.
LEMMA ListCloses ==
    ASSUME NEW q, IsList(q), NEW i \in DOMAIN q
    PROVE  /\ IsList(Without(q, i)) /\ Len(q) \in Nat /\ DOMAIN q = 1..Len(q) /\ i \in 1..Len(q)
           /\ Len(Without(q, i)) = Len(q) - 1 /\ DOMAIN Without(q, i) = 1..(Len(q) - 1)
           /\ \A j \in 1..(i - 1) : Without(q, i)[j] = q[j]
           /\ \A j \in i..(Len(q) - 1) : Without(q, i)[j] = q[j + 1]
           /\ q # <<>> /\ (Without(q, i) = <<>> <=> Len(q) = 1)
<1>1. PICK S : q \in Seq(S)
  BY DEF IsList
<1> DEFINE a == SubSeq(q, 1, i - 1)
           b == SubSeq(q, i + 1, Len(q))
<1>0. i \in 1..Len(q) /\ Len(q) \in Nat /\ DOMAIN q = 1..Len(q)
  BY <1>1
<1>2. a \in Seq(S) /\ Len(a) = i - 1 /\ \A j \in 1..(i - 1) : a[j] = q[j]
  BY <1>0, <1>1
<1>3. b \in Seq(S) /\ Len(b) = Len(q) - i /\ \A j \in 1..(Len(q) - i) : b[j] = q[i + j]
  BY <1>0, <1>1
<1> HIDE DEF a, b
<1>4. a \o b \in Seq(S) /\ Len(a \o b) = Len(q) - 1
  <2>1. a \o b \in Seq(S) /\ Len(a \o b) = Len(a) + Len(b)
    BY <1>2, <1>3, ConcatProperties
  <2> QED
    BY <1>0, <1>2, <1>3, <2>1
<1>5. \A j \in 1..(i - 1) : (a \o b)[j] = q[j]
  BY <1>0, <1>2, <1>3
<1>6. \A j \in i..(Len(q) - 1) : (a \o b)[j] = q[j + 1]
  <2> SUFFICES ASSUME NEW j \in i..(Len(q) - 1) PROVE (a \o b)[j] = q[j + 1]
    OBVIOUS
  <2>1. (a \o b)[j] = b[j - (i - 1)]
    BY <1>0, <1>2, <1>3
  <2>2. j - (i - 1) \in 1..(Len(q) - i) /\ i + (j - (i - 1)) = j + 1
    BY <1>0
  <2> QED
    BY <1>3, <2>1, <2>2
<1>7. DOMAIN (a \o b) = 1..(Len(q) - 1)
  <2>1. DOMAIN (a \o b) = 1..Len(a \o b)
    BY <1>4, LenProperties
  <2> QED
    BY <1>4, <2>1
<1>8. a \o b = <<>> <=> Len(q) = 1
  BY <1>0, <1>4
<1>9. q # <<>>
  BY <1>0
<1>10. Without(q, i) = a \o b
  BY DEF Without, a, b
<1> QED
  BY <1>0, <1>4, <1>5, <1>6, <1>7, <1>8, <1>9, <1>10 DEF IsList

\* One changes and keeps its place.
LEMMA ListChanges ==
    ASSUME NEW q, IsList(q), NEW i \in DOMAIN q, NEW e
    PROVE  /\ IsList([q EXCEPT ![i] = e]) /\ Len([q EXCEPT ![i] = e]) = Len(q) /\ Len(q) \in Nat
           /\ DOMAIN [q EXCEPT ![i] = e] = DOMAIN q /\ DOMAIN q = 1..Len(q) /\ q # <<>>
           /\ [q EXCEPT ![i] = e] # <<>>
           /\ \A j \in DOMAIN q : [q EXCEPT ![i] = e][j] = IF j = i THEN e ELSE q[j]
<1>1. PICK S : q \in Seq(S)
  BY DEF IsList
<1> DEFINE T == S \cup {e}
<1>2. q \in Seq(T) /\ e \in T
  BY <1>1, SeqMonotonic
<1> HIDE DEF T
<1>3. i \in 1..Len(q) /\ Len(q) \in Nat /\ DOMAIN q = 1..Len(q) /\ q # <<>>
  BY <1>2
<1>4. [q EXCEPT ![i] = e] \in Seq(T) /\ Len([q EXCEPT ![i] = e]) = Len(q)
  BY <1>2, <1>3, ExceptSeq
<1>5. DOMAIN [q EXCEPT ![i] = e] = DOMAIN q /\ [q EXCEPT ![i] = e] # <<>>
  BY <1>3, <1>4
<1> QED
  BY <1>3, <1>4, <1>5 DEF IsList

\* What was so once is so still when the table changes.
LEMMA OnceWasStays ==
    ASSUME NEW F, NEW G, Later(F, G), NEW row, NEW d, OnceWas(F, row, d) PROVE OnceWas(G, row, d)
<1> SUFFICES ASSUME NEW f \in Fields
             PROVE  row.ver[f] <= G[d].ver[f] /\ (row.ver[f] = G[d].ver[f] => row[f] = Card(G[d], f))
  BY DEF OnceWas
<1>1. row.ver[f] \in Nat /\ row.ver[f] <= F[d].ver[f] /\ (row.ver[f] = F[d].ver[f] => row[f] = Card(F[d], f))
  BY DEF OnceWas, RowShape
<1>2. /\ F[d].ver[f] \in Nat /\ G[d].ver[f] \in Nat /\ F[d].ver[f] <= G[d].ver[f]
      /\ G[d].ver[f] = F[d].ver[f] => G[d][f] = F[d][f]
  BY DEF Later, OnceWas
<1> QED
  BY <1>1, <1>2 DEF Card

LEMMA FormOnceWasStays ==
    ASSUME NEW F, NEW G, Later(F, G), NEW form, NEW d, FormOnceWas(F, form, d) PROVE FormOnceWas(G, form, d)
<1> SUFFICES ASSUME NEW f \in Fields \ form.touched
             PROVE  form.ver[f] <= G[d].ver[f] /\ (form.ver[f] = G[d].ver[f] => form[f] = Card(G[d], f))
  BY DEF FormOnceWas
<1>1. form.ver[f] \in Nat /\ form.ver[f] <= F[d].ver[f] /\ (form.ver[f] = F[d].ver[f] => form[f] = Card(F[d], f))
  BY DEF FormOnceWas
<1>2. /\ F[d].ver[f] \in Nat /\ G[d].ver[f] \in Nat /\ F[d].ver[f] <= G[d].ver[f]
      /\ G[d].ver[f] = F[d].ver[f] => G[d][f] = F[d][f]
  BY DEF Later, FormOnceWas
<1> QED
  BY <1>1, <1>2 DEF Card

\* A form filled from a row.
LEMMA FormOfRow ==
    ASSUME NEW F, NEW row, NEW d, OnceWas(F, row, d) PROVE FormOnceWas(F, FormOf(row), d)
<1>1. /\ DOMAIN FormOf(row) = {"online", "car", "ver", "touched"} /\ FormOf(row).ver = row.ver
      /\ FormOf(row)["online"] = row["online"] /\ FormOf(row)["car"] = row["car"]
  BY DEF FormOf
<1> QED
  BY <1>1 DEF FormOnceWas, OnceWas, RowShape, Fields

\* A field is written and gets a new version.
LEMMA ChangedIsLater ==
    ASSUME FleetShape(fleet), NEW d, NEW f \in Fields, NEW v
    PROVE  FleetShape(Changed(d, f, v)) /\ Later(fleet, Changed(d, f, v))
<1> DEFINE G == Changed(d, f, v)
<1>1. CASE d \notin Drivers
  <2>1. DOMAIN G = Drivers /\ \A e \in Drivers : G[e] = fleet[e]
    BY <1>1 DEF Changed, FleetShape
  <2> QED
    BY <2>1 DEF FleetShape, Later, RowShape
<1>2. CASE d \in Drivers
  <2>1. DOMAIN G = Drivers /\ \A e \in Drivers \ {d} : G[e] = fleet[e]
    BY <1>2 DEF Changed, FleetShape
  <2>2. RowShape(fleet[d])
    BY <1>2 DEF FleetShape
  <2>3. f = "online" \/ f = "car"
    BY DEF Fields
  <2>4. /\ DOMAIN G[d] = {"state", "online", "car", "ver"}
        /\ G[d].ver = [fleet[d].ver EXCEPT ![f] = @ + 1]
        /\ \A g \in Fields \ {f} : G[d][g] = fleet[d][g]
    BY <1>2, <2>2, <2>3 DEF Changed, FleetShape, RowShape, Fields
  <2> HIDE DEF G
  <2>5. RowShape(G[d])
    BY <2>2, <2>4 DEF RowShape
  <2>6. ASSUME NEW g \in Fields
        PROVE  /\ fleet[d].ver[g] \in Nat /\ G[d].ver[g] \in Nat /\ fleet[d].ver[g] <= G[d].ver[g]
               /\ G[d].ver[g] = fleet[d].ver[g] => G[d][g] = fleet[d][g]
    BY <2>2, <2>4 DEF RowShape
  <2>7. ASSUME NEW e \in Drivers \ {d}, NEW g \in Fields
        PROVE  /\ fleet[e].ver[g] \in Nat /\ G[e].ver[g] \in Nat /\ fleet[e].ver[g] <= G[e].ver[g]
               /\ G[e].ver[g] = fleet[e].ver[g] => G[e][g] = fleet[e][g]
    <3>1. fleet[e].ver[g] \in Nat
      BY <2>7 DEF FleetShape, RowShape
    <3> QED
      BY <2>1, <3>1
  <2>8. Later(fleet, G)
    BY <2>6, <2>7, Zenon DEF Later
  <2>9. FleetShape(G)
    BY <2>1, <2>5 DEF FleetShape
  <2> QED
    BY <2>8, <2>9 DEF G
<1> QED
  BY <1>1, <1>2

\* Whether a driver is there is no field of the form.
LEMMA StateIsLater ==
    ASSUME NEW F, FleetShape(F), NEW d, NEW s
    PROVE  FleetShape([F EXCEPT ![d].state = s]) /\ Later(F, [F EXCEPT ![d].state = s])
<1> DEFINE G == [F EXCEPT ![d].state = s]
<1>1. DOMAIN G = Drivers
  BY DEF FleetShape
<1>2. ASSUME NEW e \in Drivers
      PROVE  RowShape(G[e]) /\ G[e].ver = F[e].ver /\ \A g \in Fields : G[e][g] = F[e][g]
  BY <1>2 DEF FleetShape, RowShape, Fields
<1> HIDE DEF G
<1>3. ASSUME NEW e \in Drivers, NEW g \in Fields
      PROVE  /\ F[e].ver[g] \in Nat /\ G[e].ver[g] \in Nat /\ F[e].ver[g] <= G[e].ver[g]
             /\ G[e].ver[g] = F[e].ver[g] => G[e][g] = F[e][g]
  <2>1. F[e].ver[g] \in Nat
    BY <1>3 DEF FleetShape, RowShape
  <2> QED
    BY <1>2, <2>1
<1>4. Later(F, G)
  BY <1>3, Zenon DEF Later
<1>5. FleetShape(G)
  BY <1>1, <1>2 DEF FleetShape
<1> QED
  BY <1>4, <1>5 DEF G

LEMMA LaterTwice ==
    ASSUME NEW F, NEW G, NEW H, Later(F, G), Later(G, H) PROVE Later(F, H)
<1> SUFFICES ASSUME NEW d \in Drivers, NEW f \in Fields
             PROVE  /\ F[d].ver[f] \in Nat /\ H[d].ver[f] \in Nat /\ F[d].ver[f] <= H[d].ver[f]
                    /\ H[d].ver[f] = F[d].ver[f] => H[d][f] = F[d][f]
  BY DEF Later
<1>1. /\ F[d].ver[f] \in Nat /\ G[d].ver[f] \in Nat /\ F[d].ver[f] <= G[d].ver[f]
      /\ G[d].ver[f] = F[d].ver[f] => G[d][f] = F[d][f]
  BY DEF Later
<1>2. /\ H[d].ver[f] \in Nat /\ G[d].ver[f] <= H[d].ver[f]
      /\ H[d].ver[f] = G[d].ver[f] => H[d][f] = G[d][f]
  BY DEF Later
<1> QED
  BY <1>1, <1>2

LEMMA CardsOnceWereStay ==
    ASSUME NEW F, NEW G, Later(F, G), NEW cards, CardsOnceWere(F, cards) PROVE CardsOnceWere(G, cards)
BY OnceWasStays, Zenon DEF CardsOnceWere

LEMMA SameIsLater == ASSUME NEW F, FleetShape(F) PROVE Later(F, F)
BY DEF FleetShape, RowShape, Later

LEMMA RequestsStayOk ==
    ASSUME NEW F, NEW G, Later(F, G), NEW q, ListsOk(F, q) PROVE ListsOk(G, q)
<1>1. ASSUME NEW r, RequestOk(F, r) PROVE RequestOk(G, r)
  <2>1. r.answer # None => r.answer.of = r.of /\ CardsOnceWere(G, r.answer.cards)
    BY <1>1, CardsOnceWereStay DEF RequestOk
  <2> QED
    BY <1>1, <2>1 DEF RequestOk
<1> QED
  BY <1>1 DEF ListsOk

LEMMA WritesStayOk ==
    ASSUME NEW F, NEW G, Later(F, G), NEW w, WriteOk(F, w) PROVE WriteOk(G, w)
BY FormOnceWasStays, Zenon DEF WriteOk

\* A list is asked for.
LEMMA AskGrows ==
    ASSUME NEW F, NEW q, ListsOk(F, q), NEW c, NEW by \in Handlers \cup {None}
    PROVE  /\ ListsOk(F, Append(q, Ask(c, by))) /\ Append(q, Ask(c, by)) # <<>>
           /\ Append(q, Ask(c, by))[Len(Append(q, Ask(c, by)))].of = c
<1> DEFINE r == Ask(c, by)
<1>1. RequestOk(F, r) /\ r.of = c
  BY DEF Ask, RequestOk
<1> HIDE DEF r
<1>2. /\ IsList(Append(q, r)) /\ Append(q, r) # <<>> /\ Len(q) \in Nat
      /\ DOMAIN Append(q, r) = 1..(Len(q) + 1) /\ DOMAIN q = 1..Len(q)
      /\ Len(Append(q, r)) = Len(q) + 1
      /\ Append(q, r)[Len(q) + 1] = r /\ \A i \in 1..Len(q) : Append(q, r)[i] = q[i]
  BY ListGrows DEF ListsOk
<1>3. ASSUME NEW i \in DOMAIN Append(q, r) PROVE RequestOk(F, Append(q, r)[i])
  <2>1. i = Len(q) + 1 \/ i \in 1..Len(q)
    BY <1>2
  <2> QED
    BY <1>1, <1>2, <2>1 DEF ListsOk
<1>4. ListsOk(F, Append(q, r))
  BY <1>2, <1>3 DEF ListsOk
<1> QED
  BY <1>1, <1>2, <1>4 DEF r

\* A list arrives; if it was the oldest under way, the last one stays the last.
LEMMA AnswerLeaves ==
    ASSUME NEW F, NEW q, ListsOk(F, q), NEW i \in DOMAIN q
    PROVE  /\ ListsOk(F, Without(q, i)) /\ RequestOk(F, q[i]) /\ q # <<>>
           /\ Len(q) = 1 => Without(q, i) = <<>>
           /\ ~(i > 1) /\ Without(q, i) = <<>> => q[Len(q)] = q[i]
           /\ ~(i > 1) /\ Without(q, i) # <<>> => Without(q, i)[Len(Without(q, i))] = q[Len(q)]
<1> DEFINE p == Without(q, i)
<1>1. /\ IsList(p) /\ Len(q) \in Nat /\ DOMAIN q = 1..Len(q) /\ i \in 1..Len(q)
      /\ Len(p) = Len(q) - 1 /\ DOMAIN p = 1..(Len(q) - 1)
      /\ \A j \in 1..(i - 1) : p[j] = q[j]
      /\ \A j \in i..(Len(q) - 1) : p[j] = q[j + 1]
      /\ q # <<>> /\ (p = <<>> <=> Len(q) = 1)
  BY ListCloses DEF ListsOk
<1> HIDE DEF p
<1>2. ASSUME NEW j \in DOMAIN p PROVE RequestOk(F, p[j])
  <2>1. \/ j \in 1..(i - 1) /\ j \in DOMAIN q
        \/ j \in i..(Len(q) - 1) /\ j + 1 \in DOMAIN q
    BY <1>1
  <2> QED
    BY <1>1, <2>1 DEF ListsOk
<1>3. ListsOk(F, p) /\ RequestOk(F, q[i])
  BY <1>1, <1>2 DEF ListsOk
<1>4. ~(i > 1) /\ p = <<>> => q[Len(q)] = q[i]
  BY <1>1
<1>5. ~(i > 1) /\ p # <<>> => p[Len(p)] = q[Len(q)]
  <2> SUFFICES ASSUME ~(i > 1), p # <<>> PROVE p[Len(p)] = q[Len(q)]
    OBVIOUS
  <2>1. Len(q) - 1 \in i..(Len(q) - 1) /\ (Len(q) - 1) + 1 = Len(q)
    BY <1>1
  <2> QED
    BY <1>1, <2>1
<1> QED
  BY <1>1, <1>3, <1>4, <1>5 DEF p

\* The server answers, the request keeps its place.
LEMMA AnswerJoins ==
    ASSUME NEW F, NEW q, ListsOk(F, q), NEW i \in DOMAIN q, NEW a, a.of = q[i].of, CardsOnceWere(F, a.cards)
    PROVE  /\ ListsOk(F, [q EXCEPT ![i].answer = a]) /\ q # <<>> /\ [q EXCEPT ![i].answer = a] # <<>>
           /\ [q EXCEPT ![i].answer = a][Len([q EXCEPT ![i].answer = a])].of = q[Len(q)].of
<1> DEFINE r == [q[i] EXCEPT !.answer = a]
           p == [q EXCEPT ![i] = r]
<1>1. RequestOk(F, q[i])
  BY DEF ListsOk
<1>2. r.of = q[i].of /\ r.by = q[i].by /\ r.answer = a /\ DOMAIN r = {"of", "by", "answer"}
  BY <1>1 DEF RequestOk
<1>3. [q EXCEPT ![i].answer = a] = p
  OBVIOUS
<1> HIDE DEF r
<1>4. RequestOk(F, r)
  BY <1>1, <1>2 DEF RequestOk
<1>5. /\ IsList(p) /\ Len(p) = Len(q) /\ Len(q) \in Nat
      /\ DOMAIN p = DOMAIN q /\ DOMAIN q = 1..Len(q) /\ q # <<>> /\ p # <<>>
      /\ \A j \in DOMAIN q : p[j] = IF j = i THEN r ELSE q[j]
  BY ListChanges DEF ListsOk
<1> HIDE DEF p
<1>6. ListsOk(F, p)
  BY <1>4, <1>5 DEF ListsOk
<1>7. p[Len(p)].of = q[Len(q)].of
  BY <1>2, <1>5
<1> QED
  BY <1>3, <1>5, <1>6, <1>7

\* A handler's next stage keeps its form.
LEMMA StepKeepsWrites ==
    ASSUME NEW F, \A x \in writes : WriteOk(F, x), NEW w \in writes, NEW stage
    PROVE  \A x \in Step(w, stage) : WriteOk(F, x)
<1>1. WriteOk(F, w)
  OBVIOUS
<1> DEFINE v == [w EXCEPT !.stage = stage]
<1>2. v.kind = w.kind /\ v.form = w.form /\ v.who = w.who /\ DOMAIN v = {"kind", "who", "form", "asks", "stage"}
  BY <1>1 DEF WriteOk
<1> HIDE DEF v
<1>3. WriteOk(F, v)
  BY <1>1, <1>2 DEF WriteOk
<1> QED
  BY <1>3 DEF Step, v

-----------------------------------------------------------------------------
(* What the page knows                                                       *)

\* The first list is under way, nothing is shown.
LEMMA InitDrivers == FSInit => DriversInv
<1> SUFFICES ASSUME FSInit PROVE DriversInv
  OBVIOUS
<1>1. FleetShape(fleet)
  BY DEF FSInit, FleetShape, RowShape, NoVersion, Fields
<1>2. /\ lists = <<Ask(wanted, None)>> /\ grid.of = None /\ DOMAIN grid.cards = {} /\ panel = NoPanel
      /\ writes = {} /\ polls = {} /\ detail = None /\ crossed = FALSE
  BY DEF FSInit
<1> DEFINE r == Ask(wanted, None)
<1>3. RequestOk(fleet, r) /\ r.of = wanted
  BY DEF RequestOk, Ask
<1> HIDE DEF r
<1>4. lists = <<r>>
  BY <1>2 DEF r
<1>5. lists \in Seq({r}) /\ Len(lists) = 1 /\ lists[1] = r /\ DOMAIN lists = {1} /\ lists # <<>>
  BY <1>4
<1>6. ListsOk(fleet, lists)
  BY <1>3, <1>5 DEF ListsOk, IsList
<1>7. panel.kind = None /\ panel = [kind |-> panel.kind, who |-> panel.who] /\ None # "edit"
  BY <1>2, DriversScreenAssumption DEF NoPanel
<1> QED
  BY <1>1, <1>2, <1>3, <1>5, <1>6, <1>7 DEF DriversInv, PageKnows, GridFollows, PollsOfDialog, CardsOnceWere

\* The drivers table changes; the page does not.
LEMMA TableChanges ==
    ASSUME DriversInv, FleetShape(fleet'), Later(fleet, fleet'), \A w \in writes' : WriteOk(fleet, w),
           UNCHANGED <<wanted, lists, grid, draft, crossed, panel, detail, polls>>
    PROVE  DriversInv'
<1>1. ListsOk(fleet', lists)
  BY RequestsStayOk DEF DriversInv, PageKnows
<1>2. CardsOnceWere(fleet', grid.cards)
  BY CardsOnceWereStay DEF DriversInv, PageKnows
<1>3. panel.kind = "edit" => FormOnceWas(fleet', draft, panel.who)
  BY FormOnceWasStays DEF DriversInv, PageKnows
<1>4. \A w \in writes' : WriteOk(fleet', w)
  BY WritesStayOk
<1>5. PageKnows'
  <2>1. /\ lists' = lists /\ grid' = grid /\ panel' = panel /\ draft' = draft
    OBVIOUS
  <2> QED
    BY <1>1, <1>2, <1>3, <1>4, <2>1 DEF PageKnows
<1>6. GridFollows' /\ PollsOfDialog'
  BY DEF DriversInv, GridFollows, PollsOfDialog
<1> QED
  BY <1>5, <1>6 DEF DriversInv

\* Handlers go on or end; the rest stays.
LEMMA HandlersGoOn ==
    ASSUME DriversInv, \A w \in writes' : WriteOk(fleet, w),
           UNCHANGED <<fleet, wanted, lists, grid, draft, crossed, panel, detail, polls>>
    PROVE  DriversInv'
<1>1. FleetShape(fleet) /\ Later(fleet, fleet)
  BY SameIsLater DEF DriversInv, PageKnows
<1>2. FleetShape(fleet') /\ Later(fleet, fleet')
  BY <1>1
<1> QED
  BY <1>2, TableChanges

\* The server executes a request of a handler.
LEMMA ServeKeepsDrivers == ASSUME DriversInv, Serve PROVE DriversInv'
<1>1. UNCHANGED <<wanted, lists, grid, draft, crossed, panel, detail, polls>>
  BY DEF Serve, boardVars, mapVars
<1>2. FleetShape(fleet) /\ Later(fleet, fleet) /\ \A x \in writes : WriteOk(fleet, x)
  BY SameIsLater DEF DriversInv, PageKnows
<1>3. \A d, v : \A f \in Fields : FleetShape(Changed(d, f, v)) /\ Later(fleet, Changed(d, f, v))
  BY <1>2, ChangedIsLater
<1>4. "car" \in Fields /\ "online" \in Fields
  BY DEF Fields
<1>5. FleetShape(fleet') /\ Later(fleet, fleet') /\ \E w \in writes : \E stage : writes' = Step(w, stage)
  <2>1. CASE ServeFields
    BY <1>2, <1>3, <1>4, <2>1 DEF ServeFields
  <2>2. CASE ServeOnline
    BY <1>2, <1>3, <1>4, <2>2 DEF ServeOnline
  <2>3. CASE ServeCreate
    <3>1. PICK w \in writes : fleet' = [fleet EXCEPT ![w.who].state = "active"] /\ writes' = Step(w, "find")
      BY <2>3 DEF ServeCreate
    <3>2. FleetShape(fleet') /\ Later(fleet, fleet')
      BY <1>2, <3>1, StateIsLater
    <3> QED
      BY <3>1, <3>2
  <2>4. CASE ServeFind
    BY <1>2, <2>4 DEF ServeFind
  <2>5. CASE ServeDelete
    <3>1. PICK w \in writes :
            /\ fleet' = [Changed(w.who, "online", FALSE) EXCEPT ![w.who].state = "archived"]
            /\ writes' = Step(w, "served")
      BY <2>5 DEF ServeDelete
    <3> DEFINE G == Changed(w.who, "online", FALSE)
    <3>2. FleetShape(G) /\ Later(fleet, G)
      BY <1>3, <1>4
    <3>3. fleet' = [G EXCEPT ![w.who].state = "archived"]
      BY <3>1
    <3> HIDE DEF G
    <3>4. FleetShape(fleet') /\ Later(G, fleet')
      BY <3>2, <3>3, StateIsLater
    <3> QED
      BY <3>1, <3>2, <3>4, LaterTwice
  <2>6. CASE ServePlace
    BY <1>2, <2>6 DEF ServePlace
  <2> QED
    BY <2>1, <2>2, <2>3, <2>4, <2>5, <2>6 DEF Serve
<1>6. \A w \in writes' : WriteOk(fleet, w)
  BY <1>2, <1>5, StepKeepsWrites
<1> QED
  BY <1>1, <1>5, <1>6, TableChanges

\* Drivers and other dispatchers change the table.
LEMMA ElsewhereKeepsDrivers == ASSUME DriversInv, Elsewhere PROVE DriversInv'
<1>1. UNCHANGED <<wanted, lists, grid, draft, crossed, panel, detail, polls, writes>>
  BY DEF Elsewhere, boardVars, mapVars
<1>2. FleetShape(fleet) /\ \A x \in writes' : WriteOk(fleet, x)
  BY <1>1 DEF DriversInv, PageKnows
<1>3. PICK d \in Drivers : fleet' \in {Changed(d, "online", ~fleet[d].online),
                                  Changed(d, "car", Shown(fleet[d].car) + 1)}
  BY DEF Elsewhere
<1>4. "car" \in Fields /\ "online" \in Fields
  BY DEF Fields
<1>5. FleetShape(fleet') /\ Later(fleet, fleet')
  BY <1>2, <1>3, <1>4, ChangedIsLater
<1> QED
  BY <1>1, <1>2, <1>5, TableChanges

-----------------------------------------------------------------------------
(* The list and the dialogs                                                  *)

\* The filter or the page is another one, and its list is asked for last.
LEMMA QueryKeepsDrivers == ASSUME DriversInv, SetFilter \/ TurnPage PROVE DriversInv'
<1>1. ListsOk(fleet, lists)
  BY DEF DriversInv, PageKnows
<1>2. ListsOk(fleet, lists') /\ lists' # <<>> /\ lists'[Len(lists')].of = wanted'
  <2>1. CASE SetFilter
    <3>1. PICK f \in {"all", "online"} \ {wanted.filter} :
            LET first == [wanted EXCEPT !.filter = f] IN
            /\ wanted' = [first EXCEPT !.page = 1]
            /\ lists' = Append(lists, Ask(first, None))
                          \o IF first = wanted' THEN <<>> ELSE <<Ask(wanted', None)>>
      BY <2>1 DEF SetFilter
    <3> DEFINE first == [wanted EXCEPT !.filter = f]
               one == Append(lists, Ask(first, None))
    <3>2. ListsOk(fleet, one) /\ one # <<>> /\ one[Len(one)].of = first
      BY <1>1, AskGrows
    <3>3. PICK S : one \in Seq(S)
      BY <3>2 DEF ListsOk, IsList
    <3>4. lists' = one \o IF first = wanted' THEN <<>> ELSE <<Ask(wanted', None)>>
      BY <3>1
    <3> HIDE DEF one, first
    <3>5. CASE first = wanted'
      <4>1. lists' = one
        BY <3>3, <3>4, <3>5, ConcatEmptySeq
      <4> QED
        BY <3>2, <3>5, <4>1
    <3>6. CASE first # wanted'
      <4> DEFINE r == Ask(wanted', None)
                 T == S \cup {r}
      <4>1. one \in Seq(T) /\ r \in T
        BY <3>3, SeqMonotonic
      <4>2. lists' = one \o <<r>>
        BY <3>4, <3>6
      <4> HIDE DEF T
      <4>3. lists' = Append(one, r)
        BY <4>1, <4>2, AppendIsConcat
      <4> QED
        BY <3>2, <4>3, AskGrows
    <3> QED
      BY <3>5, <3>6
  <2>2. CASE TurnPage
    <3>1. lists' = Append(lists, Ask(wanted', None))
      BY <2>2 DEF TurnPage
    <3> QED
      BY <1>1, <3>1, AskGrows
  <2> QED
    BY <2>1, <2>2
<1>3. UNCHANGED <<fleet, grid, draft, crossed, panel, writes, detail, polls>>
  BY DEF SetFilter, TurnPage, mapVars
<1>4. PageKnows' /\ PollsOfDialog'
  BY <1>2, <1>3 DEF DriversInv, PageKnows, PollsOfDialog
<1>5. GridFollows'
  BY <1>2, <1>3 DEF DriversInv, GridFollows
<1> QED
  BY <1>4, <1>5 DEF DriversInv

\* A list is of the table of now.
LEMMA ListingOnceWas ==
    ASSUME FleetShape(fleet), NEW q
    PROVE  Listing(q).of = q /\ CardsOnceWere(fleet, Listing(q).cards)
<1>1. /\ Listing(q).of = q
      /\ Listing(q).cards = [d \in OnPage(q) |-> [fleet[d] EXCEPT !.car = Shown(@)]]
  BY DEF Listing
<1>2. OnPage(q) \subseteq Drivers
  BY DEF OnPage, Matching
<1>3. ASSUME NEW d \in OnPage(q) PROVE OnceWas(fleet, [fleet[d] EXCEPT !.car = Shown(@)], d)
  <2>1. d \in Drivers /\ RowShape(fleet[d])
    BY <1>2 DEF FleetShape
  <2> DEFINE c == [fleet[d] EXCEPT !.car = Shown(@)]
  <2>2. /\ DOMAIN c = {"state", "online", "car", "ver"} /\ c.ver = fleet[d].ver
        /\ \A f \in Fields : c[f] = Card(fleet[d], f)
    BY <2>1 DEF RowShape, Fields, Card
  <2> HIDE DEF c
  <2>3. RowShape(c) /\ \A f \in Fields : c.ver[f] <= fleet[d].ver[f]
    BY <2>1, <2>2 DEF RowShape
  <2>4. OnceWas(fleet, c, d)
    BY <2>1, <2>2, <2>3 DEF OnceWas
  <2> QED
    BY <2>4 DEF c
<1> QED
  BY <1>1, <1>3 DEF CardsOnceWere

LEMMA ServeListKeepsDrivers == ASSUME DriversInv, ServeList PROVE DriversInv'
<1>1. PICK i \in DOMAIN lists : lists' = [lists EXCEPT ![i].answer = Listing(lists[i].of)]
  BY DEF ServeList
<1>2. ListsOk(fleet, lists) /\ FleetShape(fleet)
  BY DEF DriversInv, PageKnows
<1>3. UNCHANGED <<fleet, wanted, grid, draft, crossed, panel, writes, detail, polls>>
  BY DEF ServeList, mapVars
<1> DEFINE a == Listing(lists[i].of)
<1>4. a.of = lists[i].of /\ CardsOnceWere(fleet, a.cards)
  BY <1>2, ListingOnceWas
<1>5. lists' = [lists EXCEPT ![i].answer = a]
  BY <1>1
<1> HIDE DEF a
<1>6. /\ ListsOk(fleet, lists') /\ lists # <<>> /\ lists' # <<>>
      /\ lists'[Len(lists')].of = lists[Len(lists)].of
  <2>1. /\ ListsOk(fleet, [lists EXCEPT ![i].answer = a]) /\ lists # <<>>
        /\ [lists EXCEPT ![i].answer = a] # <<>>
        /\ [lists EXCEPT ![i].answer = a][Len([lists EXCEPT ![i].answer = a])].of = lists[Len(lists)].of
    BY <1>2, <1>4, AnswerJoins
  <2> QED
    BY <1>5, <2>1
<1>7. PageKnows' /\ PollsOfDialog'
  BY <1>3, <1>6 DEF DriversInv, PageKnows, PollsOfDialog
<1>8. GridFollows'
  BY <1>3, <1>6 DEF DriversInv, GridFollows
<1> QED
  BY <1>7, <1>8 DEF DriversInv

\* A list arrives or fails: the form is filled again, or a handler's dialog closed.
LEMMA ArrivedKeepsDrivers ==
    ASSUME DriversInv, NEW i \in DOMAIN lists, NEW found, Arrived(i, found),
           found.of = lists[i].of, CardsOnceWere(fleet, found.cards)
    PROVE  DriversInv'
<1>1. /\ grid' = found /\ lists' = Without(lists, i) /\ Continue(lists[i].by, found.cards)
      /\ crossed' = ((crossed \/ i > 1) /\ ~(Len(lists) = 1 /\ lists[i].of = wanted))
      /\ UNCHANGED <<fleet, wanted, detail, polls>>
  BY DEF Arrived, mapVars
<1>2. /\ ListsOk(fleet, lists) /\ FleetShape(fleet) /\ \A w \in writes : WriteOk(fleet, w)
      /\ panel.kind = "edit" => FormOnceWas(fleet, draft, panel.who)
  BY DEF DriversInv, PageKnows
<1>3. /\ ListsOk(fleet, lists') /\ RequestOk(fleet, lists[i]) /\ lists # <<>>
      /\ Len(lists) = 1 => lists' = <<>>
      /\ ~(i > 1) /\ lists' = <<>> => lists[Len(lists)] = lists[i]
      /\ ~(i > 1) /\ lists' # <<>> => lists'[Len(lists')] = lists[Len(lists)]
  BY <1>1, <1>2, AnswerLeaves
<1>4. GridFollows'
  <2>1. crossed \in BOOLEAN /\ (~crossed => lists[Len(lists)].of = wanted)
    BY <1>3 DEF DriversInv, GridFollows
  <2>2. crossed' \in BOOLEAN
    BY <1>1, <2>1
  <2>3. ASSUME ~crossed'
        PROVE  IF lists' = <<>> THEN grid'.of = wanted' ELSE lists'[Len(lists')].of = wanted'
    <3>1. \/ ~crossed /\ ~(i > 1)
          \/ Len(lists) = 1 /\ lists[i].of = wanted
      BY <1>1, <2>3, Zenon
    <3>2. CASE ~crossed /\ ~(i > 1)
      BY <1>1, <1>3, <2>1, <3>2
    <3>3. CASE Len(lists) = 1 /\ lists[i].of = wanted
      BY <1>1, <1>3, <3>3
    <3> QED
      BY <3>1, <3>2, <3>3
  <2> QED
    BY <2>2, <2>3 DEF GridFollows
<1>5. /\ panel' = panel \/ (panel' = NoPanel /\ panel.kind # "map")
      /\ panel' = panel /\ panel.kind = "edit" => FormOnceWas(fleet, draft', panel.who)
      /\ \A w \in writes' : WriteOk(fleet, w)
  <2>1. /\ draft' = (IF panel.kind = "edit" /\ panel.who \in DOMAIN found.cards
                     THEN FormOf(found.cards[panel.who]) ELSE draft)
        => (panel.kind = "edit" => FormOnceWas(fleet, draft', panel.who))
    BY <1>2, FormOfRow DEF CardsOnceWere
  <2>2. CASE lists[i].by = None
    BY <1>1, <1>2, <2>1, <2>2 DEF Continue, Refill
  <2>3. CASE lists[i].by # None
    <3> DEFINE mine == {w \in writes : w.kind = lists[i].by /\ w.stage = "refresh"}
    <3>1. CASE lists[i].by = "place"
      <4>1. /\ writes' = (writes \ mine) \cup {[w EXCEPT !.stage = "again"] : w \in mine}
            /\ panel' = panel
            /\ draft' = (IF panel.kind = "edit" /\ panel.who \in DOMAIN found.cards
                         THEN FormOf(found.cards[panel.who]) ELSE draft)
        BY <1>1, <2>3, <3>1 DEF Continue, Refill
      <4>2. ASSUME NEW w \in mine PROVE WriteOk(fleet, [w EXCEPT !.stage = "again"])
        <5>1. w \in writes /\ [w EXCEPT !.stage = "again"] \in Step(w, "again")
          BY <4>2 DEF Step
        <5> QED
          BY <1>2, <5>1, StepKeepsWrites
      <4>3. \A w \in writes' : WriteOk(fleet, w)
        BY <1>2, <4>1, <4>2
      <4> QED
        BY <2>1, <4>1, <4>3
    <3>2. CASE lists[i].by # "place"
      <4>1. /\ writes' \subseteq writes
            /\ panel' = IF panel.kind = lists[i].by THEN NoPanel ELSE panel
            /\ IF lists[i].by = "edit" THEN draft' = EmptyDraft
               ELSE draft' = (IF panel.kind = "edit" /\ panel.who \in DOMAIN found.cards
                              THEN FormOf(found.cards[panel.who]) ELSE draft)
        BY <1>1, <2>3, <3>2 DEF Continue, Refill
      <4>2. lists[i].by # "map"
        BY <1>3, <2>3 DEF RequestOk, Handlers
      <4>3. panel' = panel \/ (panel' = NoPanel /\ panel.kind # "map")
        BY <4>1, <4>2
      <4>4. panel' = panel /\ panel.kind = "edit" => FormOnceWas(fleet, draft', panel.who)
        <5>1. CASE lists[i].by = "edit" /\ panel.kind = "edit"
          <6>1. panel' = NoPanel /\ NoPanel.kind # "edit"
            BY <4>1, <5>1, DriversScreenAssumption DEF NoPanel
          <6> QED
            BY <5>1, <6>1
        <5>2. CASE lists[i].by # "edit"
          BY <2>1, <4>1, <5>2
        <5> QED
          BY <5>1, <5>2
      <4> QED
        BY <1>2, <4>1, <4>3, <4>4
    <3> QED
      BY <3>1, <3>2
  <2> QED
    BY <2>2, <2>3
<1>6. NoPanel.kind # "edit" /\ NoPanel.kind # "map" /\ NoPanel = [kind |-> NoPanel.kind, who |-> NoPanel.who]
  BY DriversScreenAssumption DEF NoPanel
<1>7. PageKnows'
  BY <1>1, <1>2, <1>3, <1>5, <1>6 DEF PageKnows
<1>8. PollsOfDialog'
  <2>1. CASE panel' = panel
    BY <1>1, <2>1 DEF DriversInv, PollsOfDialog
  <2>2. CASE panel' = NoPanel /\ panel.kind # "map"
    BY <1>1, <1>6, <2>2 DEF DriversInv, PollsOfDialog
  <2> QED
    BY <1>5, <2>1, <2>2
<1> QED
  BY <1>4, <1>7, <1>8 DEF DriversInv

LEMMA ListKeepsDrivers == ASSUME DriversInv, ListArrives \/ ListFails PROVE DriversInv'
<1>1. CASE ListArrives
  <2>1. PICK i \in DOMAIN lists : lists[i].answer # None /\ Arrived(i, lists[i].answer)
    BY <1>1 DEF ListArrives
  <2>2. lists[i].answer.of = lists[i].of /\ CardsOnceWere(fleet, lists[i].answer.cards)
    BY <2>1 DEF DriversInv, PageKnows, ListsOk, RequestOk
  <2> QED
    BY <2>1, <2>2, ArrivedKeepsDrivers
<1>2. CASE ListFails
  <2>1. PICK i \in DOMAIN lists : Arrived(i, [of |-> lists[i].of, total |-> 0, cards |-> [d \in {} |-> None]])
    BY <1>2 DEF ListFails
  <2> DEFINE a == [of |-> lists[i].of, total |-> 0, cards |-> [d \in {} |-> None]]
  <2>2. a.of = lists[i].of /\ CardsOnceWere(fleet, a.cards)
    BY DEF CardsOnceWere
  <2>3. Arrived(i, a)
    BY <2>1
  <2> HIDE DEF a
  <2> QED
    BY <2>2, <2>3, ArrivedKeepsDrivers
<1> QED
  BY <1>1, <1>2

\* What the buttons of the page do to the dialogs.
LEMMA PanelsKeepDrivers ==
    ASSUME DriversInv,
           OpenPanel \/ OpenCall \/ OpenAdd \/ ShowOnMap \/ ClosePanel \/ CloseMap \/ CloseRides
    PROVE  DriversInv'
<1>1. /\ FleetShape(fleet) /\ ListsOk(fleet, lists) /\ CardsOnceWere(fleet, grid.cards)
      /\ panel.kind = "edit" => FormOnceWas(fleet, draft, panel.who)
      /\ \A w \in writes : WriteOk(fleet, w)
      /\ panel = [kind |-> panel.kind, who |-> panel.who]
      /\ \A p \in polls : DOMAIN p = {"of", "live"}
  BY DEF DriversInv, PageKnows, PollsOfDialog
<1>2. /\ panel.kind # "map" => (\A p \in polls : ~p.live) /\ ~(detail # None /\ detail.via = "poll")
      /\ NoPanel.kind # "map" /\ NoPanel.kind # "edit"
      /\ NoPanel = [kind |-> NoPanel.kind, who |-> NoPanel.who]
  BY DriversScreenAssumption DEF DriversInv, PollsOfDialog, NoPanel
<1>3. UNCHANGED <<fleet, wanted, lists, grid, crossed, writes>>
  BY DEF OpenPanel, OpenCall, OpenAdd, ShowOnMap, ClosePanel, CloseMap, CloseRides, boardVars
<1>4. /\ panel' = [kind |-> panel'.kind, who |-> panel'.who]
      /\ panel'.kind = "edit" => FormOnceWas(fleet, draft', panel'.who)
      /\ \A p \in polls' : DOMAIN p = {"of", "live"}
      /\ \A p \in polls' : p.live => panel' = [kind |-> "map", who |-> p.of]
      /\ detail' = detail \/ detail' = None
      /\ panel.kind = "map" => detail' = None
  <2>1. CASE OpenPanel
    <3>1. PICK kind \in {"view", "edit", "delete", "map", "orders"}, d \in DOMAIN grid.cards :
            /\ panel' = [kind |-> kind, who |-> d]
            /\ draft' = IF kind = "edit" THEN FormOf(grid.cards[d]) ELSE draft
            /\ polls' = IF kind = "map" THEN polls \cup {[of |-> d, live |-> TRUE]} ELSE polls
      BY <2>1 DEF OpenPanel
    <3>2. panel = NoPanel /\ detail' = detail
      BY <2>1 DEF OpenPanel
    <3>3. kind = "edit" => FormOnceWas(fleet, draft', d)
      BY <1>1, <3>1, FormOfRow DEF CardsOnceWere
    <3>4. panel'.kind = kind /\ panel'.who = d
      BY <3>1
    <3>5. \A p \in polls : ~p.live
      BY <1>2, <3>2
    <3>6. CASE kind = "map"
      <4> DEFINE n == [of |-> d, live |-> TRUE]
      <4>1. DOMAIN n = {"of", "live"} /\ n.of = d
        OBVIOUS
      <4>2. polls' = polls \cup {n}
        BY <3>1, <3>6
      <4> HIDE DEF n
      <4> QED
        BY <1>1, <1>2, <3>1, <3>2, <3>4, <3>5, <3>6, <4>1, <4>2
    <3>7. CASE kind # "map"
      BY <1>1, <1>2, <3>1, <3>2, <3>3, <3>4, <3>5, <3>7
    <3> QED
      BY <3>6, <3>7
  <2>2. CASE OpenCall \/ OpenAdd
    BY <1>1, <1>2, <2>2 DEF OpenCall, OpenAdd, boardVars, mapVars
  <2>3. CASE ShowOnMap
    <3> DEFINE n == [of |-> panel.who, live |-> TRUE]
    <3>1. DOMAIN n = {"of", "live"} /\ n.of = panel.who
      OBVIOUS
    <3>2. polls' = polls \cup {n} /\ panel' = [panel EXCEPT !.kind = "map"] /\ panel.kind = "view" /\ detail' = detail
      BY <2>3 DEF ShowOnMap
    <3> HIDE DEF n
    <3>3. panel' = [kind |-> "map", who |-> panel.who]
      BY <1>1, <3>2
    <3> QED
      BY <1>1, <1>2, <3>1, <3>2, <3>3
  <2>4. CASE ClosePanel
    BY <1>1, <1>2, <2>4 DEF ClosePanel, mapVars
  <2>5. CASE CloseMap
    <3>1. panel' = NoPanel /\ detail' = None /\ polls' = Hush(polls)
      BY <2>5 DEF CloseMap
    <3>2. \A p \in Hush(polls) : DOMAIN p = {"of", "live"} /\ ~p.live
      BY <1>1 DEF Hush
    <3> QED
      BY <1>2, <3>1, <3>2
  <2>6. CASE CloseRides
    BY <1>1, <1>2, <2>6 DEF CloseRides, mapVars, boardVars
  <2> QED
    BY <2>1, <2>2, <2>3, <2>4, <2>5, <2>6
<1>5. PageKnows'
  BY <1>1, <1>3, <1>4 DEF PageKnows
<1>6. GridFollows'
  BY <1>3 DEF DriversInv, GridFollows
<1>7. ~(detail' # None /\ detail'.via = "poll")
  BY <1>2, <1>4
<1>8. PollsOfDialog'
  BY <1>4, <1>7 DEF PollsOfDialog
<1> QED
  BY <1>5, <1>6, <1>8 DEF DriversInv

\* The form under the dispatcher's hands, and the handlers it is given to.
LEMMA FormKeepsDrivers ==
    ASSUME DriversInv, EditDraft \/ Drag \/ SubmitEdit \/ SubmitAdd \/ SubmitDelete \/ SubmitPlace
                       \/ Answered \/ Refuse
    PROVE  DriversInv'
<1>1. /\ ListsOk(fleet, lists) /\ \A w \in writes : WriteOk(fleet, w)
      /\ panel.kind = "edit" => FormOnceWas(fleet, draft, panel.who)
  BY DEF DriversInv, PageKnows
<1>2. CASE EditDraft
  <2>1. UNCHANGED <<fleet, wanted, lists, grid, crossed, panel, writes, detail, polls>> /\ panel.kind = "edit"
    BY <1>2 DEF EditDraft, mapVars
  <2>2. FormOnceWas(fleet, draft', panel.who)
    <3>1. draft' \in {[draft EXCEPT !.online = ~@, !.touched = @ \cup {"online"}],
                      [draft EXCEPT !.car = @ + 1, !.touched = @ \cup {"car"}]}
      BY <1>2 DEF EditDraft
    <3>2. FormOnceWas(fleet, draft, panel.who) /\ DOMAIN draft = {"online", "car", "ver", "touched"}
      BY <1>1, <2>1 DEF FormOnceWas
    <3>3. /\ draft'.ver = draft.ver /\ draft.touched \subseteq draft'.touched
          /\ DOMAIN draft' = {"online", "car", "ver", "touched"}
          /\ \A f \in Fields \ draft'.touched : draft'[f] = draft[f]
      BY <3>1, <3>2 DEF Fields
    <3> QED
      BY <3>2, <3>3 DEF FormOnceWas
  <2>3. PageKnows'
    BY <2>1, <2>2 DEF DriversInv, PageKnows
  <2> QED
    BY <2>1, <2>3 DEF DriversInv, GridFollows, PollsOfDialog
<1>3. CASE Drag
  BY <1>1, <1>3, HandlersGoOn DEF Drag, boardVars
<1>4. ASSUME NEW kind \in Handlers, kind = "edit" => panel.kind = "edit", Submit(kind) PROVE DriversInv'
  <2> DEFINE n == [kind |-> kind, who |-> panel.who, form |-> draft, asks |-> wanted, stage |-> "sent"]
  <2>1. n.kind = kind /\ n.who = panel.who /\ n.form = draft /\ DOMAIN n = {"kind", "who", "form", "asks", "stage"}
    OBVIOUS
  <2>2. writes' = writes \cup {n} /\ UNCHANGED <<fleet, wanted, lists, grid, draft, crossed, panel, detail, polls>>
    BY <1>4 DEF Submit, boardVars, mapVars
  <2> HIDE DEF n
  <2>3. WriteOk(fleet, n)
    BY <1>1, <1>4, <2>1 DEF WriteOk
  <2> QED
    BY <1>1, <2>2, <2>3, HandlersGoOn
<1>5. CASE SubmitEdit \/ SubmitAdd \/ SubmitDelete \/ SubmitPlace
  BY <1>4, <1>5 DEF SubmitEdit, SubmitAdd, SubmitDelete, SubmitPlace, Handlers
<1>6. CASE Answered
  <2>1. PICK w \in writes :
          /\ writes' = Step(w, "refresh") /\ lists' = Append(lists, Ask(w.asks, w.kind))
          /\ crossed' = (crossed \/ w.asks # wanted)
    BY <1>6 DEF Answered
  <2>2. UNCHANGED <<fleet, wanted, grid, draft, panel, detail, polls>>
    BY <1>6 DEF Answered, mapVars
  <2>3. w.kind \in Handlers \cup {None}
    BY <1>1 DEF WriteOk
  <2>4. ListsOk(fleet, lists') /\ lists' # <<>> /\ lists'[Len(lists')].of = w.asks
    BY <1>1, <2>1, <2>3, AskGrows
  <2>5. \A x \in writes' : WriteOk(fleet, x)
    BY <1>1, <2>1, StepKeepsWrites
  <2>6. PageKnows' /\ PollsOfDialog'
    BY <2>2, <2>4, <2>5 DEF DriversInv, PageKnows, PollsOfDialog
  <2>7. crossed' \in BOOLEAN /\ (~crossed' => w.asks = wanted)
    BY <2>1 DEF DriversInv, GridFollows
  <2>8. GridFollows'
    BY <2>2, <2>4, <2>7 DEF GridFollows
  <2> QED
    BY <2>6, <2>8 DEF DriversInv
<1>7. CASE Refuse
  BY <1>1, <1>7, HandlersGoOn DEF Refuse, boardVars, mapVars
<1> QED
  BY <1>2, <1>3, <1>5, <1>6, <1>7

\* What comes into the map dialog by its polling is its own driver; a saved
\* position brings what it likes, but not by polling.
LEMMA MapKeepsDrivers ==
    ASSUME DriversInv, PlaceShown \/ PollDriver \/ PollAnswered \/ PollFails \/ RidesArrive
    PROVE  DriversInv'
<1>1. /\ \A p \in polls : DOMAIN p = {"of", "live"} /\ (p.live => panel = [kind |-> "map", who |-> p.of])
      /\ panel = [kind |-> panel.kind, who |-> panel.who]
      /\ detail # None /\ detail.via = "poll" => panel = [kind |-> "map", who |-> detail.of]
  BY DEF DriversInv, PollsOfDialog
<1>2. UNCHANGED <<fleet, wanted, lists, grid, draft, crossed, panel>>
  BY DEF PlaceShown, PollDriver, PollAnswered, PollFails, RidesArrive, boardVars
<1>3. writes' \subseteq writes
  BY DEF PlaceShown, PollDriver, PollAnswered, PollFails, RidesArrive
<1>4. PageKnows' /\ GridFollows'
  BY <1>2, <1>3 DEF DriversInv, PageKnows, GridFollows
<1>5. /\ \A p \in polls' : DOMAIN p = {"of", "live"} /\ (p.live => panel = [kind |-> "map", who |-> p.of])
      /\ detail' # None /\ detail'.via = "poll" => panel = [kind |-> "map", who |-> detail'.of]
  <2>1. CASE PlaceShown
    BY <1>1, <2>1 DEF PlaceShown
  <2>2. CASE PollDriver
    <3> DEFINE n == [of |-> panel.who, live |-> TRUE]
    <3>1. DOMAIN n = {"of", "live"} /\ n.of = panel.who
      OBVIOUS
    <3>2. polls' = polls \cup {n} /\ panel.kind = "map" /\ detail' = detail
      BY <2>2 DEF PollDriver
    <3> HIDE DEF n
    <3> QED
      BY <1>1, <3>1, <3>2
  <2>3. CASE PollAnswered
    <3>1. PICK p \in polls : polls' = polls \ {p} /\ detail' = IF p.live THEN GetDriver(p.of) ELSE detail
      BY <2>3 DEF PollAnswered
    <3>2. GetDriver(p.of) = None \/ GetDriver(p.of).of = p.of
      BY DEF GetDriver
    <3> QED
      BY <1>1, <3>1, <3>2
  <2>4. CASE PollFails
    BY <1>1, <2>4 DEF PollFails
  <2>5. CASE RidesArrive
    BY <1>1, <2>5 DEF RidesArrive, mapVars
  <2> QED
    BY <2>1, <2>2, <2>3, <2>4, <2>5
<1>6. PollsOfDialog'
  BY <1>1, <1>2, <1>5 DEF PollsOfDialog
<1> QED
  BY <1>4, <1>6 DEF DriversInv

-----------------------------------------------------------------------------
(* The theorems of the drivers page                                          *)

\* Whatever the dispatcher, the drivers, the server and the other dispatchers do.
LEMMA NextDrivers == DriversInv /\ [FSNext]_fsVars => DriversInv'
<1> SUFFICES ASSUME DriversInv, [FSNext]_fsVars PROVE DriversInv'
  OBVIOUS
<1>1. CASE UNCHANGED fsVars
  <2>1. \A w \in writes' : WriteOk(fleet, w)
    BY <1>1 DEF fsVars, DriversInv, PageKnows
  <2> QED
    BY <1>1, <2>1, HandlersGoOn DEF fsVars, boardVars, mapVars
<1> QED
  BY <1>1, ServeKeepsDrivers, ElsewhereKeepsDrivers, QueryKeepsDrivers, ServeListKeepsDrivers,
     ListKeepsDrivers, PanelsKeepDrivers, FormKeepsDrivers, MapKeepsDrivers DEF FSNext

LEMMA DriversInvariant == FSSpec => []DriversInv
BY InitDrivers, NextDrivers, PTL DEF FSSpec

\* SettledGridIsWanted for any number of drivers, pages and lists under way.
THEOREM GridIsOfTheChoice == FSSpec => []SettledGridIsWanted
<1>1. DriversInv => SettledGridIsWanted
  BY DEF DriversInv, GridFollows, SettledGridIsWanted
<1> QED
  BY <1>1, DriversInvariant, PTL

\* PolledDetailIsOfDialog for any number of polls under way, of any dialogs.
THEOREM PolledIsOfTheDialog == FSSpec => []PolledDetailIsOfDialog
<1>1. DriversInv => PolledDetailIsOfDialog
  BY DEF DriversInv, PollsOfDialog, PolledDetailIsOfDialog
<1> QED
  BY <1>1, DriversInvariant, PTL

\* OverwritesOnlyUnseen for any drivers, handlers and changes: a field that was not
\* touched and whose version is still the one the form was filled from has the
\* form's value already, so that saving the form does not change it.
THEOREM UntouchedIsKept == FSSpec => OverwritesOnlyUnseen
<1> DEFINE A == \A w \in writes : \A f \in Fields \ w.form.touched :
                  w.stage \in {"sent", "fields"} /\ w.kind = "edit" /\ fleet'[w.who] # fleet[w.who]
                    /\ fleet'[w.who][f] # fleet[w.who][f] /\ fleet'[w.who][f] = w.form[f]
                    /\ others' = others
                  => \/ fleet[w.who].ver[f] # w.form.ver[f]
                     \/ f = "car" /\ fleet[w.who].car = None /\ fleet'[w.who].car = Dash
<1>1. DriversInv => A
  <2> SUFFICES ASSUME DriversInv,
                      NEW w \in writes, NEW f \in Fields \ w.form.touched, w.kind = "edit",
                      fleet'[w.who][f] # fleet[w.who][f], fleet'[w.who][f] = w.form[f],
                      fleet[w.who].ver[f] = w.form.ver[f]
               PROVE  f = "car" /\ fleet[w.who].car = None /\ fleet'[w.who].car = Dash
    OBVIOUS
  <2>1. w.form[f] = Card(fleet[w.who], f)
    BY DEF DriversInv, PageKnows, WriteOk, FormOnceWas
  <2> QED
    BY <2>1 DEF Card, Shown
<1>2. OverwritesOnlyUnseen <=> [][A]_fsVars
  BY DEF OverwritesOnlyUnseen
<1> HIDE DEF A
<1> QED
  BY <1>1, <1>2, DriversInvariant, PTL

=============================================================================
