------------------------------ MODULE LiveSocket ------------------------------
(***************************************************************************)
(* The console's live link: the shared client (services/websocket.ts), the *)
(* pages that open and close it, the hub's limit of connections per user   *)
(* (backend/app/realtime/hub.py), and the live map (components/Map.tsx)    *)
(* that shows what comes over it.                                          *)
(*                                                                         *)
(* A page that goes away closes the socket, a page that appears opens one; *)
(* the dispatch page does both at once when its date changes.  The close   *)
(* is acknowledged later, and the handler then clears this.ws and retries  *)
(* whatever socket it belongs to.                                          *)
(*                                                                         *)
(* The worker publishes the positions of a district only while Redis names *)
(* it as active.  The hub looks whether any connection is left and then    *)
(* removes the name, in two calls.  Here one dispatcher watches the one    *)
(* district of one driver.                                                 *)
(***************************************************************************)
EXTENDS Naturals, Sequences, FiniteSets

CONSTANTS
    NumSockets,  \* sockets that exist at a time
    MaxRetries,  \* reconnect attempts before giving up (10)
    HubLimit,    \* connections of a user the hub keeps (3)
    MaxSwitches, \* bound: pages opened, closed, dates changed, outages, shifts
    MaxMoves,    \* bound: positions a driver reports
    Nil, Asked

ASSUME LiveSocketAssumption ==
    /\ NumSockets \in Nat \ {0} /\ MaxRetries \in Nat \ {0} /\ HubLimit \in Nat \ {0}
    /\ MaxSwitches \in Nat /\ MaxMoves \in Nat /\ {Nil, Asked} \cap Nat = {} /\ Nil # Asked

VARIABLES
    sockets,  \* state of each socket, see SocketState
    hub,      \* the hub's connections of this user, oldest first
    client,   \* the fields of DispatchMapWebSocket
    mounted,  \* a page that uses the link is shown
    up,       \* the server accepts connections
    switches, \* up to MaxSwitches
    hasty,    \* connect was called while a closed socket had not told it
    district, \* DISTRICT_CONNECTIONS: the connections that listen to the district
    active,   \* the district is in ACTIVE_DISTRICTS
    emptied,  \* connections whose removal found no other, and has yet to remove the name
    overtaken,\* the last connection was added before such a removal was done
    online,   \* the driver is on line and his position stored (for 120 s)
    moved,    \* number of the driver's last position, up to MaxMoves
    wire,     \* the position on its way over each socket, or Nil
    shown,    \* number of the position on the map, Nil without a marker
    load      \* the map data request: Nil, Asked, or the position it read

linkVars == <<sockets, hub, client, mounted, up, switches, hasty>>
namedVars == <<district, active, emptied, overtaken>>
liveVars == <<online, moved, wire, shown, load>>
lsVars == <<linkVars, namedVars, liveVars>>

Ids == 1..NumSockets
\* closing: closed by the page;  evicted: closed by the hub; both have yet to
\* call onclose.
SocketState == {"unused", "connecting", "open", "closing", "evicted"}
Client == [ws: Ids \cup {Nil}, status: {"connected", "connecting", "disconnected", "error"},
           attempts: 0..MaxRetries, timer: BOOLEAN, closedByClient: BOOLEAN]

Unused == {s \in Ids : sockets[s] = "unused"}
InState(S) == {s \in Ids : sockets[s] \in S}
Switch == switches < MaxSwitches /\ switches' = switches + 1

-----------------------------------------------------------------------------
(* services/websocket.ts                                                     *)

\* get connected.
Connected(c, sock) == c.ws # Nil /\ sock[c.ws] = "open"

\* connect, after whatever was done to the sockets in the same step.  Every
\* dispatcher on these pages is signed in, so there is a token.
Connect(c, sock) ==
    IF Connected(c, sock) THEN client' = c /\ sockets' = sock /\ UNCHANGED hasty
    ELSE \E s \in {t \in Ids : sock[t] = "unused"} :
           /\ \A t \in Ids : sock[t] = "unused" => s <= t
           /\ client' = [c EXCEPT !.ws = s, !.status = "connecting", !.closedByClient = FALSE]
           /\ sockets' = [sock EXCEPT ![s] = "connecting"]
           /\ hasty' = (hasty \/ \E t \in Ids : sock[t] \in {"closing", "evicted"})

\* disconnect: the timer is stopped and the socket closed.
Closed(sock) ==
    IF client.ws = Nil \/ sock[client.ws] = "evicted" THEN sock
    ELSE [sock EXCEPT ![client.ws] = "closing"]
Disconnected == [client EXCEPT !.ws = Nil, !.timer = FALSE, !.status = "disconnected",
                               !.closedByClient = TRUE]

\* scheduleReconnect.
ScheduleReconnect(c) ==
    IF c.attempts >= MaxRetries THEN [c EXCEPT !.status = "error"]
    ELSE IF c.timer THEN c
    ELSE [c EXCEPT !.timer = TRUE, !.attempts = @ + 1]

\* Mutant: the handler does not retry.
OnCloseResigned(c) == [c EXCEPT !.ws = Nil, !.status = "disconnected"]

\* The onclose handler of any socket.
OnClose(c) ==
    LET d == [c EXCEPT !.ws = Nil, !.status = "disconnected"]
    IN  IF d.closedByClient THEN d ELSE ScheduleReconnect(d)

-----------------------------------------------------------------------------
LSInit ==
    /\ sockets = [s \in Ids |-> "unused"] /\ hub = <<>>
    /\ client = [ws |-> Nil, status |-> "disconnected", attempts |-> 0, timer |-> FALSE,
                 closedByClient |-> FALSE]
    /\ mounted = FALSE /\ up = TRUE /\ switches = 0 /\ hasty = FALSE
    /\ district = {} /\ active = FALSE /\ emptied = {} /\ overtaken = FALSE
    /\ online = TRUE /\ moved = 0 /\ wire = [s \in Ids |-> Nil]
    /\ shown = Nil /\ load = Nil

\* The live map appears: it asks for its data and opens the link.
Mount ==
    /\ Switch /\ ~mounted /\ mounted' = TRUE
    /\ Connect(client, sockets)
    /\ load' = Asked /\ shown' = Nil
    /\ UNCHANGED <<hub, up, namedVars, online, moved, wire>>

\* Mutant: the page goes away and leaves the socket to the next one.
UnmountOpen ==
    /\ Switch /\ mounted /\ mounted' = FALSE
    /\ client' = [client EXCEPT !.ws = Nil]
    /\ load' = Nil
    /\ UNCHANGED <<sockets, hub, up, hasty, namedVars, online, moved, wire, shown>>

Unmount ==
    /\ Switch /\ mounted /\ mounted' = FALSE
    /\ client' = Disconnected /\ sockets' = Closed(sockets)
    /\ load' = Nil
    /\ UNCHANGED <<hub, up, hasty, namedVars, online, moved, wire, shown>>

\* The dispatch page's effect runs again for a new date: close and open.
Reopen ==
    /\ Switch /\ mounted
    /\ Connect(Disconnected, Closed(sockets))
    /\ UNCHANGED <<hub, mounted, up, namedVars, liveVars>>

\* The server stops: connections are lost and refused until it is back.
Outage ==
    /\ Switch /\ up' = ~up
    /\ sockets' = IF up THEN [s \in Ids |-> IF sockets[s] = "open" THEN "evicted"
                                            ELSE sockets[s]] ELSE sockets
    /\ hub' = IF up THEN <<>> ELSE hub
    /\ wire' = IF up THEN [s \in Ids |-> Nil] ELSE wire
    /\ UNCHANGED <<client, mounted, hasty, namedVars, online, moved, shown, load>>

\* RealtimeHub.register: the oldest connections above the limit are closed, their
\* entries removed and the new one's made.
Registered(s) ==
    LET all == Append(hub, s)
        excess == IF Len(all) > HubLimit THEN Len(all) - HubLimit ELSE 0
        oldest == {all[i] : i \in 1..excess}
    IN  /\ hub' = SubSeq(all, excess + 1, Len(all))
        /\ sockets' = [t \in Ids |->
             IF t = s THEN "open"
             ELSE IF sockets[t] = "open" /\ t \in oldest THEN "evicted"
             ELSE sockets[t]]
        /\ district' = (district \ oldest) \cup {s} /\ active' = TRUE
        /\ overtaken' = (emptied # {})

\* onopen.
SocketOpens(s) ==
    /\ up /\ sockets[s] = "connecting"
    /\ Registered(s)
    /\ client' = [client EXCEPT !.status = "connected", !.attempts = 0]
    /\ UNCHANGED <<mounted, up, switches, hasty, emptied, liveVars>>

\* onclose: of a refused connection (after onerror) or a closed one, which the hub
\* then unregisters; its entry is removed, and what is left counted.  What the hub
\* sent before it closed is delivered before.
SocketCloses(s) ==
    /\ \/ sockets[s] = "closing"
       \/ sockets[s] = "evicted" /\ wire[s] = Nil
       \/ sockets[s] = "connecting" /\ ~up
    /\ sockets' = [sockets EXCEPT ![s] = "unused"]
    /\ hub' = SelectSeq(hub, LAMBDA t : t # s)
    /\ district' = district \ {s}
    /\ emptied' = IF sockets[s] # "connecting" /\ district' = {} THEN emptied \cup {s} ELSE emptied
    /\ wire' = [wire EXCEPT ![s] = Nil]
    /\ client' = OnClose(client)
    /\ UNCHANGED <<mounted, up, switches, hasty, active, overtaken, online, moved, shown, load>>

\* The rest of _remove_redis: the name goes, whoever came in between.
ForgetDistrict(s) ==
    /\ s \in emptied
    /\ emptied' = emptied \ {s} /\ active' = FALSE
    /\ UNCHANGED <<linkVars, district, overtaken, liveVars>>

RetryTimer ==
    /\ client.timer
    /\ Connect([client EXCEPT !.timer = FALSE], sockets)
    /\ UNCHANGED <<hub, mounted, up, switches, namedVars, liveVars>>

-----------------------------------------------------------------------------
(* components/Map.tsx                                                        *)

\* The driver's phone stores a position.
Move ==
    /\ online /\ moved < MaxMoves /\ moved' = moved + 1
    /\ UNCHANGED <<linkVars, namedVars, online, wire, shown, load>>

\* The driver goes off line, which deletes the stored position (or none was stored
\* for 120 s), or comes back and stores it again.
ShiftChanges ==
    /\ Switch /\ online' = ~online
    /\ UNCHANGED <<sockets, hub, client, mounted, up, hasty, namedVars, moved, wire, shown, load>>

\* Every three seconds the worker publishes the stored positions of the drivers on
\* line in the active districts, new or not, and the hub sends them over every open
\* socket; the last one has arrived by then.
Publish ==
    /\ active /\ online
    /\ InState({"open"}) # {} /\ \A s \in Ids : wire[s] = Nil
    /\ wire' = [s \in Ids |-> IF sockets[s] = "open" THEN moved ELSE Nil]
    /\ UNCHANGED <<linkVars, namedVars, online, moved, shown, load>>

\* Mutant: a marker that is there stays where it is.
HearOnce(s) ==
    /\ sockets[s] \in {"open", "evicted"} /\ wire[s] # Nil
    /\ wire' = [wire EXCEPT ![s] = Nil]
    /\ shown' = IF mounted /\ shown = Nil THEN wire[s] ELSE shown
    /\ UNCHANGED <<linkVars, namedVars, online, moved, load>>

\* driver_location_update moves the marker, or makes one.
HearPosition(s) ==
    /\ sockets[s] \in {"open", "evicted"} /\ wire[s] # Nil
    /\ wire' = [wire EXCEPT ![s] = Nil]
    /\ shown' = IF mounted THEN wire[s] ELSE shown
    /\ UNCHANGED <<linkVars, namedVars, online, moved, load>>

\* getMapData reads the stored position, or else the driver's home, where he began.
ServeMapData ==
    /\ load = Asked /\ load' = IF online THEN moved ELSE 0
    /\ UNCHANGED <<linkVars, namedVars, online, moved, wire, shown>>

\* The answer replaces what the map shows, also what came over the link since
\* it was read; a failed request leaves it.
MapDataArrives ==
    /\ load \notin {Nil, Asked} /\ load' = Nil
    /\ shown' \in {load, shown}
    /\ UNCHANGED <<linkVars, namedVars, online, moved, wire>>

-----------------------------------------------------------------------------
LSNext ==
    \/ Mount \/ Unmount \/ Reopen \/ Outage \/ RetryTimer
    \/ \E s \in Ids : SocketOpens(s) \/ SocketCloses(s) \/ ForgetDistrict(s) \/ HearPosition(s)
    \/ Move \/ ShiftChanges \/ Publish \/ ServeMapData \/ MapDataArrives

\* The browser delivers socket events and runs the retry timer, the worker runs
\* on schedule and requests are answered.
LSFair ==
    /\ WF_lsVars(RetryTimer) /\ WF_lsVars(Publish)
    /\ WF_lsVars(ServeMapData \/ MapDataArrives)
    /\ \A s \in Ids : WF_lsVars(SocketOpens(s)) /\ WF_lsVars(SocketCloses(s))
                                         /\ WF_lsVars(HearPosition(s))

LSSpec == LSInit /\ [][LSNext]_lsVars /\ LSFair

-----------------------------------------------------------------------------
(* Properties                                                                *)

\* The client, the sockets and the map stay within what the code produces; the
\* attempts never exceed the limit.
LiveSocketTypeOK ==
    /\ sockets \in [Ids -> SocketState] /\ hub \in Seq(Ids) /\ Len(hub) <= HubLimit
    /\ client \in Client /\ mounted \in BOOLEAN /\ up \in BOOLEAN /\ hasty \in BOOLEAN
    /\ district \subseteq Ids /\ active \in BOOLEAN /\ emptied \subseteq Ids /\ overtaken \in BOOLEAN
    /\ online \in BOOLEAN /\ moved \in 0..MaxMoves /\ shown \in 0..MaxMoves \cup {Nil}
    /\ load \in 0..MaxMoves \cup {Nil, Asked} /\ wire \in [Ids -> 0..MaxMoves \cup {Nil}]

\* As long as no page opened the link before the previous socket had told of
\* its close, there is at most one socket that is not closing.  And always, while
\* the status is "connected", the state in which the dispatch page stops polling
\* for orders, some socket is open or has just been closed unheard, although
\* several sockets share one status.
OneSocketIfPatient ==
    /\ ~hasty => Cardinality(InState({"connecting", "open", "evicted"})) <= 1
    /\ client.status = "connected" => InState({"open", "evicted"}) # {}

\* A page that is shown while the server is up gets connected, unless the client
\* has used up its attempts.
PageConnects ==
    (mounted /\ up) ~> (client.status = "connected" \/ ~mounted \/ ~up
                        \/ client.attempts >= MaxRetries)

\* A map that stays open and connected comes to show the last position of a driver
\* who stays on line for good, although positions sent while the link was down are
\* lost, the map data, read before a position that is shown already, replaces it,
\* and the district's name comes and goes with its connections: unless the name's
\* removal, for a connection closed before, was still to be done when this one was
\* added, which leaves a connected map that hears nothing.
MapSettles ==
    <>[](mounted /\ client.status = "connected" /\ online) => <>[](shown = moved) \/ <>[]overtaken

=============================================================================
