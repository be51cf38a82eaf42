---------------------------- MODULE MCOrdersPage ----------------------------
(* The orders page, one part of it per behaviour: the list with its edit,  *)
(* assign and import dialogs; the passenger and the creation of orders in  *)
(* the create dialog; or the points of the route there.                    *)
EXTENDS OrdersScreen, OrderForm, RoutePoints, TLC

VARIABLE part

MCInit ==
    /\ part \in {"list", "passenger", "points"}
    /\ OSInit /\ OFInit /\ RPInit
    /\ part # "passenger" => clients = Persons

MCNext ==
    \/ part = "list" /\ OSNext /\ UNCHANGED <<part, ofVars, rpVars>>
    \/ part = "passenger" /\ OFNext /\ UNCHANGED <<part, osVars, rpVars>>
    \/ part = "points" /\ RPNext /\ UNCHANGED <<part, osVars, ofVars>>

MCSpec == MCInit /\ [][MCNext]_<<osVars, ofVars, rpVars, part>>

Alike == Permutations(Persons) \cup Permutations(Places)
=============================================================================
