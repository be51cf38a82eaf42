------------------------------ MODULE MCConsole ------------------------------
(* The rest of the console, one part of it per behaviour: the sign-in and  *)
(* the sessions of its tabs, the reports over the orders of a period, the  *)
(* reports of a day, or the passengers.                                    *)
EXTENDS AuthSessions, ReportScreens, ClientsScreen

VARIABLE part

MCInit ==
    /\ part \in {"sessions", "orders", "days", "clients"}
    /\ ASInit /\ RSInit /\ CSInit

(* The panels of a page on one side, its workload and distribution on the    *)
(* other have only what is chosen in common (and `late', which excuses both):*)
(* a behaviour answers the requests of one side, those of the other wait or  *)
(* fail.                                                                     *)
OrdersAnswered == picks' # picks \/ UNCHANGED <<plans, days>>
DaysAnswered ==
    /\ \A r \in RequestIds : requests'[r].state # "done"
    /\ picks' # picks \/ UNCHANGED cache

MCNext ==
    \/ part = "sessions" /\ ASNext /\ UNCHANGED <<part, rsVars, csVars>>
    \/ part = "orders" /\ RSNext /\ OrdersAnswered /\ UNCHANGED <<part, asVars, csVars>>
    \/ part = "days" /\ RSNext /\ DaysAnswered /\ UNCHANGED <<part, asVars, csVars>>
    \/ part = "clients" /\ CSNext /\ UNCHANGED <<part, asVars, rsVars>>

MCSpec == MCInit /\ [][MCNext]_<<part, asVars, rsVars, csVars>>
=============================================================================
