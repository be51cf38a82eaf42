--------------------------- MODULE MCDispatchScreen ---------------------------
(* The dispatch page, one part of it per behaviour: the whole page of a day,    *)
(* the day's plan and orders alone for one event more, the waybill on the map,  *)
(* or the route in an order's view dialog.                                      *)
EXTENDS DispatchScreen, WaybillMap, TLC

VARIABLE part

MCInit ==
    /\ part \in {"day", "plan", "waybill", "route"}
    /\ DSInit /\ WMInit /\ RVInit
    /\ part # "day" => srv = [d \in Days |-> 0]
    /\ part # "waybill" => routed = {}

\* Requests are answered, no dialog is opened, and the link is up or down.
PlanOnly ==
    /\ past' \subseteq {"dropped"} /\ ~ModalOpen'
    /\ status' \in {"connected", "disconnected"}

MCNext ==
    \/ part = "day" /\ DSNext /\ events' < MaxEvents /\ UNCHANGED <<part, wmVars>>
    \/ part = "plan" /\ DSNext /\ PlanOnly /\ UNCHANGED <<part, wmVars>>
    \/ part = "waybill" /\ WMNext /\ UNCHANGED <<part, dsVars>>
    \/ part = "route" /\ RVNext /\ UNCHANGED <<part, dsVars>>

mcVars == <<dsVars, wmVars, part>>

Day(A) == part \in {"day", "plan"} /\ A /\ UNCHANGED <<part, wmVars>>
Waybill(A) == part = "waybill" /\ A /\ UNCHANGED <<part, dsVars>>

\* DSFair and WMFair, each of its part: requests are answered, the page polls,
\* the map loads.
MCSpec ==
    /\ MCInit /\ [][MCNext]_mcVars
    /\ WF_mcVars(Day(\E c \in calls : CallArrives(c)) \/ Waybill(DrawsOn))
    /\ WF_mcVars(Day(PollTick) \/ Waybill(NewDrivers))
    /\ WF_mcVars(Waybill(MapLoads))
=============================================================================
