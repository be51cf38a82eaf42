------------------------------- MODULE MCFleet -------------------------------
(* What the console shows of the drivers, one part of it per behaviour:    *)
(* the drivers page, or the live link with the map of their positions.     *)
EXTENDS DriversScreen, LiveSocket

VARIABLE part

MCInit == part \in {"page", "link"} /\ FSInit /\ LSInit

MCNext ==
    \/ part = "page" /\ FSNext /\ UNCHANGED <<part, lsVars>>
    \/ part = "link" /\ LSNext /\ UNCHANGED <<part, fsVars>>

mcVars == <<part, fsVars, lsVars>>

Page(A) == part = "page" /\ A /\ UNCHANGED <<part, lsVars>>
Link(A) == part = "link" /\ A /\ UNCHANGED <<part, fsVars>>

\* The fairness of FSSpec and LSFair, each of its part.
MCSpec ==
    /\ MCInit /\ [][MCNext]_mcVars
    /\ WF_mcVars(Page(PollDriver) \/ Link(RetryTimer))
    /\ WF_mcVars(Page(PollAnswered) \/ Link(Publish))
    /\ WF_mcVars(Link(ServeMapData \/ MapDataArrives))
    /\ \A s \in Ids : /\ WF_mcVars(Link(SocketOpens(s))) /\ WF_mcVars(Link(SocketCloses(s)))
                      /\ WF_mcVars(Link(HearPosition(s)))
=============================================================================
