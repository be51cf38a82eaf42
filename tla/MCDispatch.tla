----------------------------- MODULE MCDispatch -----------------------------
(***************************************************************************)
(* Dispatch for TLC.  Plans are numbered; drivers are spread over the      *)
(* districts by MCRegion: d1 serves s1 and d2 serves s2, or every driver   *)
(* the only district there is.                                             *)
(***************************************************************************)
EXTENDS Dispatch, TLC

CONSTANTS d1, s1, s2, MaxPlans

MCPlanIds == 1..MaxPlans
(* Orders, jobs and requests are interchangeable everywhere, drivers when    *)
(* they all serve one district.                                              *)
MCSymmetry ==
    Permutations(Orders) \cup Permutations(Jobs) \cup Permutations(Requests)
        \cup IF s2 \in Scopes THEN {} ELSE Permutations(Drivers)

MCRegion == [d \in Drivers |-> IF s2 \in Scopes /\ d # d1 THEN s2 ELSE s1]
=============================================================================
