--------------------------- MODULE OrderLifecycle ---------------------------
(***************************************************************************)
(* What the order state machine promises to every other part of the        *)
(* system: whatever transactions run, each of them moves each order by     *)
(* transitions of the machine that start at the order's committed status.  *)
(* Dispatch is shown to implement this specification when transactions do  *)
(* not overlap, and shown not to when they do.                             *)
(***************************************************************************)
EXTENDS OrderStates

CONSTANT Orders

VARIABLE status  \* status[o]: orders.status as committed

LifecycleInit == status = [o \in Orders |-> "created"]

(* One transaction commits: every order it writes moves legally.             *)
CommitTransitions ==
    /\ status' \in [Orders -> OrderStatus]
    /\ \A o \in Orders : status'[o] # status[o] => CanCommit(status[o], status'[o])

LifecycleSpec == LifecycleInit /\ [][CommitTransitions]_status
=============================================================================
