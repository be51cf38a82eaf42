---------------------------- MODULE OrderStates ----------------------------
(***************************************************************************)
(* The order status machine of order_state.py: constant definitions only,  *)
(* shared by the abstract lifecycle and by every model that moves an order.*)
(***************************************************************************)

OrderStatus ==
    {"created", "scheduled", "assigned", "driver_en_route", "picked_up",
     "completed", "cancelled", "exception"}

(* _ALLOWED_TRANSITIONS, as a set of pairs.                                  *)
AllowedTransitions ==
    {<<"created", "scheduled">>, <<"created", "cancelled">>,
     <<"scheduled", "assigned">>, <<"scheduled", "cancelled">>,
     <<"scheduled", "exception">>,
     <<"assigned", "driver_en_route">>, <<"assigned", "cancelled">>,
     <<"assigned", "exception">>,
     <<"driver_en_route", "picked_up">>,
     <<"picked_up", "completed">>,
     <<"exception", "scheduled">>}

(* The check transition_order makes on the status it holds in memory.        *)
CanMove(from, to) == <<from, to>> \in AllowedTransitions

(* Statuses that planning takes orders from (list_for_dispatch, assign).     *)
Pending == {"created", "scheduled", "exception"}

(* What one transaction may do to an order: one transition, or two of them   *)
(* through scheduled, which is how planning and publishing assign or reject  *)
(* an order (_scheduled, _exception, _transition_to_exception, publish).     *)
CanCommit(from, to) ==
    \/ CanMove(from, to)
    \/ CanMove(from, "scheduled") /\ CanMove("scheduled", to) /\ to # "cancelled"
=============================================================================
