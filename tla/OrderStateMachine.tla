------------------------- MODULE OrderStateMachine -------------------------
(***************************************************************************)
(* The order state machine of src/modules/orders/order-state-machine.ts:   *)
(* the statuses, the table of allowed transitions, the terminal statuses   *)
(* and the domain events a committed transition raises.  Pure data, shared *)
(* by every module in which an order moves.                                *)
(***************************************************************************)
EXTENDS Sequences

OrderStatus ==
  {"PENDING", "CONFIRMED", "READY_FOR_PICKUP", "ASSIGNED", "PICKED_UP",
   "IN_TRANSIT", "OUT_FOR_DELIVERY", "CUSTOMER_ABSENT", "WRONG_ADDRESS",
   "CUSTOMER_REFUSED", "RESCHEDULED", "DELIVERED", "RETURNED", "CANCELLED"}

FAILURE_STATUSES == {"CUSTOMER_ABSENT", "WRONG_ADDRESS", "CUSTOMER_REFUSED"}

TERMINAL_STATUSES == {"DELIVERED", "RETURNED", "CANCELLED"}

\* Status -> the statuses a request may move the order to.
ORDER_TRANSITIONS ==
  [from \in OrderStatus |->
     CASE from = "PENDING"          -> {"CONFIRMED", "CANCELLED"}
       [] from = "CONFIRMED"        -> {"READY_FOR_PICKUP", "CANCELLED"}
       [] from = "READY_FOR_PICKUP" -> {"ASSIGNED", "CANCELLED"}
       [] from = "ASSIGNED"         -> {"PICKED_UP", "CANCELLED"}
       [] from = "PICKED_UP"        -> {"IN_TRANSIT"}
       [] from = "IN_TRANSIT"       -> {"OUT_FOR_DELIVERY"}
       [] from = "OUT_FOR_DELIVERY" -> FAILURE_STATUSES \cup {"DELIVERED", "RESCHEDULED"}
       [] from \in {"CUSTOMER_ABSENT", "WRONG_ADDRESS"} -> {"RESCHEDULED", "RETURNED"}
       [] from = "CUSTOMER_REFUSED" -> {"RETURNED"}
       [] from = "RESCHEDULED"      -> {"OUT_FOR_DELIVERY", "RETURNED"}
       [] from \in TERMINAL_STATUSES -> {}]

canTransition(from, to) == to \in ORDER_TRANSITIONS[from]

(***************************************************************************)
(* The events of a transition, in the order in which they are dispatched.  *)
(* Only events some module subscribes to are kept: the events of the list  *)
(* that have no handler do nothing.                                        *)
(***************************************************************************)
getDomainEventsForTransition(to) ==
  CASE to = "CONFIRMED"        -> <<"ORDER_CONFIRMED">>
    [] to = "ASSIGNED"         -> <<"DRIVER_ASSIGNED">>
    [] to = "OUT_FOR_DELIVERY" -> <<"OUT_FOR_DELIVERY", "NOTIFY_CUSTOMER">>
    [] to = "DELIVERED"        -> <<"ORDER_DELIVERED", "NOTIFY_CUSTOMER">>
    [] to = "CUSTOMER_ABSENT"  -> <<"FAILED_DELIVERY", "NOTIFY_CUSTOMER">>
    [] to = "WRONG_ADDRESS"    -> <<"FAILED_DELIVERY", "NOTIFY_SUPPLIER">>
    [] to = "CUSTOMER_REFUSED" -> <<"FAILED_DELIVERY">>
    [] to = "RETURNED"         -> <<"ORDER_RETURNED", "NOTIFY_SUPPLIER",
                                    "COMPENSATE_DRIVER_FAILED_ATTEMPT">>
    [] to = "CANCELLED"        -> <<"ORDER_CANCELLED", "NOTIFY_SUPPLIER">>
    [] OTHER                   -> <<>>
=============================================================================
