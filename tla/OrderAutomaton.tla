--------------------------- MODULE OrderAutomaton ---------------------------
(***************************************************************************)
(* What the order state machine promises to its readers                    *)
(* (src/modules/orders/order-state-machine.ts): every change of an order's *)
(* status is one edge of ORDER_TRANSITIONS, so a terminal status is final. *)
(***************************************************************************)
EXTENDS OrderStateMachine

CONSTANT Orders

VARIABLE status

Init == status = [o \in Orders |-> "PENDING"]

Move(o, to) ==
  /\ canTransition(status[o], to)
  /\ status' = [status EXCEPT ![o] = to]

Next == \E o \in Orders, to \in OrderStatus : Move(o, to)

Spec == Init /\ [][Next]_status
=============================================================================
