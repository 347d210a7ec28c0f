--------------------------- MODULE MissionScreen ---------------------------
(***************************************************************************)
(* The buttons of the driver's screen                                      *)
(* (src/components/driver/MissionActions.tsx), by the status of the order  *)
(* it was drawn with, and the status each result of an attempt leads to.   *)
(***************************************************************************)
EXTENDS OrderStateMachine

Results == {"SUCCESS", "CUSTOMER_ABSENT", "WRONG_ADDRESS", "CUSTOMER_REFUSED", "OTHER_FAILURE"}

ATTEMPT_RESULT_TO_ORDER_STATUS ==
  [SUCCESS          |-> "DELIVERED",
   CUSTOMER_ABSENT  |-> "CUSTOMER_ABSENT",
   WRONG_ADDRESS    |-> "WRONG_ADDRESS",
   CUSTOMER_REFUSED |-> "CUSTOMER_REFUSED",
   OTHER_FAILURE    |-> "RESCHEDULED"]

\* Buttons that ask for a status: the scanner for PICKED_UP, advance, resolveAs, retry.
StatusButtons(shown) ==
  CASE shown = "ASSIGNED"         -> {"PICKED_UP"}
    [] shown = "PICKED_UP"        -> {"IN_TRANSIT"}
    [] shown = "IN_TRANSIT"       -> {"OUT_FOR_DELIVERY"}
    [] shown \in FAILURE_STATUSES -> {"RESCHEDULED", "RETURNED"}
    [] shown = "RESCHEDULED"      -> {"OUT_FOR_DELIVERY"}
    [] OTHER                      -> {}

\* Buttons that record an attempt.
ResultButtons(shown) == IF shown = "OUT_FOR_DELIVERY" THEN Results ELSE {}
=============================================================================
