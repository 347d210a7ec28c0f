\* One request at a time, every status.  All is still once both orders are in a
\* terminal status.
SPECIFICATION Spec
CONSTANTS
  Orders = {o1, o2}
  Requests = {r1}
  Mortal = {r1}
  Targets = {"CONFIRMED", "READY_FOR_PICKUP", "ASSIGNED", "PICKED_UP", "IN_TRANSIT",
    "OUT_FOR_DELIVERY", "CUSTOMER_ABSENT", "WRONG_ADDRESS", "CUSTOMER_REFUSED",
    "RESCHEDULED", "DELIVERED", "RETURNED", "CANCELLED"}
CHECK_DEADLOCK FALSE
INVARIANT NotificationsTellTransition
PROPERTY ImplementsAutomaton
