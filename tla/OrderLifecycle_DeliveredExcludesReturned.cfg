\* Two requests race on one order.
SPECIFICATION Spec
CONSTANTS
  Orders = {o1}
  Requests = {r1, r2}
  Mortal = {}
  Targets = {"CONFIRMED", "READY_FOR_PICKUP", "ASSIGNED", "PICKED_UP", "IN_TRANSIT",
    "OUT_FOR_DELIVERY", "CUSTOMER_ABSENT", "WRONG_ADDRESS", "CUSTOMER_REFUSED",
    "RESCHEDULED", "DELIVERED", "RETURNED", "CANCELLED"}
CHECK_DEADLOCK FALSE
INVARIANT DeliveredExcludesReturned
