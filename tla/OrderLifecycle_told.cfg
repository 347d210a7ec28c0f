\* No request dies: what two racing requests commit is told to the webhook.
SPECIFICATION FairSpec
CONSTANTS
  Orders = {o1}
  Requests = {r1, r2}
  Mortal = {}
  Targets = {"CONFIRMED", "READY_FOR_PICKUP", "ASSIGNED", "PICKED_UP",
    "IN_TRANSIT", "OUT_FOR_DELIVERY", "DELIVERED", "CUSTOMER_ABSENT",
    "RETURNED", "CANCELLED"}
CHECK_DEADLOCK FALSE
PROPERTY EveryTransitionIsTold
