\* Two requests race on one order, either may die.  RESCHEDULED, which can be
\* tried again or returned, stands for the three failure statuses.  All is still
\* once the order is in a terminal status.
SPECIFICATION Spec
CONSTANTS
  Orders = {o1}
  Requests = {r1, r2}
  Mortal = {r1, r2}
  Targets = {"CONFIRMED", "READY_FOR_PICKUP", "ASSIGNED", "PICKED_UP",
    "IN_TRANSIT", "OUT_FOR_DELIVERY", "RESCHEDULED", "DELIVERED", "RETURNED",
    "CANCELLED"}
SYMMETRY Interchangeable
CHECK_DEADLOCK FALSE
INVARIANTS
  MilestonesRecorded
  MessagesFollowCommit
PROPERTY ImplementsLog
