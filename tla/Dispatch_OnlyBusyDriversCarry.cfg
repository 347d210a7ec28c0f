\* Two calls race.
SPECIFICATION WatchedSpec
CONSTANTS
  Orders = {o1, o2}
  Drivers = {d1}
  Tasks = {t1, t2}
  Mortal = {}
  Targets = {"PICKED_UP", "IN_TRANSIT", "OUT_FOR_DELIVERY", "DELIVERED", "RESCHEDULED",
    "RETURNED", "CANCELLED"}
  NoDriver = NoDriver
  MAX_CONCURRENT_DELIVERIES = 1
SYMMETRY Interchangeable
CHECK_DEADLOCK FALSE
INVARIANT OnlyBusyDriversCarry
