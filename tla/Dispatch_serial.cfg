\* One call at a time, which may die.  All is still when every order has ended.
SPECIFICATION WatchedFairSpec
CONSTANTS
  Orders = {o1, o2, o3}
  Drivers = {d1, d2}
  Tasks = {t1}
  Mortal = {t1}
  Targets = {"PICKED_UP", "IN_TRANSIT", "OUT_FOR_DELIVERY", "DELIVERED", "RESCHEDULED",
    "RETURNED", "CANCELLED"}
  NoDriver = NoDriver
  MAX_CONCURRENT_DELIVERIES = 2
CHECK_DEADLOCK FALSE
INVARIANTS
  CapacityRespected
  OnlyBusyDriversCarry
  StrandedOnlyByDeath
PROPERTIES
  DriverKeepsOrder
  IdleDriverIsReleased
