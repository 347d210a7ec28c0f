\* Two calls race and may die.
SPECIFICATION OffersSpec
CONSTANTS
  Orders = {o1}
  Drivers = {d1, d2}
  Tasks = {t1, t2}
  Mortal = {t1, t2}
  Targets = {"CANCELLED"}
  NoDriver = NoDriver
  MAX_CONCURRENT_DELIVERIES = 1
  MaxOffers = 2
SYMMETRY Interchangeable
CHECK_DEADLOCK FALSE
INVARIANTS
  AcceptedMeansDispatched
  OnTheWayHasDriver
PROPERTY ImplementsDispatch
