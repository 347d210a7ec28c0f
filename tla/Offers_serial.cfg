\* One call at a time, which may die half-way.  All is still once the offers are
\* used up.
SPECIFICATION WatchedOffersSpec
CONSTANTS
  Orders = {o1, o2}
  Drivers = {d1, d2}
  Tasks = {t1}
  Mortal = {t1}
  Targets = {"PICKED_UP", "CANCELLED"}
  NoDriver = NoDriver
  MAX_CONCURRENT_DELIVERIES = 2
  MaxOffers = 2
SYMMETRY Interchangeable
CHECK_DEADLOCK FALSE
INVARIANTS
  OneLiveOffer
  AcceptedCarries
  AcceptanceClosesOffers
PROPERTY RefusalRespected
