\* Two calls race, die, and events are delivered again.  A fee of 45 cents is
\* rounded both ways.
SPECIFICATION WatchedFairSpec
CONSTANTS
  Orders = {o1, o2}
  FreeOrders = {o2}
  Tasks = {t1, t2}
  Mortal = {t1, t2}
  Targets = {"OUT_FOR_DELIVERY", "DELIVERED", "CUSTOMER_ABSENT", "RESCHEDULED", "RETURNED"}
  Goods = 1000
  Fee = 45
  commissionRate = 10
  Replays = TRUE
CHECK_DEADLOCK FALSE
INVARIANTS
  WalletFollowsLedger
  PaymentsAreBooked
  BookedOnceUnlessRaced
PROPERTY OutcomeIsBooked
