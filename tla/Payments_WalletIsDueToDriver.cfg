\* One call at a time.
SPECIFICATION WatchedSpec
CONSTANTS
  Orders = {o1}
  FreeOrders = {}
  Tasks = {t1}
  Mortal = {}
  Targets = {"OUT_FOR_DELIVERY", "DELIVERED", "CUSTOMER_ABSENT", "RESCHEDULED", "RETURNED"}
  Goods = 1000
  Fee = 45
  commissionRate = 10
  Replays = FALSE
SYMMETRY Interchangeable
CHECK_DEADLOCK FALSE
INVARIANT WalletIsDueToDriver
