\* Two requests at once for two forms and files, which may fail or die anywhere.
SPECIFICATION WatchedSpec
CONSTANTS
  Forms = {f1, f2}
  Tasks = {t1, t2}
  Phones = {p1}
  LimitedCodes = {c1}
  OpenCodes = {}
  usageLimit = 1
  MaxRequests = 3
  MaxRows = 2
  Nobody = Nobody
  NoCode = NoCode
  NoForm = NoForm
SYMMETRY Interchangeable
CHECK_DEADLOCK FALSE
INVARIANTS
  NumbersAreDense
  DiscountsWithinLimit
  CustomersPerRequest
  FormOpensItsOrder
  OneOrderPerForm
  HeldKeyHasOwner
