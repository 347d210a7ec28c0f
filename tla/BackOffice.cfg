\* Every service of the back office alone, with two requests at once that may break off anywhere.
SPECIFICATION BackOfficeSpec
CONSTANTS
  Tasks = {t1, t2}
  SettlableOrders = {o1, o2}
  MaxSettlements = 2
  Trips = {p1, p2, p3}
  MILESTONE = 2
  RequiredTypes = {k1}
  MaxDocuments = 2
  MaxReviews = 2
  MaxDay = 1
  Applicants = {d1, s1}
  DriverApplicants = {d1}
  MaxDecisions = 2
  Conditions = {"LATE"}
  MaxExceptions = 2
  MaxThread = 3
  MaxPasswords = 2
  MaxSecrets = 2
  MaxSessions = 2
  Events = {e1}
  MAX_ATTEMPTS = 3
  MaxDeliveries = 2
  MaxGenerated = 2
  Outcomes = {"SUCCESS", "CUSTOMER_ABSENT", "OTHER_FAILURE"}
  MaxAttempts = 2
  ip = ip
  account = account
  Keys = {ip, account}
  Checks <- routes
  limit <- loginLimit
  window <- loginWindow
  Second = 2
  Interval = 3
  MaxTime = 7
  People <- Roles
  roleOf <- everyRole
  Things <- Sorts
  sortOf <- everySort
  ownersOf <- owners
  MaxOpen = 2
  MaxHops = 6
SYMMETRY Interchangeable
CHECK_DEADLOCK FALSE
INVARIANTS
  OncePerRequest
  PaidIsConfirmed
  EligibleIsSelectable
  DecidedBeforeWork
  SosNeedsOperator
  RowsTellDelivery
  OutcomeHasAttempt
  KeptUnlessOvertaken
  SomebodyLeadsOn
  RedirectsLeadHome
PROPERTIES
  ImplementsWindows
  RefusedOnlyIfOvertaken
