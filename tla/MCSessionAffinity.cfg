SPECIFICATION Spec
CONSTANTS
  None = None
  NoRecord = NoRecord
  NoAlarm = NoAlarm
  s1 = s1
  k1 = k1
  k2 = k2
  ServiceIds = {s1}
  KeyIds = {k1, k2}
  Offers <- MCOffers
  Tasks = {t1, t2}
  Requests = {q1}
  Operations = {"list", "clear_one"}
  TTL = 2
  MaxGeneration = 3
  Attempts = 2
  MaxTime = 2
  MaxBindings = 3
  Faults = TRUE
INVARIANTS
  TypeOK
  IndexNeverAhead
  ListedUntilRestarted
PROPERTIES
  ImplementsBinding
  ClearSparesLater
SYMMETRY TaskSymmetry
