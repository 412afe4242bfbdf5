SPECIFICATION Spec
CONSTANTS
  None = None
  Null = Null
  Absent = Absent
  s1 = s1
  s2 = s2
  k1 = k1
  k2 = k2
  ServiceIds = {s1, s2}
  KeyIds = {k1, k2}
  Route <- MCRoute
  Requests = {r1, r2}
  Delays = 1
  Retries <- MCRetries
  Faults = TRUE
  SERVICE_FAN_OUT_CONCURRENCY = 2
  FAILURE_THRESHOLD = 1
  FAILURE_WINDOW_MS = 2
  COOLDOWN_MS = 2
  MaxTime = 2
INVARIANTS
  TypeOK
  CoolingTakesRequests
PROPERTIES
  TargetWasIn
  PassesOverOnlyOut
CHECK_DEADLOCK FALSE
