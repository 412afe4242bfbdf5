SPECIFICATION Spec
CONSTANTS
  None = None
  NoRecord = NoRecord
  NoAlarm = NoAlarm
  s1 = s1
  k1 = k1
  k2 = k2
  ServiceIds = {s1}
  KeyIds = {k1, k2}
  Offers <- Routable
  Tasks = {t1, t2}
  Requests = {q1}
  Operations = {"clear_one"}
  TTL = 2
  MaxGeneration = 9
  Attempts = 4
  MaxTime = 2
  MaxBindings = 3
  Faults = FALSE
INVARIANT RegisteredIsListed
