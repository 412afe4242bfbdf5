SPECIFICATION Spec
CONSTANTS
  FAILURE_THRESHOLD = 3
  FAILURE_WINDOW_MS = 2
  COOLDOWN_MS = 3
  MaxTime = 8
  Null = Null
  Absent = Absent
  Services = {s1}
  Keys = {k1}
INVARIANTS
  CoolingIsEarned
  BurstCools
  KeyCoolsFromLastFailure
PROPERTY ImplementsCooldowns
