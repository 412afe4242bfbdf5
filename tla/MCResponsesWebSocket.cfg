SPECIFICATION Spec
CONSTANTS
  MaxPending = 2
  Delays = 1
  Retries <- MCRetries
  Polite = FALSE
  MaxFrames = 4
  MaxMessages = 3
INVARIANTS
  TypeOK
  InGoodHands
  NoOrphan
  NoFrameLost
  OneOutcome
  FailureHasCause
PROPERTIES
  Forward
  DeliveredBeforeLoss
CHECK_DEADLOCK FALSE
