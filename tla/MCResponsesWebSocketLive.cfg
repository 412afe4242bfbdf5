SPECIFICATION FairSpec
CONSTANTS
  MaxPending = 2
  Delays = 1
  Retries <- MCRetries
  Polite = TRUE
  MaxFrames = 3
  MaxMessages = 3
PROPERTIES
  LossIsRecorded
  SessionEnds
CHECK_DEADLOCK FALSE
