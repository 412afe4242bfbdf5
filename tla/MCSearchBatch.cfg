SPECIFICATION FairSpec
CONSTANTS
  Queries = 4
  ProviderConcurrency = 2
  MaxResponse = 2
  MaxBatch = 4
  MaxChunk = 2
INVARIANTS
  BudgetHolds
  WholeOrCause
PROPERTIES
  NoneAfterFailure
  EveryBatchEnds
CHECK_DEADLOCK FALSE
