CONSTANTS
  None = None
  Id = {i1, i2}
  Subroutine <- MCSubroutine
  Lifetime <- MCLifetime
  ProcessorDomain = "Main"
  MaxSends = 2
  MaxTries = 3
SPECIFICATION BothSpec
INVARIANTS ExactlyOnePlace StorageServesReply FunctionsInOrder ResultsTellTheTruth RetryBudget ResultDelivery
PROPERTY EveryBatchReported
