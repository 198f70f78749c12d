SPECIFICATION FairSpec
CONSTANTS
  NKeys = 2
  NModels = 2
  Prompts = {p1}
  MaxAttempts = 1
  Threshold = 2
  None = None
INVARIANTS
  ProvidersInv
  LimitedMeansEveryKey
  BusyIsRetryable
PROPERTIES
  KeepsContract
