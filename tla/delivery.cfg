\* Every provider and kind of operation, two attempts.
CONSTANTS
  Observed <- AllProviders
  MaxAttempts = 2
SPECIFICATION Spec
INVARIANTS TypeOK WriteAppliedOnce VerdictTruthful
PROPERTIES OutageRetryable RequestContract
CHECK_DEADLOCK FALSE
