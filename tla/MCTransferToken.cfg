\* A lost answer and a rotated credential that is not stored.
CONSTANTS
  MaxTasks = 1
  MaxVersions = 1
  MaxRetries = 1
  Resumable = TRUE
  Verified = FALSE
  Crashes = 0
  LostAnswers = 1
  FailedWrites = 0
  LostTokens = 1
  Expiries = 0
  MaxFaults <- MCMaxFaults
SPECIFICATION Spec
INVARIANTS UncertainEndsRetries
\* The file may be settled and no task left to create.
CHECK_DEADLOCK FALSE
