\* A file that changes before its first transfer, no faults.
CONSTANTS
  MaxTasks = 2
  MaxVersions = 2
  MaxRetries = 1
  Resumable = TRUE
  Verified = FALSE
  Crashes = 0
  LostAnswers = 0
  FailedWrites = 0
  LostTokens = 0
  Expiries = 0
  MaxFaults <- MCMaxFaults
SPECIFICATION Spec
INVARIANTS NoDuplicateCopy
\* The file may be settled and no task left to create.
CHECK_DEADLOCK FALSE
