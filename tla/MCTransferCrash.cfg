\* A crash between the answer and its record.
CONSTANTS
  MaxTasks = 1
  MaxVersions = 1
  MaxRetries = 1
  Resumable = TRUE
  Verified = FALSE
  Crashes = 1
  LostAnswers = 0
  FailedWrites = 0
  LostTokens = 0
  Expiries = 0
  MaxFaults <- MCMaxFaults
SPECIFICATION Spec
INVARIANTS NoDuplicateCopy
\* The file may be settled and no task left to create.
CHECK_DEADLOCK FALSE
