\* A credential expires and is renewed.
CONSTANTS
  MaxTasks = 1
  MaxVersions = 1
  MaxRetries = 1
  Resumable = TRUE
  Verified = FALSE
  Crashes = 0
  LostAnswers = 0
  FailedWrites = 0
  LostTokens = 0
  Expiries = 1
  MaxFaults <- MCMaxFaults
SPECIFICATION FairSpec
PROPERTIES BlockedTransferResumes
\* The file may be settled and no task left to create.
CHECK_DEADLOCK FALSE
