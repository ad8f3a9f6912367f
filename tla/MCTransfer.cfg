\* All faults against a resumable provider that compares fingerprints.
CONSTANTS
  MaxTasks = 2
  MaxVersions = 1
  MaxRetries = 2
  Resumable = TRUE
  Verified = TRUE
  Crashes = 1
  LostAnswers = 2
  FailedWrites = 2
  LostTokens = 1
  Expiries = 1
  MaxFaults <- MCMaxFaults
SPECIFICATION Spec
\* The file may be settled and no task left to create.
CHECK_DEADLOCK FALSE
INVARIANTS OneTaskOneCopy DoubtEndsRetries OnlyFaultsLeaveFiles
PROPERTIES RetryContinuesOperation SuccessIsSaved
