SPECIFICATION LiveSpec
CONSTANTS
  Providers <- AllProviders
  Jobs = {1, 2}
  Assignments <- MCAssignments
  Drives <- MCDrives
  OtherEntries <- MCOthers
  PageSize = 2
  MaxReadRetries = 1
  Polls = 2
  MaxEntries = 15
  MaxEvents = 1
CHECK_DEADLOCK FALSE
INVARIANTS SubmittedOnce
PROPERTIES SavesAreRight TransfersEnd
