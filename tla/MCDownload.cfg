CONSTANTS
  Files = {f1, f2}
  Hashed = {f1}
  Workers = {1, 2}
  Clients = {1, 2}
  Modes = {"process", "legacy"}
  Size = 2
  ChunkBlocks = 1
  RangeIgnorable = TRUE
  MaxTasks = 2
  MaxDisturbances = 1
  Bad = Bad
  Foreign = Foreign
  NoFile = NoFile
  NoWorker = NoWorker
SPECIFICATION FairSpec
INVARIANTS DownloadInvariant PublicationIsReported
PROPERTIES TargetUntouched DownloadSettles
CHECK_DEADLOCK FALSE
