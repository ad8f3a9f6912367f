CONSTANTS
  Files = {f1}
  Hashed = {f1}
  Workers = {1}
  Clients = {1}
  Modes = {"process"}
  Size = 2
  ChunkBlocks = 2
  RangeIgnorable = TRUE
  MaxTasks = 1
  MaxDisturbances = 0
  Bad = Bad
  Foreign = Foreign
  NoFile = NoFile
  NoWorker = NoWorker

SPECIFICATION FairSpec

PROPERTY DownloadSettles
CHECK_DEADLOCK FALSE
