\* Two corrupted blocks and a crash: violates PublishedIsVerified.
CONSTANTS
  Files = {f1}
  Hashed = {f1}
  Workers = {1, 2}
  Clients = {1}
  Modes = {"process"}
  Size = 2
  ChunkBlocks = 1
  RangeIgnorable = FALSE
  MaxTasks = 2
  MaxDisturbances = 3
  Bad = Bad
  Foreign = Foreign
  NoFile = NoFile
  NoWorker = NoWorker
SPECIFICATION Spec
INVARIANTS PublishedIsVerified
CHECK_DEADLOCK FALSE
