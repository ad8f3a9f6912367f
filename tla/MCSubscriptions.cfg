CONSTANTS
  Schedulers = {1, 2}
  Clients = {1, 2}
  Workers = {w1}
  Modes = {"process", "legacy"}
  Intervals = {1}
  MaxTime = 2
  MaxTasks = 2
  MaxEvents = 2
SPECIFICATION FairSpec
INVARIANTS SlotsAreSound
PROPERTIES ScansSettle
CHECK_DEADLOCK FALSE
