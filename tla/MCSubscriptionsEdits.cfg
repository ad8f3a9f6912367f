\* A third edit: violates EnabledIsScheduled.
CONSTANTS
  Schedulers = {1}
  Clients = {1, 2}
  Workers = {}
  Modes = {"process"}
  Intervals = {1}
  MaxTime = 2
  MaxTasks = 1
  MaxEvents = 3
SPECIFICATION Spec
INVARIANTS EnabledIsScheduled
CHECK_DEADLOCK FALSE
