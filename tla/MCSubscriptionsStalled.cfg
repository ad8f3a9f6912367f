\* A cycle that stalls while the interval is edited: violates DueIsAlwaysFree.
CONSTANTS
  Schedulers = {1, 2}
  Clients = {1}
  Workers = {w1}
  Modes = {"process"}
  Intervals = {1, 2}
  MaxTime = 4
  MaxTasks = 2
  MaxEvents = 1
SPECIFICATION Spec
INVARIANTS DueIsAlwaysFree
CHECK_DEADLOCK FALSE
