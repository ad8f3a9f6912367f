\* A download and a task that outranks it, one Worker process, under fairness.
CONSTANTS
  d1 = d1
  t1 = t1
  w1 = w1
  w2 = w2
  NoClaim = NoClaim
  Tasks = {d1, t1}
  Downloads <- MCDownloads
  Priority <- MCPriority
  Workers = {w1}
  MaxRetries = 1
  LeaseDuration = 2
  MaxDisruptions = 1
  MaxContinuations = 1
SPECIFICATION FairSpec
PROPERTIES ImplementsLifecycle CancelSettles TasksMoveOn
