\* One download, two Workers: a restarted or second Worker takes over while the
\* first still executes.
CONSTANTS
  d1 = d1
  t1 = t1
  w1 = w1
  w2 = w2
  NoClaim = NoClaim
  Tasks = {d1}
  Downloads <- MCDownloads
  Priority <- MCPriority
  Workers = {w1, w2}
  MaxRetries = 1
  LeaseDuration = 2
  MaxDisruptions = 2
  MaxContinuations = 1
SPECIFICATION Spec
SYMMETRY WorkerSymmetry
INVARIANTS OwnedIffOneActiveRun RetryLedger EngineInvariant
PROPERTIES StatusFollowsPolicy RunsEndOnce DrainHolds
