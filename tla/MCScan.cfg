CONSTANTS
  d1 = d1
  d2 = d2
  f1 = f1
  Root = root
  Shares <- MCShares
  Folders = {d1, d2}
  Files = {f1}
  Versions = {1, 2}
  Modes = {"all", "future_only"}
  Providers = {"honest", "flaky"}
  BatchSize = 1
  MaxChanges = 1
  MaxAborts = 1
SPECIFICATION FairScanSpec
CHECK_DEADLOCK FALSE
INVARIANTS ScanInvariant
PROPERTIES NewIsQueued ScanSettles
