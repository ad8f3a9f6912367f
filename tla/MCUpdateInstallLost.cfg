SPECIFICATION Spec
CONSTANTS
  Requests = {r1, r2}
  Tasks = {t1}
  Workers = {w1}
  NoWorker = NoWorker
  Versions <- MCVersions
  Listings <- MCListings
  NoVersion = NoVersion
  FirstVersion <- V1
  MaxCrashes = 1
  MaxChanges = 1
CHECK_DEADLOCK FALSE
PROPERTY DrainIsBounded
