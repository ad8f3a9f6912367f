SPECIFICATION Spec
CONSTANTS
  Passwords = {"p", "q"}
  EnvPasswords = {"none", "admin", "p"}
  Keys = {k1, k2}
  NoStore = NoStore
  NoSession = NoSession
  LegacyRows <- MCLegacyRows
  MaxRetries = 1
  MaxFaults = 2
  MaxChanges = 3
CHECK_DEADLOCK FALSE
INVARIANT OnlineChangeHolds
