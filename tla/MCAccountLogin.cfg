SPECIFICATION Spec
CONSTANTS
  Ids <- MCIds
  Names = {"n", "m"}
  Users = {u, v}
  Sessions = {s1, s2}
  Kinds <- AllKinds
  OtherKinds = {}
  NoRow = NoRow
  NoUser = NoUser
  NoId = NoId
  MaxChanges = 4
  MaxFaults = 1
  s1 = s1
  s2 = s2
  u = u
  v = v
SYMMETRY Symmetry
CHECK_DEADLOCK FALSE
INVARIANTS LoginInvariant
PROPERTIES ExpiredIsFinal
