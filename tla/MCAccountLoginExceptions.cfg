\* Statements about the logins that the code does not keep.  Check one at a
\* time: leave one property, comment out the rest.
SPECIFICATION Spec
CONSTANTS
  Ids <- MCIds
  Names = {"n", "m"}
  Users = {u, v}
  Sessions = {s1, s2}
  Kinds = {"aliyundrive"}
  OtherKinds = {"pikpak"}
  NoRow = NoRow
  NoUser = NoUser
  NoId = NoId
  MaxChanges = 4
  MaxFaults = 1
  s1 = s1
  s2 = s2
  u = u
  v = v
SYMMETRY Symmetry
CHECK_DEADLOCK FALSE
INVARIANT OpenMatches
\* INVARIANT LoginStaysWithItsProvider
\* PROPERTY OwnNameIsNoConflict
\* PROPERTY RenewalHolds
