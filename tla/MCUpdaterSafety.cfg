SPECIFICATION Spec
CONSTANTS
  Helpers = {h1, h2}
  NoHelper = NoHelper
  OriginalPolicy = "always"
  MaxGeneration = 3
  StartMayTimeOut = FALSE
  MaxDisruptions = 8
SYMMETRY Symmetry
CHECK_DEADLOCK FALSE
INVARIANTS AppliancesAreSafe SuccessIsConfirmed
PROPERTIES SnapshotIsSafe KeepsAgreement
