SPECIFICATION FairSpec
CONSTANTS
  Helpers = {h1}
  NoHelper = NoHelper
  OriginalPolicy = "unless-stopped"
  MaxGeneration = 3
  StartMayTimeOut = FALSE
  MaxDisruptions = 5
CHECK_DEADLOCK FALSE
PROPERTIES UpdateSettles GateReopens
