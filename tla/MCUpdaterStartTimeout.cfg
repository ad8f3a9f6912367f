SPECIFICATION FairSpec
CONSTANTS
  Helpers = {h1}
  NoHelper = NoHelper
  OriginalPolicy = "unless-stopped"
  MaxGeneration = 3
  StartMayTimeOut = TRUE
  MaxDisruptions = 1
CHECK_DEADLOCK FALSE
PROPERTY FailureRestoresService
