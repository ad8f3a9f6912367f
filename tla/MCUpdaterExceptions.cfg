\* Statements about the Updater that the code does not keep.  Check one at a
\* time: leave one property, comment out the rest.
SPECIFICATION FairSpec
CONSTANTS
  Helpers = {h1}
  NoHelper = NoHelper
  OriginalPolicy = "unless-stopped"
  MaxGeneration = 3
  StartMayTimeOut = FALSE
  MaxDisruptions = 2
CHECK_DEADLOCK FALSE
PROPERTY CommittedConverges
\* PROPERTY HelperIsRemoved
\* PROPERTY BeginsWithSourceRunning
\* INVARIANT StoppedSourceIsRolledBack
\* PROPERTY EveryTakeoverCounts
