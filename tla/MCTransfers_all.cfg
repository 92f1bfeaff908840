SPECIFICATION FairSpec
CONSTANTS
  Configs <- AllConfigs
  Stops = TRUE
  MaxMoved = 1
INVARIANTS AllCounted PebbIterationsTransfer
PROPERTIES TimersWellUsed ActionEnds
