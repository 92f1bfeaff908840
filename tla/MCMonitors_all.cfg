SPECIFICATION FairSpec
CONSTANTS
  Configs <- AllConfigs
  MaxPasses = 3
  MaxReading = 2
INVARIANTS TypeOK AveragesRight ChangeIsKnown
PROPERTY MonitorsEnd
