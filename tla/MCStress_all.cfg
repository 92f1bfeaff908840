SPECIFICATION FairStressSpec
CONSTANTS
  Configs <- AllConfigs
  Stops = TRUE
  MaxPulses = 2
INVARIANTS StressTypeOK PassMeansMet  PulsesTogether 
PROPERTY StressEnds
