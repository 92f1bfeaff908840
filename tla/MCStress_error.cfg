SPECIFICATION StressSpec
CONSTANTS
  Configs <- ErrorConfigs
  Stops = FALSE
  MaxPulses = 1
INVARIANT ErrorFailsAction
