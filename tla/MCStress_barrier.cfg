SPECIFICATION StressSpec
CONSTANTS
  Configs <- BarrierConfigs
  Stops = TRUE
  MaxPulses = 1
INVARIANT NoneDeserted
