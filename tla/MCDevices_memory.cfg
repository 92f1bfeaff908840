SPECIFICATION DevicesSpec
CONSTANTS
  Jobs <- JobsV
  MaxTurns = 3
  MaxFreq = 1
  MemConfs <- FaultyV
  Stride = 2
  Save = 1
  Wrap = 8
  Patterns = 2
  MaxRounds = 2
  BabelConfs <- BabelConfsV
  Modulus = 7
  MaxTimed = 2
  MaxTurnsOfAction = 2
  HsaJobs <- HsaJobsV
  MaxFailures = 1
  MaxCopies = 2
  Ticks = 3
  StandingParts <- StandingV
INVARIANT ErrorsReported
CHECK_DEADLOCK FALSE
