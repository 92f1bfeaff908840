SPECIFICATION FairSpec
CONSTANTS
  Workers = {w1, w2}
  MaxRecords = 2
  Runs <- AllRuns
  main = main
  pesm = pesm
  gm = gm
  NoThread = NoThread
INVARIANTS TypeOK WellFormed RecordsKept
PROPERTY RunEnds
