SPECIFICATION AppsSpec
CONSTANTS
  TileSz = 2
  Jobs <- NwJobs
  Tile = 2
  BfsJobs <- MCBfsJobs
  Cap = 2
  NumBins = 4
  BinsPerMutex = 2
  BinJobs <- MCBinJobs
CHECK_DEADLOCK FALSE
INVARIANTS
  LevelsAreDistances FrontierComplete
  Transposed
  TableIsRef
  SumsAreRight
  NothingLostOrDoubled
PROPERTIES
  EveryAppEnds
