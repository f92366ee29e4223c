SPECIFICATION PrefetchSpec
CONSTANTS
  pageLines = 3
  DemandLines = {0, 1, 2, 3}
  queueSize = 2
  degree = 2
  numEntries = 3
  demandReserve = 0
  Configs <- MCConfigs
  maxIssued = 4
INVARIANTS
  UsefulAccounted
  ThrottleWithinDegree
  NeverFetchedTwice
  NoPrefetchBehindDemand
