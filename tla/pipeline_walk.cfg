SPECIFICATION FairSpec
CONSTANTS
  Workers = {w1}
  PrefetchWindow = 2
  RecentWalkLimit = 0
  BootstrapFromR2 = FALSE
  MaxHeight = 3
  RangeSize = 2
PROPERTIES CatchesUp
