SPECIFICATION FairSpec
CONSTANTS
  Workers = {w1, w2}
  PrefetchWindow = 2
  RecentWalkLimit = 1
  BootstrapFromR2 = TRUE
  MaxHeight = 3
  RangeSize = 2
INVARIANTS WindowContiguous PendingAccounted ChannelsHaveRoom ParentConnected
PROPERTIES WaitsDrained RunEnds CatchesUp
