SPECIFICATION FairSpec
CONSTANTS
  Workers = {w1, w2}
  FromHeight = 1
  ToHeights <- Requests
  MaxHeight = 7
  RangeSize = 4
INVARIANTS Accounted UninterruptedIsComplete
PROPERTIES ResultIsFinal Returns
CHECK_DEADLOCK FALSE
