SPECIFICATION Spec
CONSTANTS
  MaxWord = 11
  RangeSizes <- Sizes
  StableDelays <- Delays
  HashSize = 2
INVARIANTS CoversRequest IndexReadsBack
PROPERTIES Ends
CHECK_DEADLOCK FALSE
