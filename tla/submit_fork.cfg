SPECIFICATION Spec
CONSTANTS
  a = a
  b = b
  Branches = {a, b}
  Mined <- Fork
  Main <- LongBranch
  Rejected <- None
  InitialTip <- StaleBlock
  RangeSize = 3
  StableDelay = 0
  RecentWalkLimit = 1
  BootstrapFromR2 = FALSE
  Follow = FALSE
INVARIANTS SubmitsNextMissing
