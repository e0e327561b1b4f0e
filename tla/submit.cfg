SPECIFICATION FairSpec
CONSTANTS
  a = a
  b = b
  Branches = {a, b}
  Mined <- Fork
  Main <- LongBranch
  Rejected <- StaleTop
  InitialTip <- ForkPoint
  RangeSize = 2
  StableDelay = 1
  RecentWalkLimit = 1
  BootstrapFromR2 = TRUE
  Follow = TRUE
INVARIANTS WalkArrives SubmitsNextOnOneBranch
PROPERTIES WalksViableBranch SubmittedIsActive SubmittedIsHeld LimitMeansPublished CatchesUp
