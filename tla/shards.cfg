SPECIFICATION MCSpec
CONSTANTS
  left = left
  right = right
  Branches = {a, b}
  ReorgDepth = 1
  InitialTip = 2
  MaxHeight = 3
  RangeSize = 3
  PrePublished = {}
  StableDelay = 0
  Uploaders <- Overlapping
  FromHeight <- FromLeft
  ToHeight <- ToRight
  UploadWorkers = 1
  ProbeStep = 2
  PutsConflict = TRUE
INVARIANTS CalmIndexComplete
PROPERTIES IndexNeverReplaced GoodRunComplete
