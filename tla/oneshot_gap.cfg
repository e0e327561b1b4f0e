SPECIFICATION MCSpec
CONSTANTS
  left = left
  right = right
  Branches = {a}
  ReorgDepth = 0
  InitialTip = 3
  MaxHeight = 3
  RangeSize = 4
  PrePublished = {}
  StableDelay = 0
  Uploaders <- Alone
  FromHeight <- FromGenesis
  ToHeight <- ToLast
  UploadWorkers = 2
  ProbeStep = 2
  PutsConflict = FALSE
INVARIANTS IndexComplete
