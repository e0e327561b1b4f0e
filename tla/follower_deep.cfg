SPECIFICATION Spec
CONSTANTS
  Branches = {a, b}
  ReorgDepth = 2
  InitialTip = 3
  MaxHeight = 3
  RangeSize = 2
  PrePublished = {0}
  StableDelay = 0
  FromHeight = 1
  ToHeight <- NoHeight
  UploadWorkers = 1
  ProbeStep = 2
INVARIANTS TypeOK BoundaryCached LastTipManaged
PROPERTIES UploadsNotEmpty AlarmJustified
