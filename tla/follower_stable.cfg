SPECIFICATION Spec
CONSTANTS
  Branches = {a, b}
  ReorgDepth = 1
  InitialTip = 0
  MaxHeight = 4
  RangeSize = 2
  PrePublished = {}
  StableDelay = 1
  FromHeight = 1
  ToHeight = 3
  UploadWorkers = 2
  ProbeStep = 2
INVARIANTS IndexMatchesChain
PROPERTIES ImplementsArchive
