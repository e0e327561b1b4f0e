SPECIFICATION MCSpec
CONSTANTS
  Branches = {a, b}
  ReorgDepth = 1
  InitialTip = 1
  MaxHeight = 4
  RangeSize = 3
  PrePublished = {}
  StableDelay = 2
  FromHeight = 2
  ToHeight <- NoHeight
  UploadWorkers = 2
  ProbeStep = 2
INVARIANTS TailArchived IndexComplete
PROPERTIES CacheCurrent QuietChainRests StableRangesPublished
