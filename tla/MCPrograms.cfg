SPECIFICATION Spec
CONSTANTS
  MAX_CALLS = 3
  RingMin = 1
  ScratchCap = 40
  Base = 3
  Widths = {1, 2}
  BUFFER_SCAN_CAP = 3
  MAX_UNIQUE_PAIRS = 2
  MAX_CANDIDATES = 6
  NULL = NULL
  WILD = WILD
  Descs <- MCDescs
  DataVals <- MCDataVals
INVARIANTS TypeOK WellFormed SubsetThreads OneMinimal ThreadDelivered ScratchSound
PROPERTY NoRewire
