CONSTANTS
  HeaderSize = 2
  HeaderElements = 32
  PageSize = 8
  Begin = 8
  INIT_HEAP_SIZE = 2
  MIN_HEAP_GROWTH_PAGES = 1
  HEAP_SHRINK = 1
  Sizes <- MCSizes
  Frames = 2
  Overstatements <- MCOverstatements
SPECIFICATION Spec
INVARIANTS
  NoHeapCorruption
CHECK_DEADLOCK FALSE
