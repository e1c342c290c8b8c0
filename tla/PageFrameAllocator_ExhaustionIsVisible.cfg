CONSTANTS
  PageSize = 16
  SlotBytes = 2
  ByteBits = 2
  CounterModulus = 17
  MemoryMaps <- MCMemoryMaps
  KernelStart = 0
  KernelPages = 2
  InterfaceMaps = {}
  MaxSpan = 2
SPECIFICATION MCSpec
CHECK_DEADLOCK FALSE
INVARIANT ExhaustionIsVisible
