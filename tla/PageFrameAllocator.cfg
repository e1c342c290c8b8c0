CONSTANTS
  PageSize = 16
  SlotBytes = 2
  ByteBits = 2
  CounterModulus = 17
  MemoryMaps <- MCMemoryMaps
  KernelStart = 0
  KernelPages = 2
  InterfaceMaps <- MCInterfaceMaps
  MaxSpan = 2
SPECIFICATION MCSpec
CHECK_DEADLOCK FALSE
INVARIANTS
  NoDoubleAllocation
  PinnedNeverHandedOut
  CountersAreTrue
  RequestableOnce
  BitsMatchOwners
PROPERTIES
  SupplyNeverGrows
  RefinesFrameSource
