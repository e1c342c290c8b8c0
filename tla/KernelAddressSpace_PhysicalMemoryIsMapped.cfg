CONSTANTS
  PageSize = 16
  SlotBytes = 1
  ByteBits = 2
  CounterModulus = 64
  KERNEL_IMAGE_START = 100
  HEAP_START = 110
  STACK_START = 120
  GDT_VIRTUAL_MEMORY_POS = 130
  IDT_VIRTUAL_MEMORY_POS = 131
  INIT_HEAP_SIZE = 2
  STACK_SIZE = 2
  HEAP_STEP = 1
  MaxHeapSize = 6
  TableEntries = 2
  MemoryMaps <- MCMemoryMaps
  Images <- MCImages
  Framebuffers <- MCFramebuffers
  Pages <- MCPages
  FirmwareUse <- MCFirmwareUse
  MaxFirmware = 3
  RootFrame = 9
  IdentityFrame = 10
  Segments <- MCSegments
  PageBytes = 16
  Radix = 2
SPECIFICATION MCSpec
CHECK_DEADLOCK FALSE
INVARIANT PhysicalMemoryIsMapped
