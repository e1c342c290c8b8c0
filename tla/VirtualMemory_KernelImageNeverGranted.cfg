CONSTANTS
  PageSize = 32
  SlotBytes = 1
  ByteBits = 2
  CounterModulus = 64
  Radix = 8
  MemoryMap <- MCMemoryMap
  KernelStart = 0
  KernelPages = 2
  OwnPages <- MCOwnPages
  DevicePages <- MCDevicePages
  DeviceFrames <- MCDeviceFrames
  FlagSets <- MCFlagSets
  EntriesPerTable = 32
  PLM4KernelVASStartIndex = 8
  EntryBytes = 8
  u1 = u1
  u2 = u2
  Users <- MCUsers
  BootIndices <- MCBootIndices
  KernelIndices <- MCKernelIndices
  ImageAndHeap <- MCImageAndHeap
  UserIndices <- MCUserIndices
SPECIFICATION MCSpec
CHECK_DEADLOCK FALSE
INVARIANT KernelImageNeverGranted
