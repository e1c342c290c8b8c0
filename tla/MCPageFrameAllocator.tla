------------------------ MODULE MCPageFrameAllocator --------------------------
(* Small memory maps for TLC.  Pages of 16 bytes, slots of 2, "bytes" of 2 *)
(* bits: the metadata takes 2 or 3 pages and InitPush reaches about half   *)
(* of the memory.                                                          *)
EXTENDS PageFrameAllocator, AllocatorInterface

LoaderData == 2
BootServicesData == 4
MMIO == 11

Desc(type, page, numPages) == [type |-> type, page |-> page, numPages |-> numPages]

(* The kernel image (pages 0-1) lies in conventional memory, so its pages  *)
(* are on the stack when _start locks them.                                *)
ImageInFreeMemory ==
  <<Desc(ConventionalMemory, 0, 6), Desc(LoaderData, 6, 2),
    Desc(ConventionalMemory, 8, 8)>>

(* The bootloader's AllocatePages marked the kernel image as loader data.  *)
ImageReserved ==
  <<Desc(LoaderData, 0, 2), Desc(ConventionalMemory, 2, 12),
    Desc(BootServicesData, 14, 2)>>

(* Pages 4-5 are in no descriptor, the device is above the bitmap.         *)
WithHole ==
  <<Desc(BootServicesData, 0, 1), Desc(ConventionalMemory, 1, 3),
    Desc(ConventionalMemory, 6, 8), Desc(MMIO, 18, 1)>>

(* The device's page index is the one bit behind the bitmap.               *)
DeviceAtStrayBit ==
  <<Desc(ConventionalMemory, 0, 4), Desc(ConventionalMemory, 6, 8),
    Desc(MMIO, 14, 1)>>

(* Two largest segments; the image shares its pages with the metadata.     *)
Tie == <<Desc(ConventionalMemory, 0, 8), Desc(ConventionalMemory, 8, 8)>>

(* The metadata fills the largest segment to the last page, ...            *)
JustFits == <<Desc(ConventionalMemory, 0, 2), Desc(LoaderData, 2, 9)>>

(* ... does not fit because of the bitmap, because of the stack, at all.   *)
BitmapTooLarge == <<Desc(ConventionalMemory, 0, 2), Desc(LoaderData, 2, 10)>>
StackTooLarge == <<Desc(ConventionalMemory, 0, 1), Desc(LoaderData, 1, 7)>>
NoFreeMemory == <<Desc(LoaderData, 0, 3)>>

MCMemoryMaps ==
  {ImageInFreeMemory, ImageReserved, WithHole, DeviceAtStrayBit, Tie, JustFits,
   BitmapTooLarge, StackTooLarge, NoFreeMemory}

Reserved == 0

FirmwareBelow == <<Desc(Reserved, 0, 2), Desc(ConventionalMemory, 2, 4)>>

(* Six pages, of which the metadata takes two and the firmware keeps some. *)
MCInterfaceMaps ==
  {<<Desc(ConventionalMemory, 0, 5), Desc(Reserved, 5, 1)>>,
   FirmwareBelow,
   <<Desc(ConventionalMemory, 0, 2), Desc(Reserved, 2, 1), Desc(ConventionalMemory, 3, 3)>>}

-------------------------------------------------------------------------------
(* One run explores the allocator as the kernel calls it and, where that   *)
(* could not be constructed, one that gets every call of its interface.    *)
InterfaceRests ==
  /\ interfaceMap = FirmwareBelow
  /\ interfacePmm = Constructed(FirmwareBelow, FALSE)
  /\ owner = FirstOwners(FirmwareBelow, FALSE)

MCInit ==
  /\ Init
  /\ IF mMap = NoFreeMemory THEN InterfaceInit ELSE InterfaceRests

MCNext ==
  \/ Next /\ UNCHANGED interface
  \/ mMap = NoFreeMemory /\ InterfaceNext /\ UNCHANGED vars

MCSpec == MCInit /\ [][MCNext]_<<vars, interface>>

===============================================================================
