------------------------- MODULE MCKernelAddressSpace --------------------------
(* Pages of 16 bytes; the regions of memory_defines.h, ten pages apart.    *)
EXTENDS KernelAddressSpace, Bootloader

LoaderData == 2
Desc(type, page, numPages) == [type |-> type, page |-> page, numPages |-> numPages]

(* All of memory in one piece, and with a hole of four pages.              *)
MCMemoryMaps ==
  {<<Desc(LoaderData, 0, 4), Desc(ConventionalMemory, 4, 32)>>,
   <<Desc(LoaderData, 0, 4), Desc(ConventionalMemory, 4, 16),
     Desc(ConventionalMemory, 24, 16)>>}

(* _KernelROEnd and _KernelEnd inside of a page and on its boundary.       *)
MCImages ==
  {[ro |-> 20, bytes |-> 40], [ro |-> 16, bytes |-> 40],
   [ro |-> 20, bytes |-> 48], [ro |-> 32, bytes |-> 33]}

(* A framebuffer above memory, and one in the hole that does not end on a  *)
(* page boundary.                                                          *)
MCFramebuffers ==
  {[page |-> 50, BufferSize |-> 32], [page |-> 21, BufferSize |-> 40]}

(* For the bootloader ten pages and tables of two entries; a kernel of two *)
(* segments on three pages that need two page tables.  The firmware uses   *)
(* the last two or three pages, or also one of those the kernel is linked  *)
(* to.                                                                     *)
MCPages == 0 .. 10

MCFirmwareUse == {{9, 10}, {7, 9, 10}, {1, 9, 10}}

MCSegments ==
  <<[p_paddr |-> 0, p_vaddr |-> 9, p_memsz |-> 16],
    [p_paddr |-> 1, p_vaddr |-> 10, p_memsz |-> 17]>>

-------------------------------------------------------------------------------
(* One run explores the bootloader up to its jump to _start, and the       *)
(* kernel from there on, with the tables a bootloader leaves; one stays at *)
(* its first statement while the other runs.                               *)
Loading ==
  <<CHOOSE m \in MemoryMaps : TRUE, CHOOSE i \in Images : TRUE,
    CHOOSE f \in Framebuffers : TRUE>>

FirmwareMemory == CHOOSE m \in [Pages -> {"free", "firmware"}] :
  {p \in Pages : m[p] = "firmware"} = CHOOSE use \in FirmwareUse : TRUE

MCInit == Init /\ EfiInit /\ (boot = Loading \/ memory = FirmwareMemory)

MCNext ==
  \/ EfiInit /\ memory = FirmwareMemory /\ Next /\ UNCHANGED efi
  \/ boot = Loading /\ step = 0 /\ EfiNext /\ UNCHANGED vars

MCSpec == MCInit /\ [][MCNext]_<<vars, efi>>

===============================================================================
