--------------------------- MODULE MCVirtualMemory ----------------------------
(* 40 frames of 32 bytes and tables of 8 entries: half of the frames are   *)
(* on the stack, the identity map takes eight tables (five last-level      *)
(* ones), nine frames are left.                                            *)
EXTENDS VirtualMemory, UserAddressSpace

CONSTANTS u1, u2

MCMemoryMap ==
  <<[type |-> ConventionalMemory, page |-> 0, numPages |-> 4],
    [type |-> ConventionalMemory, page |-> 4, numPages |-> 36]>>

(* The identity map is under the first entry of PML4.  Two pages of one    *)
(* table.                                                                  *)
MCOwnPages == {512, 513}

(* A device page in the same table, one under another PDP entry.           *)
MCDevicePages == {515, 576}
MCDeviceFrames == {60}

(* growHeap's default and Mapping::map's for kernel data.                  *)
MCFlagSets == {{}, {"ReadWrite", "Global", "UserSupper"}}

(* Sixteen of the real PML4 entries make one: identity map at 0, processes *)
(* from 32, kernel image at 128, heap at 160, stack at 192, GDT and IDT at *)
(* 224; the 48 copied entries are three.                                   *)
MCUsers == {u1, u2}
MCBootIndices == {i \div 16 : i \in {0, 128, 160, 192, 224}}
MCImageAndHeap == {8, 10}
MCKernelIndices == {9, 15}
MCUserIndices == {2, 4}

-------------------------------------------------------------------------------
(* One run explores the tables of one address space below their PML4, and  *)
(* the PML4s of several address spaces, whose tables are only numbers; one *)
(* stays as _start left it while the other runs.                           *)
MCInit == Init /\ SpacesInit

MCNext ==
  \/ SpacesInit /\ Next /\ UNCHANGED userSpaces
  \/ Init /\ SpacesNext /\ UNCHANGED vars

MCSpec == MCInit /\ [][MCNext]_<<vars, userSpaces>>

===============================================================================
