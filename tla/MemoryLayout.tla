----------------------------- MODULE MemoryLayout ------------------------------
(***************************************************************************)
(* The regions of memory_defines.h, as indices of a PML4.                  *)
(***************************************************************************)
EXTENDS Integers

CONSTANTS
  EntriesPerTable,            \* entries of a PML4                    (512)
  PLM4KernelVASStartIndex,    \*                                      (128)
  EntryBytes,                 \* sizeof(PageDirectoryEntry)             (8)
  BootIndices,     \* PML4 indices that _start and main map at
  ImageAndHeap,    \* those of the kernel's image and heap
  KernelIndices,   \* further indices the kernel may map at
  UserIndices      \* indices of processes

Indices == 0 .. EntriesPerTable - 1

ASSUME MemoryLayoutAssumption ==
  /\ EntriesPerTable \in Nat /\ EntryBytes \in Nat \ {0}
  /\ PLM4KernelVASStartIndex \in Indices
  /\ BootIndices \union KernelIndices \union UserIndices \subseteq Indices
  /\ ImageAndHeap \subseteq BootIndices
  /\ \A i \in UserIndices : i < PLM4KernelVASStartIndex
  /\ UserIndices \intersect (BootIndices \union KernelIndices) = {}

(* The image and the heap are among the entries newUserVAS copies: 160 is  *)
(* below 128 + 48.                                                         *)
ASSUME HeapIsCopied ==
  \A i \in ImageAndHeap :
    /\ i >= PLM4KernelVASStartIndex
    /\ i - PLM4KernelVASStartIndex < (EntriesPerTable - PLM4KernelVASStartIndex) \div EntryBytes

===============================================================================
