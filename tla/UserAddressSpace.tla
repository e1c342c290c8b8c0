--------------------------- MODULE UserAddressSpace ----------------------------
(***************************************************************************)
(* Address spaces beside the kernel's: newUserVAS gives each a PML4 of its *)
(* own into which entries of the kernel's are copied once.  From then on   *)
(* both maps change on their own; what they share are the tables below the *)
(* copied entries.  Only the PML4s are modelled.                           *)
(***************************************************************************)
EXTENDS MemoryLayout, FiniteSets

CONSTANT Users   \* address spaces newUserVAS makes

ASSUME UsersAssumption == IsFiniteSet(Users)

VARIABLES
  kernel,     \* entries of the kernel's PML4: its next table, or Absent
  spaces,     \* entries of the PML4 of each address space made so far
  requested   \* tables the allocator handed out

userSpaces == <<kernel, spaces, requested>>

Absent == 0

(* RequestPage hands out a page nobody has (NoDoubleAllocation of          *)
(* PageFrameAllocator).                                                    *)
Fresh == requested + 1

(* What _start and main leave.                                             *)
SpacesInit ==
  /\ kernel = [i \in Indices |-> IF i \in BootIndices THEN i + 1 ELSE Absent]
  /\ spaces = << >>
  /\ requested = EntriesPerTable

(* Mutant: the Present bit is not looked at.                               *)
MappedAnew(entries, i) == [entries EXCEPT ![i] = Fresh]

(* The part of MapMemory that concerns the PML4.                           *)
Mapped(entries, i) == [entries EXCEPT ![i] = IF @ = Absent THEN Fresh ELSE @]

Take(needed) == requested' = IF needed THEN Fresh ELSE requested

KernelMaps(i) ==
  /\ kernel' = Mapped(kernel, i)
  /\ Take(kernel[i] = Absent)
  /\ UNCHANGED spaces

UserMaps(u, i) ==
  /\ u \in DOMAIN spaces
  /\ spaces' = [spaces EXCEPT ![u] = Mapped(@, i)]
  /\ Take(spaces[u][i] = Absent)
  /\ UNCHANGED kernel

(* Mutant: as many bytes are copied from the start of the PML4.            *)
CopiedFromStart == 0 .. ((EntriesPerTable - PLM4KernelVASStartIndex) \div EntryBytes) - 1

(* "512 - PLM4KernelVASStartIndex", which memcpy takes for bytes.          *)
Copied ==
  PLM4KernelVASStartIndex ..
    PLM4KernelVASStartIndex + ((EntriesPerTable - PLM4KernelVASStartIndex) \div EntryBytes) - 1

newUserVAS(u) ==
  /\ u \notin DOMAIN spaces
  /\ spaces' = [v \in DOMAIN spaces \union {u} |->
       IF v = u THEN [i \in Indices |-> IF i \in Copied THEN kernel[i] ELSE Absent]
       ELSE spaces[v]]
  /\ Take(TRUE)
  /\ UNCHANGED kernel

SpacesNext ==
  \/ \E i \in BootIndices \union KernelIndices : KernelMaps(i)
  \/ \E u \in Users : newUserVAS(u) \/ \E i \in UserIndices : UserMaps(u, i)

SpacesSpec == SpacesInit /\ [][SpacesNext]_userSpaces

-------------------------------------------------------------------------------
(* Types of the PML4s; the allocator is asked once for each table, so it   *)
(* need not have more pages than there are entries for tables.             *)
SpacesTypeOK ==
  /\ kernel \in [Indices -> Absent .. requested]
  /\ DOMAIN spaces \subseteq Users
  /\ \A u \in DOMAIN spaces : spaces[u] \in [Indices -> Absent .. requested]
  /\ requested <= EntriesPerTable
       + Cardinality(KernelIndices) + Cardinality(Users) * (1 + Cardinality(UserIndices))

(* The copies of the entries of the image and the heap are made and never  *)
(* get stale: the kernel's tables stay where they are, so what the kernel  *)
(* maps below them, as its heap grows, is mapped for every process.        *)
(* (VirtualAddressSpace.cpp:24, VirtualMemoryManager.cpp:14-23)            *)
KernelTablesAreShared ==
  /\ SpacesTypeOK
  /\ \A u \in DOMAIN spaces : \A i \in ImageAndHeap : spaces[u][i] = kernel[i]

(* A process reaches no other table of the kernel's and none of another    *)
(* process, whatever any of them maps after or before it was made.         *)
ProcessesAreApart ==
  \A u \in DOMAIN spaces : \A i, j \in Indices :
    spaces[u][i] # Absent =>
      /\ kernel[j] = spaces[u][i] => i = j /\ i >= PLM4KernelVASStartIndex
      /\ \A v \in DOMAIN spaces \ {u} :
           spaces[v][j] = spaces[u][i] => i = j /\ spaces[u][i] = kernel[i]

===============================================================================
