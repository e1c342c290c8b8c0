----------------------------- MODULE VirtualMemory -----------------------------
(***************************************************************************)
(* The four-level page tables of Memory::VirtualMemoryManager on top of    *)
(* the page frame allocator, as the kernel uses the two: _start maps all   *)
(* of physical memory to itself, afterwards pages with a frame of their    *)
(* own (the heap, the stack, GDT and IDT) and device pages are mapped and  *)
(* unmapped.  Tables live in frames the allocator handed out and are       *)
(* reached through the identity map.                                       *)
(***************************************************************************)
EXTENDS PageFrames

CONSTANTS
  Radix,          \* entries of a table                              (512)
  MemoryMap,      \* the firmware's memory map
  KernelStart,    \* first page of the kernel image
  KernelPages,    \* its pages
  OwnPages,       \* virtual pages the kernel maps to frames of their own
  DevicePages,    \* virtual pages it maps to devices
  DeviceFrames,   \* where those devices are
  FlagSets        \* flag arguments of MapMemory

(* The bits of PT_Flag the kernel sets.                                    *)
Flags == {"Present", "ReadWrite", "UserSupper", "CachedDisabled", "Global"}

ASSUME VirtualMemoryAssumption ==
  /\ Radix \in Nat \ {0, 1}
  /\ MemoryMap \in Seq(Descriptors)
  /\ KernelStart \in Nat /\ KernelPages \in Nat
  /\ OwnPages \union DevicePages \subseteq 0 .. Radix * Radix * Radix * Radix - 1
  /\ OwnPages \intersect DevicePages = {}
  /\ DeviceFrames \subseteq Nat
  /\ FlagSets \subseteq SUBSET Flags

(* Memory is not empty, and the kernel's virtual pages are above those the *)
(* identity map takes (memory_defines.h:6-24).                             *)
ASSUME IdentityAssumption ==
  /\ MemoryPages(MemoryMap) \in 1 .. Radix * Radix * Radix * Radix
  /\ (OwnPages \union DevicePages) \intersect (0 .. MemoryPages(MemoryMap) - 1) = {}

VARIABLES
  pmm,      \* PageFrameAllocator::KernelPMM
  tables,   \* the page tables: frame -> its entries
  root,     \* PML4Address
  identityPages   \* pages IdentityMapPhysicalMemory has mapped so far

vars == <<pmm, tables, root, identityPages>>

Image == Span(KernelStart, KernelPages)

-------------------------------------------------------------------------------
(* Entries.  An entry of value 0 is no frame and no flags.                 *)

ZeroEntry == [frame |-> 0, flags |-> {}]

EmptyTable == [i \in 0 .. Radix - 1 |-> ZeroEntry]

Present(entry) == "Present" \in entry.flags

(* SetAddress replaces the frame, SetFlag(_, true) adds flags.             *)
SetEntry(entry, frame, flags) ==
  [frame |-> frame, flags |-> entry.flags \union flags]

(* What is left of the page after each shift of getIndizes.                *)
Shifted(page) ==
  LET page1 == page \div Radix
      page2 == page1 \div Radix
  IN  <<page, page1, page2, page2 \div Radix>>

(* Mutant: the mask is one off.                                            *)
getIndizesMask(page) == [level \in 0 .. 3 |-> Shifted(page)[level + 1] % (Radix - 1)]

(* The index into the table of a level: 3 is PML4, 0 the last.             *)
getIndizes(page) == [level \in 0 .. 3 |-> Shifted(page)[level + 1] % Radix]

-------------------------------------------------------------------------------
(* One level down in MapMemory.  A walk is the allocator, the tables and   *)
(* the table reached; a missing table is requested and cleared.            *)

Walk(thePmm, theTables, table) == [pmm |-> thePmm, tables |-> theTables, at |-> table]

NewTable(walk, index) ==
  LET table == PageOf(RequestedAddress(walk.pmm))
      entry == SetEntry(walk.tables[walk.at][index], table, {"Present", "ReadWrite"})
  IN  Walk(RequestPage(walk.pmm),
           [f \in DOMAIN walk.tables \union {table} |->
              IF f = table THEN EmptyTable
              ELSE IF f = walk.at THEN [walk.tables[f] EXCEPT ![index] = entry]
              ELSE walk.tables[f]],
           table)

(* Mutant: a table is requested even if there is one.                      *)
DescendFresh(walk, index) == NewTable(walk, index)

Descend(walk, index) ==
  LET entry == walk.tables[walk.at][index]
  IN  IF Present(entry) THEN [walk EXCEPT !.at = entry.frame]
      ELSE NewTable(walk, index)

MapMemory(walk, page, frame, flags) ==
  LET index == getIndizes(page)
      last == Descend(Descend(Descend(walk, index[3]), index[2]), index[1])
  IN  [last EXCEPT !.tables[last.at][index[0]] =
                     SetEntry(@, frame, flags \union {"Present"}),
                   !.at = walk.at]

(* The tables on the way to a page, from PML4 on, as far as they exist.    *)
Path(theTables, page) ==
  LET index == getIndizes(page)
      pdp == theTables[root][index[3]]
      pd == theTables[pdp.frame][index[2]]
      pt == theTables[pd.frame][index[1]]
  IN  IF ~Present(pdp) THEN <<root>>
      ELSE IF ~Present(pd) THEN <<root, pdp.frame>>
      ELSE IF ~Present(pt) THEN <<root, pdp.frame, pd.frame>>
      ELSE <<root, pdp.frame, pd.frame, pt.frame>>

GetMapping(theTables, page) ==
  LET path == Path(theTables, page)
  IN  IF Len(path) < 4 THEN ZeroEntry
      ELSE theTables[path[4]][getIndizes(page)[0]]

(* Tables UnmapMemory finds empty, from the last one up, until the first   *)
(* that is not.  No parent's entry is cleared, so only the last can be.    *)
EmptyChain(theTables, path) ==
  CHOOSE n \in 0 .. 3 :
    /\ \A k \in 1 .. n : theTables[path[5 - k]] = EmptyTable
    /\ n < 3 => theTables[path[4 - n]] # EmptyTable

(* "GetMapping(PT).GetAddress()" is a frame number, FreePage takes it for  *)
(* an address.                                                             *)
FreeTable(thePmm, theTables, table) ==
  FreePage(thePmm, GetMapping(theTables, table).frame)

FreeTables(thePmm, theTables, path) ==
  LET freed[n \in 0 .. 3] ==
        IF n = 0 THEN thePmm ELSE FreeTable(freed[n - 1], theTables, path[5 - n])
  IN  freed[EmptyChain(theTables, path)]

(* Mutant: the entry of the neighbouring page is cleared.                  *)
UnmapMemoryNext(walk, page) ==
  LET path == Path(walk.tables, page)
      next == (getIndizes(page)[0] + 1) % Radix
  IN  IF Len(path) < 4 THEN walk
      ELSE [walk EXCEPT !.tables[path[4]][next] = ZeroEntry]

UnmapMemory(walk, page) ==
  LET path == Path(walk.tables, page)
      cleared == [walk.tables EXCEPT ![path[4]][getIndizes(page)[0]] = ZeroEntry]
  IN  IF Len(path) < 4 THEN walk
      ELSE Walk(FreeTables(walk.pmm, cleared, path), cleared, walk.at)

-------------------------------------------------------------------------------
(* _start: construct the allocator, lock the image, request and clear      *)
(* PML4, map physical memory to itself.                                    *)

Locked == LockPages(Constructed(MemoryMap, FALSE), KernelStart, KernelPages)

(* Pages are left once the image is locked.                                *)
ASSUME StartAssumption == Usable(Locked) # {}

PML4 == PageOf(RequestedAddress(Locked))

IdentityFlags == {"CachedDisabled", "ReadWrite", "Global", "UserSupper"}

Init ==
  /\ root = PML4
  /\ pmm = RequestPage(Locked)
  /\ tables = [f \in {PML4} |-> EmptyTable]
  /\ identityPages = 0

Mapping(page) == GetMapping(tables, page)

(* Requests the model follows: enough pages are left, and every word on    *)
(* the stack is from the start, none is a frame number that UnmapMemory    *)
(* took for an address (KernelImageNeverGranted, below, is about those).   *)
CanTake(n) ==
  /\ Cardinality(Usable(pmm)) >= n
  /\ \A k \in DOMAIN pmm.stack : k \in DOMAIN Locked.stack /\ pmm.stack[k] = Locked.stack[k]

MissingTables(page) == 4 - Len(Path(tables, page))

Become(walk) ==
  /\ pmm' = walk.pmm
  /\ tables' = walk.tables
  /\ UNCHANGED root

(* memorySizeBytes / 0x1000                                                *)
memorySize == MemoryPages(MemoryMap)

PhysicalPages == 0 .. memorySize - 1

Booted == identityPages = memorySize

(* One round of DeviceMapping::map's loop for the identity map.            *)
MapIdentity ==
  /\ ~Booted
  /\ CanTake(MissingTables(identityPages))
  /\ Become(MapMemory(Walk(pmm, tables, root),
                      identityPages, identityPages, IdentityFlags))
  /\ identityPages' = identityPages + 1

(* Mapping::map, SpecialMapping::map, growHeap, InitHeap: a frame is       *)
(* requested for the page, then MapMemory may request some for tables.     *)
MapOwn(page, flags) ==
  /\ Booted /\ UNCHANGED identityPages
  /\ ~Present(Mapping(page))
  /\ CanTake(1 + MissingTables(page))
  /\ Become(MapMemory(Walk(RequestPage(pmm), tables, root),
                      page, PageOf(RequestedAddress(pmm)), flags))

(* DeviceMapping::map and PhysicalMapping::map.                            *)
MapDevice(page, frame, flags) ==
  /\ Booted /\ UNCHANGED identityPages
  /\ CanTake(MissingTables(page))
  /\ Become(MapMemory(Walk(pmm, tables, root), page, frame, flags))

(* Mapping::unmap and shrinkHeap: the frame of the entry that was cleared  *)
(* goes back to the allocator.                                             *)
UnmapOwn(page) ==
  /\ Booted /\ UNCHANGED identityPages
  /\ Present(Mapping(page))
  /\ LET walk == UnmapMemory(Walk(pmm, tables, root), page)
     IN  Become([walk EXCEPT !.pmm = FreePage(@, Mapping(page).frame * PageSize)])

(* DeviceMapping::unmap and PhysicalMapping::unmap.                        *)
UnmapDevice(page) ==
  /\ Booted /\ UNCHANGED identityPages
  /\ Present(Mapping(page))
  /\ Become(UnmapMemory(Walk(pmm, tables, root), page))

Next ==
  \/ MapIdentity
  \/ \E page \in OwnPages, flags \in FlagSets : MapOwn(page, flags)
  \/ \E page \in DevicePages, frame \in DeviceFrames, flags \in FlagSets :
       MapDevice(page, frame, flags)
  \/ \E page \in OwnPages : UnmapOwn(page)
  \/ \E page \in DevicePages : UnmapDevice(page)

Spec == Init /\ [][Next]_vars

-------------------------------------------------------------------------------
Available == {PageOf(pmm.stack[k]) : k \in Usable(pmm)}

MappedOwnPages == {page \in OwnPages : Present(Mapping(page))}

Links(S) == {x \in S \X (0 .. Radix - 1) : Present(tables[x[1]][x[2]])}

Children(S) == {tables[x[1]][x[2]].frame : x \in Links(S)}

PDPs == Children({root})
PDs == Children(PDPs)
PTs == Children(PDs)

(* Types of the page tables (PageTable.h:22-52).                           *)
TypeOK ==
  /\ pmm \in Allocators(MemoryMap)
  /\ root \in DOMAIN tables
  /\ \A t \in DOMAIN tables :
       tables[t] \in [0 .. Radix - 1 -> [frame : Nat, flags : SUBSET Flags]]

(* The tables form a tree of four levels: every table but PML4 is entered  *)
(* in exactly one table of the level above, no frame is a table of two     *)
(* levels, and no table is lost.                                           *)
TablesFormTree ==
  /\ Cardinality(Links({root})) = Cardinality(PDPs)
  /\ Cardinality(Links(PDPs)) = Cardinality(PDs)
  /\ Cardinality(Links(PDs)) = Cardinality(PTs)
  /\ Cardinality(DOMAIN tables)
       = 1 + Cardinality(PDPs) + Cardinality(PDs) + Cardinality(PTs)
  /\ DOMAIN tables = {root} \union PDPs \union PDs \union PTs

(* The walks of MapMemory, UnmapMemory and GetMapping rely on both         *)
(* (VirtualMemoryManager.cpp:7-100).                                       *)
TablesWellFormed == TypeOK /\ TablesFormTree

(* Memory has one use: a frame that holds a table is not mapped as a page  *)
(* of the kernel's own and is not in the pool, and no two pages share a    *)
(* frame.                                                                  *)
FramesHaveOneUse ==
  /\ DOMAIN tables \intersect Available = {}
  /\ \A page \in MappedOwnPages :
       /\ Mapping(page).frame \notin DOMAIN tables \union Available
       /\ \A other \in MappedOwnPages :
            Mapping(page).frame = Mapping(other).frame => page = other

(* MapMemory and UnmapMemory reach tables by their physical address; after *)
(* the switch to the new PML4 that is the identity map, which no call on   *)
(* another page disturbs.                                                  *)
IdentityMapIntact ==
  \A frame \in 0 .. identityPages - 1 :
    Mapping(frame) = [frame |-> frame, flags |-> {"Present"} \union IdentityFlags]

(* The processor lets user mode through only if all four entries say so.   *)
(* The identity map is for "only Super User Access" (memory_defines.h:6),  *)
(* although DeviceMapping::map sets UserSupper in its last entry.          *)
SupervisorOnly ==
  \A page \in OwnPages \union DevicePages \union PhysicalPages :
    LET path == Path(tables, page)
    IN  Len(path) = 4 =>
          \E k \in 1 .. 4 : "UserSupper" \notin tables[path[k]][getIndizes(page)[4 - k]].flags

(* No call on another page changes what is reached through the identity    *)
(* map, and no call lets user mode reach it (memory_defines.h:6).          *)
IdentityMapIsKept == IdentityMapIntact /\ SupervisorOnly

(* A table, once entered, stays where it is for good: UnmapMemory neither  *)
(* clears the parent's entry nor gives the frame back.                     *)
TablesStay ==
  [][/\ DOMAIN tables \subseteq DOMAIN tables'
     /\ \A page \in OwnPages \union DevicePages :
          \A k \in DOMAIN Path(tables, page) :
            /\ k \in DOMAIN Path(tables', page)
            /\ Path(tables', page)[k] = Path(tables, page)[k]]_vars

(* Seen through GetMapping the four levels are one map that changes one    *)
(* page at a time, ...                                                     *)
Translations == INSTANCE AddressMap
  WITH Pages <- OwnPages \union DevicePages,
       Targets <- DeviceFrames \union PhysicalPages,
       Unmapped <- ZeroEntry,
       mapping <- [page \in OwnPages \union DevicePages |-> Mapping(page)]

RefinesAddressMap == Translations!Spec

(* ... and each call makes the change it was asked for: the page of its    *)
(* argument, the frame that was requested or given, the flags, no other.   *)
CallsMatchAddressMap ==
  [][/\ \A page \in OwnPages :
          /\ UnmapOwn(page) => Translations!Unmap(page)
          /\ \A flags \in FlagSets :
               MapOwn(page, flags) =>
                 Translations!Map(page, PageOf(RequestedAddress(pmm)), flags)
     /\ \A page \in DevicePages :
          /\ UnmapDevice(page) => Translations!Unmap(page)
          /\ \A frame \in DeviceFrames, flags \in FlagSets :
               MapDevice(page, frame, flags) => Translations!Map(page, frame, flags)]_vars

(* All of it, of every step (VirtualMemoryManager.cpp:7-100).              *)
KeepsAddressMap == RefinesAddressMap /\ CallsMatchAddressMap /\ TablesStay

(* "Locked Kernel Pages" (_start.cpp:103): the next page RequestPage hands *)
(* out is never one of the kernel image.                                   *)
KernelImageNeverGranted ==
  Usable(pmm) # {} => PageOf(RequestedAddress(pmm)) \notin Image

===============================================================================
