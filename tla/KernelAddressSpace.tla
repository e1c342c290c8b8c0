-------------------------- MODULE KernelAddressSpace --------------------------
(***************************************************************************)
(* How _start builds the kernel's address space beside the one the         *)
(* bootloader left in CR3, switches to it, and how it changes afterwards.  *)
(* VirtualAddressSpace keeps a list of Mappings beside the page tables;    *)
(* growHeap and shrinkHeap change both by hand.                            *)
(*                                                                         *)
(* A page table is a function from virtual pages to entries here; that the *)
(* four levels are one is RefinesAddressMap of VirtualMemory.  Of the      *)
(* tables themselves only the last level of the heap has frames here: it   *)
(* is what UnmapMemory can empty.                                          *)
(***************************************************************************)
EXTENDS PageFrames

CONSTANTS
  KERNEL_IMAGE_START, HEAP_START, STACK_START,       \* virtual pages
  GDT_VIRTUAL_MEMORY_POS, IDT_VIRTUAL_MEMORY_POS,
  INIT_HEAP_SIZE, STACK_SIZE,     \* pages                          (10, 20)
  HEAP_STEP,                      \* MIN_HEAP_GROWTH_PAGES, HEAP_SHRINK (10)
  MaxHeapSize,                    \* pages to which the model lets it grow
  TableEntries,                   \* entries of a table            (512)
  MemoryMaps,                     \* memory maps of the firmware
  Images,                         \* kernel images: bytes to _KernelROEnd
                                  \* and to _KernelEnd
  Framebuffers                    \* first page and BufferSize

ASSUME KernelAddressSpaceAssumption ==
  /\ MemoryMaps \subseteq Seq(Descriptors)
  /\ Images \subseteq [ro : Nat \ {0}, bytes : Nat \ {0}]
  /\ Framebuffers \subseteq [page : Nat, BufferSize : Nat]
  /\ INIT_HEAP_SIZE \in Nat \ {0} /\ HEAP_STEP \in Nat \ {0}

(* The regions of memory_defines.h:6-24 are apart, above physical memory   *)
(* and the framebuffer and as large as the model lets them become; there   *)
(* is memory, _KernelROEnd is not behind _KernelEnd, and the first heap is *)
(* too small for shrinkHeap.                                               *)
ASSUME LayoutAssumption ==
  /\ {KERNEL_IMAGE_START, HEAP_START, STACK_START,
      GDT_VIRTUAL_MEMORY_POS, IDT_VIRTUAL_MEMORY_POS} \subseteq Nat
  /\ STACK_SIZE \in Nat /\ MaxHeapSize \in Nat
  /\ INIT_HEAP_SIZE <= MaxHeapSize /\ INIT_HEAP_SIZE <= 2 * HEAP_STEP
  /\ \A m \in MemoryMaps : MemoryPages(m) > 0
  /\ \A i \in Images : i.ro <= i.bytes
  /\ \A m \in MemoryMaps, i \in Images, f \in Framebuffers :
       LET low == (0 .. MemoryPages(m) - 1) \union (UNION {PagesOf(m[k]) : k \in DOMAIN m})
                    \union Span(f.page, f.BufferSize \div PageSize + 1)
           kernel == Span(KERNEL_IMAGE_START, i.bytes \div PageSize + 1)
           heap == Span(HEAP_START, MaxHeapSize)
           stack == Span(STACK_START, STACK_SIZE)
           special == {GDT_VIRTUAL_MEMORY_POS, IDT_VIRTUAL_MEMORY_POS}
       IN  /\ low \intersect (kernel \union heap \union stack \union special) = {}
           /\ kernel \intersect (heap \union stack \union special) = {}
           /\ heap \intersect (stack \union special) = {}
           /\ stack \intersect special = {}
           /\ GDT_VIRTUAL_MEMORY_POS # IDT_VIRTUAL_MEMORY_POS

(* The page table of the last level that has the entry of a page.          *)
TableOf(page) == page \div TableEntries

(* The heap starts with a table of its own, and no other region of the     *)
(* kernel starts in one of its tables (memory_defines.h).                  *)
ASSUME TablesAssumption ==
  /\ TableEntries \in Nat \ {0}
  /\ HEAP_START % TableEntries = 0
  /\ \A page \in Span(HEAP_START, MaxHeapSize) :
       TableOf(page) \notin {TableOf(start) : start \in
         {KERNEL_IMAGE_START, STACK_START, GDT_VIRTUAL_MEMORY_POS, IDT_VIRTUAL_MEMORY_POS}}

VARIABLES
  mMap, image, framebuffer,   \* fixed at boot
  step,        \* statements of _start and main that were executed
  pmm,         \* PageFrameAllocator::KernelPMM
  old_vmm,     \* the tables of the bootloader
  vmm,         \* KernelVAS.vmm
  mappings,    \* KernelVAS.mappings
  heapSize,    \* kernelHeap.size, in pages
  heapTables,  \* the heap's tables of the last level: their frames
  panic,       \* the message of the Panic that stopped the kernel
  unlocked     \* history: pages in use that UnmapMemory gave to FreePage

boot == <<mMap, image, framebuffer>>
vars == <<boot, step, pmm, old_vmm, vmm, mappings, heapSize, heapTables, panic, unlocked>>

-------------------------------------------------------------------------------
(* The image.  kernel.ld starts .data on a page of its own, behind         *)
(* _KernelROEnd.                                                           *)

(* Mutants: the last page of the image, or of its read-only part, is left  *)
(* out.                                                                    *)
kernelSizePagesDown == image.bytes \div PageSize

kernelROSizePagesDown == image.ro \div PageSize

kernelSizePages == image.bytes \div PageSize + 1

kernelROSizePages == image.ro \div PageSize + 1

(* Pages the bootloader loaded and mapped.                                 *)
LoadedPages == (image.bytes + PageSize - 1) \div PageSize

memorySize == MemoryPages(mMap)

DescribedPages == UNION {PagesOf(mMap[i]) : i \in DOMAIN mMap}

-------------------------------------------------------------------------------
(* Page tables and Mappings.                                               *)

FlagsOf(space, page) == IF page \in DOMAIN space THEN space[page].flags ELSE {}

(* MapMemory for size pages from start on, to the frames of a function.    *)
MapRange(space, start, size, frames, flags) ==
  [page \in DOMAIN space \union Span(start, size) |->
     IF page \in Span(start, size)
     THEN [frame |-> frames[page - start],
           flags |-> FlagsOf(space, page) \union flags \union {"Present"}]
     ELSE space[page]]

Linear(start, size) == [i \in 0 .. size - 1 |-> start + i]

(* RequestPage size times: the frames and the allocator afterwards.        *)
Requested(size) ==
  LET after[n \in 0 .. size] == IF n = 0 THEN pmm ELSE RequestPage(after[n - 1])
  IN  [pmm |-> after[size],
       frames |-> [i \in 0 .. size - 1 |-> PageOf(RequestedAddress(after[i]))]]

(* Each page of the heap requests its frame and then, in MapMemory, the    *)
(* frame of its table if there is none yet.                                *)
NeedsTable(start, page) ==
  /\ TableOf(page) \notin DOMAIN heapTables
  /\ \A before \in start .. page - 1 : TableOf(before) # TableOf(page)

(* The requests of the pages from start on before this one.                *)
Asked(start, page) ==
  page - start + Cardinality({before \in start .. page - 1 : NeedsTable(start, before)})

LeafFrames(start, size, frames) ==
  [i \in 0 .. size - 1 |-> frames[Asked(start, start + i)]]

WithTables(start, size, frames) ==
  LET new == {page \in Span(start, size) : NeedsTable(start, page)}
  IN  [table \in DOMAIN heapTables \union {TableOf(page) : page \in new} |->
         IF table \in DOMAIN heapTables THEN heapTables[table]
         ELSE frames[Asked(start, CHOOSE page \in new : TableOf(page) = table) + 1]]

RequestedForHeap(start, size) ==
  LET requested == Requested(Asked(start, start + size))
  IN  [pmm |-> requested.pmm,
       frames |-> LeafFrames(start, size, requested.frames),
       tables |-> WithTables(start, size, requested.frames)]

MappingOf(start, size, type) == [start |-> start, size |-> size, type |-> type]

KernelFlags == {"Global", "UserSupper"}

(* The flags each map() passes on for its mapping of the kernel.           *)
MapFlags(type) ==
  CASE type = "ProcessCode" -> KernelFlags
    [] type \in {"ProcessData", "ProcessStack"} -> {"ReadWrite"} \union KernelFlags
    [] type = "Device" -> {"CachedDisabled", "ReadWrite"} \union KernelFlags
    [] type = "Special" -> {"ReadWrite", "CachedDisabled", "UserSupper"}

Contains(mapping, page) == page \in Span(mapping.start, mapping.size)

(* The first mapping that contains the page.                               *)
mappingForAddressIndex(page) ==
  CHOOSE i \in DOMAIN mappings :
    /\ Contains(mappings[i], page)
    /\ \A j \in DOMAIN mappings : Contains(mappings[j], page) => i <= j

(* vector::contains: end() is the last element, so that one is not seen.   *)
ContainsMapping(mapping) ==
  \E i \in 1 .. Len(mappings) - 1 : mappings[i] = mapping

-------------------------------------------------------------------------------
BootSteps ==
  <<"InitHeap", "AddHeapMapping", "MapKernelCode", "MapKernelData",
    "IdentityMapPhysicalMemory", "MapFramebuffer", "MapStack", "LoadPLM4",
    "SetupGDT", "SetupIDT">>

Done(name) == \E k \in 1 .. step : BootSteps[k] = name

(* The next statement of _start and main, which nothing interrupts.        *)
Run(name) ==
  /\ panic = "none"
  /\ step < Len(BootSteps) /\ BootSteps[step + 1] = name
  /\ step' = step + 1
  /\ UNCHANGED <<boot, panic>>

(* What the bootloader leaves: the firmware's identity map of what it      *)
(* described and of the framebuffer, and the loaded segments.              *)
BootloaderTables ==
  LET identity ==
        DescribedPages
          \union Span(framebuffer.page,
                      (framebuffer.BufferSize + PageSize - 1) \div PageSize)
  IN  MapRange([page \in identity |->
                  [frame |-> page, flags |-> {"Present", "ReadWrite"}]],
               KERNEL_IMAGE_START, LoadedPages, Linear(0, LoadedPages), {"ReadWrite"})

Init ==
  /\ mMap \in MemoryMaps /\ image \in Images /\ framebuffer \in Framebuffers
  /\ ~ConstructorPanics(mMap)
  /\ pmm = LockPages(Constructed(mMap, FALSE), 0, kernelSizePages)
  /\ step = 0
  /\ old_vmm = BootloaderTables
  /\ vmm = << >>
  /\ mappings = << >>
  /\ heapSize = 0
  /\ heapTables = << >>
  /\ panic = "none"
  /\ unlocked = {}

CanRequest(size) == Cardinality(Usable(pmm)) >= size

HeapFlags == {"ReadWrite", "UserSupper"}

(* Behaviours end where a table would lie on a page that UnmapMemory       *)
(* unlocked: it would overwrite what is there.                             *)
CanRequestForHeap(start, size) ==
  /\ CanRequest(Asked(start, start + size))
  /\ LET tables == RequestedForHeap(start, size).tables
     IN  \A table \in DOMAIN tables : tables[table] \notin unlocked

InitHeap ==
  LET requested == RequestedForHeap(HEAP_START, INIT_HEAP_SIZE)
  IN  /\ Run("InitHeap")
      /\ CanRequestForHeap(HEAP_START, INIT_HEAP_SIZE)
      /\ pmm' = requested.pmm
      /\ vmm' = MapRange(vmm, HEAP_START, INIT_HEAP_SIZE, requested.frames, HeapFlags)
      /\ old_vmm' = MapRange(old_vmm, HEAP_START, INIT_HEAP_SIZE, requested.frames, HeapFlags)
      /\ heapSize' = INIT_HEAP_SIZE
      /\ heapTables' = requested.tables
      /\ UNCHANGED <<mappings, unlocked>>

AddHeapMapping ==
  /\ Run("AddHeapMapping")
  /\ mappings' = Append(mappings, MappingOf(HEAP_START, INIT_HEAP_SIZE, "ProcessData"))
  /\ UNCHANGED <<pmm, old_vmm, vmm, heapSize, heapTables, unlocked>>

(* VirtualAddressSpace::map for a Mapping to given frames, ...             *)
MapTo(mapping, frame) ==
  /\ vmm' = MapRange(vmm, mapping.start, mapping.size,
                     Linear(frame, mapping.size), MapFlags(mapping.type))
  /\ mappings' = Append(mappings, mapping)
  /\ UNCHANGED <<pmm, old_vmm, heapSize, heapTables, unlocked>>

(* ... and for one to frames of its own.                                   *)
MapOwn(mapping) ==
  LET requested == Requested(mapping.size)
  IN  /\ CanRequest(mapping.size)
      /\ pmm' = requested.pmm
      /\ vmm' = MapRange(vmm, mapping.start, mapping.size,
                         requested.frames, MapFlags(mapping.type))
      /\ mappings' = Append(mappings, mapping)
      /\ UNCHANGED <<old_vmm, heapSize, heapTables, unlocked>>

MapKernelCode ==
  /\ Run("MapKernelCode")
  /\ MapTo(MappingOf(KERNEL_IMAGE_START, kernelROSizePages, "ProcessCode"), 0)

(* _kernelROStart is the first page boundary above _KernelROEnd.           *)
MapKernelData ==
  /\ Run("MapKernelData")
  /\ MapTo(MappingOf(KERNEL_IMAGE_START + kernelROSizePages,
                     kernelSizePages - kernelROSizePages, "ProcessData"),
           kernelROSizePages)

IdentityMapPhysicalMemory ==
  /\ Run("IdentityMapPhysicalMemory")
  /\ MapTo(MappingOf(0, memorySize, "Device"), 0)

MapFramebuffer ==
  /\ Run("MapFramebuffer")
  /\ MapTo(MappingOf(framebuffer.page, framebuffer.BufferSize \div PageSize, "Device"),
           framebuffer.page)

MapStack ==
  /\ Run("MapStack")
  /\ MapOwn(MappingOf(STACK_START, STACK_SIZE, "ProcessStack"))

(* The switch of CR3 to the new tables.                                    *)
LoadPLM4 ==
  /\ Run("LoadPLM4")
  /\ UNCHANGED <<pmm, old_vmm, vmm, mappings, heapSize, heapTables, unlocked>>

SetupGDT == Run("SetupGDT") /\ MapOwn(MappingOf(GDT_VIRTUAL_MEMORY_POS, 1, "Special"))

SetupIDT == Run("SetupIDT") /\ MapOwn(MappingOf(IDT_VIRTUAL_MEMORY_POS, 1, "Special"))

-------------------------------------------------------------------------------
(* operator new and operator delete change the heap's pages and its        *)
(* Mapping.  The pages are mapped with MapMemory's default flags, none.    *)

HeapMapping == mappingForAddressIndex(HEAP_START)

growHeapPages ==
  LET end == HEAP_START + heapSize
      requested == RequestedForHeap(end, HEAP_STEP)
  IN  /\ panic = "none" /\ Done("LoadPLM4")
      /\ heapSize + HEAP_STEP <= MaxHeapSize
      /\ CanRequestForHeap(end, HEAP_STEP)
      /\ vmm' = MapRange(vmm, end, HEAP_STEP, requested.frames, {})
      /\ pmm' = requested.pmm
      /\ heapSize' = heapSize + HEAP_STEP
      /\ heapTables' = requested.tables
      /\ UNCHANGED <<boot, step, old_vmm, panic, unlocked>>

(* Mutant: the Mapping keeps its size.                                     *)
growHeapOnly == growHeapPages /\ UNCHANGED mappings

growHeap ==
  /\ growHeapPages
  /\ mappings' = [mappings EXCEPT ![HeapMapping].size = @ + HEAP_STEP]

(* delete shrinks the heap when its last segment is of twice that many     *)
(* pages, with a header before it.                                         *)
MayShrink == heapSize > 2 * HEAP_STEP

(* The n-th page that goes.                                                *)
Leaving(n) == HEAP_START + heapSize - n

(* The pages with which the last entry of their table goes.  A table stays *)
(* entered where it is, so the next page finds it again.                   *)
Emptying ==
  {n \in 1 .. HEAP_STEP :
     \A page \in DOMAIN vmm \ Span(Leaving(n), n) : TableOf(page) # TableOf(Leaving(n))}

(* What UnmapMemory gives to FreePage then: the number of the table's      *)
(* frame, not its address.                                                 *)
TableNumber(n) == heapTables[TableOf(Leaving(n))]

(* UnmapMemory, and FreePage for the frame of the page.                    *)
Released(p, n) ==
  LET unmapped == IF n \in Emptying THEN FreePage(p, TableNumber(n)) ELSE p
  IN  FreePage(unmapped, vmm[Leaving(n)].frame * PageSize)

FreeFrames ==
  LET after[n \in 0 .. HEAP_STEP] == IF n = 0 THEN pmm ELSE Released(after[n - 1], n)
  IN  after[HEAP_STEP]

Unlocking ==
  {page \in {PageOf(TableNumber(n)) : n \in Emptying} : InUse(pmm, page)}

shrinkHeapPages ==
  /\ panic = "none" /\ Done("LoadPLM4")
  /\ MayShrink
  /\ vmm' = [page \in DOMAIN vmm \ Span(HEAP_START + heapSize - HEAP_STEP, HEAP_STEP) |->
               vmm[page]]
  /\ pmm' = FreeFrames
  /\ heapSize' = heapSize - HEAP_STEP
  /\ unlocked' = unlocked \union Unlocking
  /\ UNCHANGED <<boot, step, old_vmm, heapTables, panic>>

shrinkHeap ==
  /\ shrinkHeapPages
  /\ mappings' = [mappings EXCEPT ![HeapMapping].size = @ - HEAP_STEP]

(* VirtualAddressSpace::unmap.  ASSERT panics if its condition holds, in   *)
(* unmap ("Mapping not in mappings") and in Mapping::unmap ("Attempted to  *)
(* unmap not mapped Mapping").                                             *)
unmap(mapping) ==
  /\ panic = "none" /\ Done("SetupIDT")
  /\ panic' = IF ContainsMapping(mapping) THEN "Mapping not in mappings"
              ELSE "Attempted to unmap not mapped Mapping"
  /\ UNCHANGED <<boot, step, pmm, old_vmm, vmm, mappings, heapSize, heapTables, unlocked>>

Next ==
  \/ InitHeap \/ AddHeapMapping \/ MapKernelCode \/ MapKernelData
  \/ IdentityMapPhysicalMemory \/ MapFramebuffer \/ MapStack
  \/ LoadPLM4 \/ SetupGDT \/ SetupIDT
  \/ growHeap \/ shrinkHeap
  \/ \E i \in DOMAIN mappings : unmap(mappings[i])

Spec == Init /\ [][Next]_vars

-------------------------------------------------------------------------------
Flags == {"Present", "ReadWrite", "UserSupper", "CachedDisabled", "Global"}

Entries == [frame : Nat, flags : SUBSET Flags]

(* Types of the address space's state (VirtualAddressSpace.h:8-110).       *)
TypeOK ==
  /\ mMap \in MemoryMaps /\ image \in Images /\ framebuffer \in Framebuffers
  /\ step \in 0 .. Len(BootSteps)
  /\ pmm \in Allocators(mMap)
  /\ \A page \in DOMAIN vmm : page \in Nat /\ vmm[page] \in Entries
  /\ \A page \in DOMAIN old_vmm : page \in Nat /\ old_vmm[page] \in Entries
  /\ \A i \in DOMAIN mappings : mappings[i].start \in Nat /\ mappings[i].size \in Nat
  /\ heapSize \in 0 .. MaxHeapSize
  /\ \A table \in DOMAIN heapTables : heapTables[table] \in Nat
  /\ unlocked \subseteq BitmapIndices(mMap)

(* The code that loads CR3 runs on: whatever could be reached through the  *)
(* bootloader's tables is at the same place afterwards, except for         *)
(* physical memory above the sum of numPages and the rest of a framebuffer *)
(* that does not end on a page boundary.                                   *)
SwitchKeepsTranslations ==
  Done("LoadPLM4") =>
    \A page \in DOMAIN old_vmm :
      \/ page \in DOMAIN vmm /\ vmm[page].frame = old_vmm[page].frame
      \/ page \in DescribedPages /\ page >= memorySize
      \/ page = framebuffer.page + framebuffer.BufferSize \div PageSize

(* .text and .rodata stay read-only: no other mapping adds ReadWrite to    *)
(* their entries.                                                          *)
CodeIsReadOnly ==
  \A page \in DOMAIN vmm :
    page \in Span(KERNEL_IMAGE_START, (image.ro + PageSize - 1) \div PageSize)
      => "ReadWrite" \notin vmm[page].flags

(* .data and .bss can be written, but for their first page when            *)
(* _KernelROEnd is on a page boundary (kernelROSizePages counts it).       *)
DataIsWritable ==
  LET data == KERNEL_IMAGE_START + (image.ro + PageSize - 1) \div PageSize
  IN  Done("LoadPLM4") =>
        \A page \in data .. KERNEL_IMAGE_START + LoadedPages - 1 :
          \/ "ReadWrite" \in FlagsOf(vmm, page)
          \/ page = data /\ image.ro % PageSize = 0

(* What is read-only and what is not (_start.cpp:80-95).                 *)
ImageIsProtected == CodeIsReadOnly /\ DataIsWritable

(* The list of mappings and the tables agree: a page is present exactly if *)
(* a mapping contains it, whatever was grown and shrunk since.             *)
MappingsMatchTables ==
  Done("AddHeapMapping") =>
    DOMAIN vmm = UNION {Span(mappings[i].start, mappings[i].size) : i \in DOMAIN mappings}

(* growHeap and shrinkHeap find the heap's Mapping by its address: the     *)
(* first that contains HEAP_START is the one of kernelHeap.                *)
HeapMappingIsKernelHeap ==
  Done("AddHeapMapping") =>
    mappings[HeapMapping] = MappingOf(HEAP_START, heapSize, "ProcessData")

(* The list tells what is mapped (VirtualAddressSpace.h:60-110).           *)
MappingsAreTrue == TypeOK /\ MappingsMatchTables /\ HeapMappingIsKernelHeap

OwnRegions ==
  Span(HEAP_START, MaxHeapSize) \union Span(STACK_START, STACK_SIZE)
    \union {GDT_VIRTUAL_MEMORY_POS, IDT_VIRTUAL_MEMORY_POS}

OwnPages == OwnRegions \intersect DOMAIN vmm

(* Heap, stack, GDT and IDT share no frame, neither with each other nor    *)
(* with the kernel image, unless UnmapMemory unlocked it while the heap    *)
(* was shrunk (VirtualMemoryManager.cpp:82-85); and none is that of a      *)
(* table of the heap.                                                      *)
OwnFramesDisjoint ==
  /\ \A p, q \in OwnPages :
       vmm[p].frame = vmm[q].frame => p = q \/ vmm[p].frame \in unlocked
  /\ \A p \in OwnPages :
       vmm[p].frame \in Span(0, kernelSizePages) => vmm[p].frame \in unlocked
  /\ \A p \in OwnPages, table \in DOMAIN heapTables : vmm[p].frame # heapTables[table]

(* Whatever RequestPage hands out is in the identity map, on any memory    *)
(* map: that is how the tables MapMemory requests are reached.             *)
RequestableIsReachable ==
  /\ \A k \in Usable(pmm) : PageOf(pmm.stack[k]) < memorySize
  /\ \A p \in OwnPages : vmm[p].frame < memorySize

(* Claims of the sources that the code does not keep.                      *)

(* "Identity Map Physical Memory" (memory_defines.h:6).                    *)
PhysicalMemoryIsMapped ==
  Done("IdentityMapPhysicalMemory") => DescribedPages \subseteq DOMAIN vmm

(* The ASSERT of unmap (VirtualAddressSpace.cpp:17): "Mapping not in       *)
(* mappings".  unmap is called with a member of the list here.             *)
UnmapFindsMapping == panic # "Mapping not in mappings"

===============================================================================
