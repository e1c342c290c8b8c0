-------------------------- MODULE PageFrameAllocator --------------------------
(***************************************************************************)
(* The kernel's page frame allocator and the calls the kernel makes on it: *)
(* _start constructs it from the firmware's memory map and locks the       *)
(* kernel image; afterwards frames are requested, and freed by whoever     *)
(* holds them.                                                             *)
(***************************************************************************)
EXTENDS PageFrames

CONSTANTS
  MemoryMaps,    \* the memory maps the firmware may hand over
  KernelStart,   \* first page of the kernel image
  KernelPages    \* its pages: kernelSizePages of _start

ASSUME MemoryMapsAssumption == MemoryMaps \subseteq Seq(Descriptors)

ASSUME KernelAssumption == KernelStart \in Nat /\ KernelPages \in Nat

VARIABLES
  mMap,      \* the firmware's map, fixed at boot
  pmm,       \* PageFrameAllocator::KernelPMM
  status,    \* how far the kernel is: see Statuses
  grants     \* history: per page, RequestPage results not yet freed

vars == <<mMap, pmm, status, grants>>

(* "halted": a Panic of the constructor.  "underflow": Pop read a word     *)
(* below its buffer; that word belongs to somebody else, so the model      *)
(* promises nothing and stops.                                             *)
Statuses == {"boot", "running", "halted", "underflow"}

Image == Span(KernelStart, KernelPages)

DescribedPages(map) == UNION {PagesOf(map[i]) : i \in DOMAIN map}

(* The bootloader loads the image into pages it allocates from the         *)
(* firmware, which therefore describes them, and memory has fewer pages    *)
(* than a byte counter can count.                                          *)
ASSUME ImageAssumption ==
  \A map \in MemoryMaps :
    /\ Image \subseteq DescribedPages(map)
    /\ MemoryPages(map) < CounterModulus

Metadata ==
  Span(LargestFreeMemSeg(mMap).page,
       (MetadataBytes(mMap) - 1) \div PageSize + 1)

Granted == {i \in BitmapIndices(mMap) : grants[i] > 0}

Available == {PageOf(pmm.stack[k]) : k \in Usable(pmm)}

-------------------------------------------------------------------------------
Init ==
  /\ mMap \in MemoryMaps
  /\ grants = [i \in BitmapIndices(mMap) |-> 0]
  /\ \/ /\ ConstructorPanics(mMap)
        /\ status = "halted"
        /\ pmm = Zeroed(mMap, FALSE)
     \/ /\ ~ConstructorPanics(mMap)
        /\ status = "boot"
        /\ \E stray \in BOOLEAN : pmm = Constructed(mMap, stray)

LockKernelImage ==
  /\ status = "boot"
  /\ status' = "running"
  /\ pmm' = LockPages(pmm, KernelStart, KernelPages)
  /\ UNCHANGED <<mMap, grants>>

Request ==
  /\ status = "running"
  /\ Usable(pmm) # {}
  /\ pmm' = RequestPage(pmm)
  /\ grants' = [grants EXCEPT ![PageOf(RequestedAddress(pmm))] = @ + 1]
  /\ UNCHANGED <<mMap, status>>

RequestUnderflow ==
  /\ status = "running"
  /\ Usable(pmm) = {}
  /\ status' = "underflow"
  /\ pmm' = [pmm EXCEPT !.stack = << >>]
  /\ UNCHANGED <<mMap, grants>>

Free(page) ==
  /\ status = "running"
  /\ grants[page] > 0
  /\ pmm' = FreePage(pmm, page * PageSize)
  /\ grants' = [grants EXCEPT ![page] = @ - 1]
  /\ UNCHANGED <<mMap, status>>

Next ==
  \/ LockKernelImage
  \/ Request
  \/ RequestUnderflow
  \/ \E page \in BitmapIndices(mMap) : Free(page)

Spec == Init /\ [][Next]_vars

-------------------------------------------------------------------------------
(* Types of the allocator's state (PageFrameAllocator.h:30-35).            *)
TypeOK ==
  /\ mMap \in MemoryMaps
  /\ status \in Statuses
  /\ grants \in [BitmapIndices(mMap) -> Nat]
  /\ pmm \in Allocators(mMap)

-------------------------------------------------------------------------------
(* Each page RequestPage handed out has one holder: no page is handed out  *)
(* again before it was freed (the do-while of RequestPage and the pushes   *)
(* of InitPush and FreePage).                                              *)
NoDoubleAllocation == \A i \in BitmapIndices(mMap) : grants[i] <= 1

(* No holder ever gets a page of the kernel image, of the allocator's own  *)
(* stack and bitmap, or of a region the firmware did not describe as       *)
(* conventional memory ("Locked Kernel Pages", _start.cpp:103).            *)
PinnedNeverHandedOut ==
  status \in {"running", "underflow"} =>
    Granted \intersect (Image \union Metadata \union FirmwarePages(mMap)) = {}

(* Why the two hold.  Every word on the stack is the address of a page the *)
(* bitmap covers, no page is on the stack twice or while somebody holds    *)
(* it; a page somebody holds has a clear bit, which is why FreePage does   *)
(* not push it; and the bits of the pinned pages stay set.                 *)
StackEntries ==
  \A k \in DOMAIN pmm.stack :
    /\ PageOf(pmm.stack[k]) \in BitmapIndices(mMap)
    /\ pmm.stack[k] = PageOf(pmm.stack[k]) * PageSize
    /\ grants[PageOf(pmm.stack[k])] = 0
    /\ \A l \in DOMAIN pmm.stack : PageOf(pmm.stack[k]) = PageOf(pmm.stack[l]) => k = l

HeldPages ==
  \A i \in BitmapIndices(mMap) :
    /\ grants[i] \in {0, 1}
    /\ grants[i] = 1 => status \in {"running", "underflow"} /\ ~pmm.bitmap[i]

Pinned ==
  Metadata \union FirmwarePages(mMap)
    \union (IF status = "boot" THEN {} ELSE Image)

PinnedPages ==
  status # "halted" => \A i \in Pinned \intersect BitmapIndices(mMap) : pmm.bitmap[i]

PoolInvariant == StackEntries /\ HeldPages /\ PinnedPages

(* GetFreeRam() = 0 is how growHeap learns that memory is exhausted.  On a *)
(* map without holes it never says so too early: the counter is at least   *)
(* the number of pages RequestPage could still return.                     *)
Contiguous == DescribedPages(mMap) = 0 .. MemoryPages(mMap) - 1

FreeRamNeverUnderstates ==
  Contiguous => Cardinality(Available) <= pmm.freeMemory

(* Every page the firmware describes is counted in exactly one of the      *)
(* three counters, whatever sequence of calls moved it between them.       *)
CountersConserved ==
  Wrap(pmm.freeMemory + pmm.usedMemory + pmm.reservedMemory)
    = Wrap(MemoryPages(mMap))

(* The three counters add up to the pages the firmware describes, and the  *)
(* one growHeap takes for exhaustion is not zero as long as RequestPage    *)
(* has a page to give (PageFrameAllocator.cpp:58-136, Heap.cpp:65).        *)
CountersAreTrue == FreeRamNeverUnderstates /\ CountersConserved

(* The supply only shrinks: RequestPage leaves the page's bit clear, so    *)
(* the guard of FreePage turns every later free of it into a no-op and no  *)
(* call makes a page available that was not available before.              *)
SupplyNeverGrows == [][Available' \subseteq Available]_vars

(* The allocator keeps the promise of FrameSource until its stack          *)
(* underflows.                                                             *)
Source == INSTANCE FrameSource
            WITH Frames <- Nat, avail <- Available, granted <- Granted

RefinesFrameSource == Source!Spec

-------------------------------------------------------------------------------
(* Claims of the sources that the code does not keep.                      *)

(* PageFrameAllocator.cpp:131 calls a set bit a page "in use"; a page      *)
(* that RequestPage handed out and nobody freed is one.                    *)
GrantedPagesAreInUse == \A i \in Granted : InUse(pmm, i)

(* Heap.cpp:65 takes GetFreeRam() == 0 for exhaustion and Heap.cpp:121     *)
(* panics with "Physical Memory exhausted": RequestPage must not run out   *)
(* of pages while the counter still shows free memory.                     *)
ExhaustionIsVisible == status = "underflow" => pmm.freeMemory = 0

===============================================================================
