----------------------- MODULE PageFrameAllocatorProofs ------------------------
(***************************************************************************)
(* The allocator's safety for every memory map, page size and kernel       *)
(* image.  The inductive invariant is TypeOK /\ PoolInvariant: that no     *)
(* page has two holders follows only because the stack lists no page       *)
(* twice, none that is held, and because a held page's bit is clear, so    *)
(* FreePage never pushes.  The last part is about AllocatorInterface, the  *)
(* allocator under calls the kernel does not make yet.                     *)
(***************************************************************************)
EXTENDS PageFrameAllocator, AllocatorInterface, PageFramesProofs

Inv == TypeOK /\ PoolInvariant

(* The map the kernel runs with is a sequence of descriptors.              *)
LEMMA MapType ==
  ASSUME TypeOK
  PROVE  mMap \in Seq(Descriptors)
BY MemoryMapsAssumption DEF TypeOK

(* The facts about the slot RequestPage returns that its callers need.     *)
LEMMA RequestedSlot ==
  ASSUME Inv, Usable(pmm) # {}
  PROVE  /\ TopUsable(pmm) \in 1 .. Len(pmm.stack)
         /\ Len(pmm.stack) \in Nat
         /\ DOMAIN pmm.stack = 1 .. Len(pmm.stack)
         /\ \A l \in Usable(pmm) : l <= TopUsable(pmm)
         /\ TopUsable(pmm) \in Usable(pmm)
         /\ RequestedAddress(pmm) = pmm.stack[TopUsable(pmm)]
         /\ PageOf(RequestedAddress(pmm)) \in BitmapIndices(mMap)
         /\ grants[PageOf(RequestedAddress(pmm))] = 0
         /\ pmm.bitmap[PageOf(RequestedAddress(pmm))] = FALSE
<1>1. pmm.stack \in Seq(Nat) /\ pmm.bitmap \in [BitmapIndices(mMap) -> BOOLEAN]
  BY DEF Inv, TypeOK, Allocators
<1>2. Len(pmm.stack) \in Nat /\ DOMAIN pmm.stack = 1 .. Len(pmm.stack)
  BY <1>1, LenProperties
<1>3. TopUsable(pmm) \in Usable(pmm) /\ \A l \in Usable(pmm) : l <= TopUsable(pmm)
  BY <1>1, TopUsableIsTop
<1>4. TopUsable(pmm) \in DOMAIN pmm.stack /\ ~InUse(pmm, PageOf(pmm.stack[TopUsable(pmm)]))
  BY <1>3 DEF Usable
<1>5. RequestedAddress(pmm) = pmm.stack[TopUsable(pmm)]
  BY DEF RequestedAddress
<1>6. PageOf(RequestedAddress(pmm)) \in BitmapIndices(mMap)
      /\ grants[PageOf(RequestedAddress(pmm))] = 0
  BY <1>4, <1>5 DEF Inv, PoolInvariant, StackEntries
<1>7. pmm.bitmap[PageOf(RequestedAddress(pmm))] = FALSE
  BY <1>1, <1>4, <1>5, <1>6 DEF InUse
<1> QED BY <1>2, <1>3, <1>4, <1>5, <1>6, <1>7

(* Freeing a page somebody holds changes nothing: its bit is clear.        *)
LEMMA FreeHeldPage ==
  ASSUME Inv, NEW page \in BitmapIndices(mMap), grants[page] > 0
  PROVE  FreePage(pmm, page * PageSize) = pmm
<1>1. page \in Nat
  BY MapType, BitmapSizeType DEF Inv
<1>2. PageOf(page * PageSize) = page
  BY <1>1, PageOfAddress
<1>3. ~pmm.bitmap[page]
  BY DEF Inv, PoolInvariant, HeldPages
<1> QED BY <1>2, <1>3 DEF FreePage, InUse

-------------------------------------------------------------------------------
LEMMA InitInv == Init => Inv
<1> SUFFICES ASSUME Init PROVE Inv
  OBVIOUS
<1>1. mMap \in MemoryMaps /\ mMap \in Seq(Descriptors)
  BY MemoryMapsAssumption DEF Init
<1>2. grants \in [BitmapIndices(mMap) -> Nat]
      /\ \A i \in BitmapIndices(mMap) : grants[i] = 0
  BY DEF Init
<1>3. CASE status = "halted" /\ pmm = Zeroed(mMap, FALSE)
  <2>1. pmm \in Allocators(mMap)
    BY <1>1, <1>3, ZeroedType
  <2>2. pmm.stack = << >> /\ DOMAIN pmm.stack = {}
    BY <1>3 DEF Zeroed
  <2>3. TypeOK
    BY <1>1, <1>2, <1>3, <2>1 DEF TypeOK, Statuses
  <2>4. StackEntries
    BY <2>2 DEF StackEntries
  <2>5. HeldPages
    BY <1>2 DEF HeldPages
  <2>6. PinnedPages
    BY <1>3 DEF PinnedPages
  <2> QED BY <2>3, <2>4, <2>5, <2>6 DEF Inv, PoolInvariant
<1>4. CASE status = "boot" /\ \E stray \in BOOLEAN : pmm = Constructed(mMap, stray)
  <2>1. PICK stray \in BOOLEAN : pmm = Constructed(mMap, stray)
    BY <1>4
  <2>2. /\ pmm \in Allocators(mMap)
        /\ \A k \in DOMAIN pmm.stack :
             /\ PageOf(pmm.stack[k]) \in BitmapIndices(mMap)
             /\ pmm.stack[k] = PageOf(pmm.stack[k]) * PageSize
             /\ \A l \in DOMAIN pmm.stack :
                  PageOf(pmm.stack[k]) = PageOf(pmm.stack[l]) => k = l
        /\ \A i \in BitmapIndices(mMap) :
             \/ i \in FirmwarePages(mMap)
             \/ i \in Span(LargestFreeMemSeg(mMap).page,
                           (MetadataBytes(mMap) - 1) \div PageSize + 1)
             => pmm.bitmap[i]
    BY <1>1, <2>1, ConstructedEffect
  <2>3. TypeOK
    BY <1>1, <1>2, <1>4, <2>2 DEF TypeOK, Statuses
  <2>4. StackEntries
    BY <1>2, <2>2 DEF StackEntries
  <2>5. HeldPages
    BY <1>2 DEF HeldPages
  <2>6. PinnedPages
    BY <1>4, <2>2 DEF PinnedPages, Pinned, Metadata
  <2> QED BY <2>3, <2>4, <2>5, <2>6 DEF Inv, PoolInvariant
<1> QED BY <1>3, <1>4 DEF Init

LEMMA LockKernelImageInv == Inv /\ LockKernelImage => Inv'
<1> SUFFICES ASSUME Inv, LockKernelImage PROVE Inv'
  OBVIOUS
<1>1. mMap \in Seq(Descriptors) /\ pmm \in Allocators(mMap)
  BY MapType DEF Inv, TypeOK
<1>2. /\ pmm' \in Allocators(mMap)
      /\ pmm'.stack = pmm.stack
      /\ \A i \in BitmapIndices(mMap) : pmm'.bitmap[i] = (pmm.bitmap[i] \/ i \in Image)
  BY <1>1, LockPagesEffect DEF LockKernelImage, Image
<1>3. /\ status = "boot" /\ status' = "running"
      /\ mMap' = mMap /\ grants' = grants
  BY DEF LockKernelImage
<1>4. \A i \in BitmapIndices(mMap) : grants[i] = 0
  BY <1>3 DEF Inv, PoolInvariant, HeldPages
<1>5. TypeOK'
  BY <1>2, <1>3 DEF Inv, TypeOK, Statuses
<1>6. StackEntries'
  BY <1>2, <1>3 DEF Inv, PoolInvariant, StackEntries
<1>7. HeldPages'
  BY <1>3, <1>4 DEF HeldPages
<1>8. PinnedPages'
  BY <1>2, <1>3 DEF Inv, PoolInvariant, PinnedPages, Pinned, Metadata
<1> QED BY <1>5, <1>6, <1>7, <1>8 DEF Inv, PoolInvariant

LEMMA RequestInv == Inv /\ Request => Inv'
<1> SUFFICES ASSUME Inv, Request PROVE Inv'
  OBVIOUS
<1> DEFINE top == TopUsable(pmm)
           page == PageOf(RequestedAddress(pmm))
<1>1. mMap \in Seq(Descriptors) /\ pmm \in Allocators(mMap)
  BY MapType DEF Inv, TypeOK
<1>2. /\ Usable(pmm) # {} /\ pmm' = RequestPage(pmm)
      /\ grants' = [grants EXCEPT ![page] = @ + 1]
      /\ mMap' = mMap /\ status' = status /\ status = "running"
  BY DEF Request
<1>3. /\ top \in 1 .. Len(pmm.stack)
      /\ Len(pmm.stack) \in Nat
      /\ DOMAIN pmm.stack = 1 .. Len(pmm.stack)
      /\ page = PageOf(pmm.stack[top])
      /\ page \in BitmapIndices(mMap)
      /\ grants[page] = 0
      /\ pmm.bitmap[page] = FALSE
  BY <1>2, RequestedSlot
<1>4. /\ pmm' \in Allocators(mMap)
      /\ pmm'.bitmap = pmm.bitmap
      /\ Len(pmm'.stack) = top - 1
      /\ \A k \in 1 .. top - 1 : pmm'.stack[k] = pmm.stack[k]
  BY <1>1, <1>2, <1>3, RequestPageEffect
<1>5. DOMAIN pmm'.stack = 1 .. top - 1
  BY <1>4, LenProperties DEF Allocators
<1>6. /\ grants' \in [BitmapIndices(mMap) -> Nat]
      /\ grants'[page] = 1
      /\ \A i \in BitmapIndices(mMap) : i # page => grants'[i] = grants[i]
  BY <1>2, <1>3 DEF Inv, TypeOK
<1> HIDE DEF top, page
<1>7. TypeOK'
  BY <1>2, <1>4, <1>6 DEF Inv, TypeOK
<1>8. StackEntries'
  <2> SUFFICES ASSUME NEW k \in DOMAIN pmm'.stack
               PROVE  /\ PageOf(pmm'.stack[k]) \in BitmapIndices(mMap)
                      /\ pmm'.stack[k] = PageOf(pmm'.stack[k]) * PageSize
                      /\ grants'[PageOf(pmm'.stack[k])] = 0
                      /\ \A l \in DOMAIN pmm'.stack :
                           PageOf(pmm'.stack[k]) = PageOf(pmm'.stack[l]) => k = l
    BY <1>2 DEF StackEntries
  <2>1. /\ k \in DOMAIN pmm.stack /\ k # top /\ top \in DOMAIN pmm.stack
        /\ pmm'.stack[k] = pmm.stack[k]
    BY <1>3, <1>4, <1>5
  <2>2. PageOf(pmm.stack[k]) # page
    BY <2>1, <1>3 DEF Inv, PoolInvariant, StackEntries
  <2>3. \A l \in DOMAIN pmm'.stack : l \in DOMAIN pmm.stack /\ pmm'.stack[l] = pmm.stack[l]
    BY <1>3, <1>4, <1>5
  <2> QED BY <2>1, <2>2, <2>3, <1>6 DEF Inv, PoolInvariant, StackEntries
<1>9. HeldPages'
  BY <1>2, <1>3, <1>4, <1>6 DEF Inv, PoolInvariant, HeldPages
<1>10. PinnedPages'
  BY <1>2, <1>4 DEF Inv, PoolInvariant, PinnedPages, Pinned, Metadata
<1> QED BY <1>7, <1>8, <1>9, <1>10 DEF Inv, PoolInvariant

LEMMA RequestUnderflowInv == Inv /\ RequestUnderflow => Inv'
<1> SUFFICES ASSUME Inv, RequestUnderflow PROVE Inv'
  OBVIOUS
<1>1. /\ pmm' = [pmm EXCEPT !.stack = << >>]
      /\ status = "running" /\ status' = "underflow"
      /\ mMap' = mMap /\ grants' = grants
  BY DEF RequestUnderflow
<1>2. pmm \in Allocators(mMap)
  BY DEF Inv, TypeOK
<1>3. pmm'.stack = << >> /\ pmm'.bitmap = pmm.bitmap /\ pmm' \in Allocators(mMap)
  <2>1. << >> \in Seq(Nat)
    OBVIOUS
  <2> QED BY <1>1, <1>2, <2>1 DEF Allocators
<1>4. TypeOK'
  BY <1>1, <1>3 DEF Inv, TypeOK, Statuses
<1>5. DOMAIN pmm'.stack = {}
  BY <1>3
<1>6. StackEntries'
  BY <1>1, <1>5 DEF StackEntries
<1>7. HeldPages'
  BY <1>1, <1>3 DEF Inv, PoolInvariant, HeldPages
<1>8. PinnedPages'
  BY <1>1, <1>3 DEF Inv, PoolInvariant, PinnedPages, Pinned, Metadata
<1> QED BY <1>4, <1>6, <1>7, <1>8 DEF Inv, PoolInvariant

LEMMA FreeInv ==
  ASSUME NEW page \in BitmapIndices(mMap)
  PROVE  Inv /\ Free(page) => Inv'
<1> SUFFICES ASSUME Inv, Free(page) PROVE Inv'
  OBVIOUS
<1>1. /\ pmm' = pmm /\ mMap' = mMap /\ status' = status
      /\ grants' = [grants EXCEPT ![page] = @ - 1] /\ grants[page] > 0
  BY FreeHeldPage DEF Free
<1>2. grants[page] = 1 /\ grants \in [BitmapIndices(mMap) -> Nat]
  BY <1>1 DEF Inv, TypeOK, PoolInvariant, HeldPages
<1>3. /\ grants' \in [BitmapIndices(mMap) -> Nat]
      /\ grants'[page] = 0
      /\ \A i \in BitmapIndices(mMap) : i # page => grants'[i] = grants[i]
  BY <1>1, <1>2
<1>4. TypeOK'
  BY <1>1, <1>3 DEF Inv, TypeOK
<1>5. StackEntries'
  BY <1>1, <1>3 DEF Inv, PoolInvariant, StackEntries
<1>6. HeldPages'
  BY <1>1, <1>3 DEF Inv, PoolInvariant, HeldPages
<1>7. PinnedPages'
  BY <1>1 DEF Inv, PoolInvariant, PinnedPages, Pinned, Metadata
<1> QED BY <1>4, <1>5, <1>6, <1>7 DEF Inv, PoolInvariant

LEMMA StepInv == Inv /\ [Next]_vars => Inv'
<1> SUFFICES ASSUME Inv, [Next]_vars PROVE Inv'
  OBVIOUS
<1>1. CASE LockKernelImage
  BY <1>1, LockKernelImageInv
<1>2. CASE Request
  BY <1>2, RequestInv
<1>3. CASE RequestUnderflow
  BY <1>3, RequestUnderflowInv
<1>4. CASE \E page \in BitmapIndices(mMap) : Free(page)
  BY <1>4, FreeInv
<1>5. CASE UNCHANGED vars
  <2>1. mMap' = mMap /\ pmm' = pmm /\ status' = status /\ grants' = grants
    BY <1>5 DEF vars
  <2> QED BY <2>1 DEF Inv, TypeOK, PoolInvariant, StackEntries, HeldPages, PinnedPages,
                      Pinned, Metadata
<1> QED BY <1>1, <1>2, <1>3, <1>4, <1>5 DEF Next

LEMMA Invariance == Spec => []Inv
BY InitInv, StepInv, PTL DEF Spec

-------------------------------------------------------------------------------
(* The allocator's state is well typed, whatever the kernel requests and   *)
(* frees.                                                                  *)
THEOREM TypeCorrect == Spec => []TypeOK
<1>1. Inv => TypeOK
  BY DEF Inv
<1> QED BY <1>1, Invariance, PTL

(* The inductive invariant: what the stack and the bitmap say about held,  *)
(* pinned and free pages.                                                  *)
THEOREM PoolIsConsistent == Spec => []PoolInvariant
<1>1. Inv => PoolInvariant
  BY DEF Inv
<1> QED BY <1>1, Invariance, PTL

(* RequestPage never hands out a page somebody holds.                      *)
THEOREM OneHolderPerPage == Spec => []NoDoubleAllocation
<1>1. Inv => NoDoubleAllocation
  BY DEF Inv, PoolInvariant, HeldPages, NoDoubleAllocation
<1> QED BY <1>1, Invariance, PTL

(* RequestPage never hands out a page of the kernel image, of the          *)
(* allocator's own data or of a firmware region.                           *)
THEOREM PinnedPagesStayHome == Spec => []PinnedNeverHandedOut
<1>1. Inv => PinnedNeverHandedOut
  <2> SUFFICES ASSUME Inv, status \in {"running", "underflow"},
                      NEW i \in Granted,
                      i \in Image \union Metadata \union FirmwarePages(mMap)
               PROVE  FALSE
    BY DEF PinnedNeverHandedOut
  <2>1. i \in BitmapIndices(mMap) /\ grants[i] > 0
    BY DEF Granted
  <2>2. ~pmm.bitmap[i]
    BY <2>1 DEF Inv, PoolInvariant, HeldPages
  <2>3. i \in Pinned
    BY DEF Pinned
  <2> QED BY <2>1, <2>2, <2>3 DEF Inv, PoolInvariant, PinnedPages
<1> QED BY <1>1, Invariance, PTL

-------------------------------------------------------------------------------
(* Pages leave the pool and never come back.                               *)

(* A page is available if and only if a usable slot lists it.              *)
AvailableIffListed ==
  /\ Available \subseteq BitmapIndices(mMap)
  /\ \A i : i \in Available <=>
       \E k \in DOMAIN pmm.stack : PageOf(pmm.stack[k]) = i /\ ~pmm.bitmap[i]

LEMMA AvailablePage == Inv => AvailableIffListed
<1> SUFFICES ASSUME Inv PROVE AvailableIffListed
  OBVIOUS
<1>1. pmm.bitmap \in [BitmapIndices(mMap) -> BOOLEAN]
  BY DEF Inv, TypeOK, Allocators
<1>2. \A k \in DOMAIN pmm.stack : PageOf(pmm.stack[k]) \in BitmapIndices(mMap)
  BY DEF Inv, PoolInvariant, StackEntries
<1>3. \A k \in DOMAIN pmm.stack :
        k \in Usable(pmm) <=> ~pmm.bitmap[PageOf(pmm.stack[k])]
  BY <1>1, <1>2 DEF Usable, InUse
<1>4. \A k \in Usable(pmm) : k \in DOMAIN pmm.stack
  BY DEF Usable
<1> QED BY <1>2, <1>3, <1>4 DEF Available, AvailableIffListed

(* RequestPage takes exactly the page it returns out of the pool: the      *)
(* slots it pops on the way list pages that are in use.                    *)
LEMMA RequestTakesOne ==
  ASSUME Inv, Request
  PROVE  /\ PageOf(RequestedAddress(pmm)) \in Available
         /\ Available' = Available \ {PageOf(RequestedAddress(pmm))}
<1> DEFINE top == TopUsable(pmm)
           page == PageOf(RequestedAddress(pmm))
<1>1. mMap \in Seq(Descriptors) /\ pmm \in Allocators(mMap) /\ Inv'
  BY MapType, RequestInv DEF Inv, TypeOK
<1>2. Usable(pmm) # {} /\ pmm' = RequestPage(pmm) /\ mMap' = mMap
  BY DEF Request
<1>3. /\ top \in 1 .. Len(pmm.stack)
      /\ Len(pmm.stack) \in Nat
      /\ DOMAIN pmm.stack = 1 .. Len(pmm.stack)
      /\ \A l \in Usable(pmm) : l <= top
      /\ top \in Usable(pmm)
      /\ page = PageOf(pmm.stack[top])
      /\ page \in BitmapIndices(mMap)
      /\ pmm.bitmap[page] = FALSE
  BY <1>2, RequestedSlot
<1>4. /\ pmm' \in Allocators(mMap)
      /\ pmm'.bitmap = pmm.bitmap
      /\ Len(pmm'.stack) = top - 1
      /\ \A k \in 1 .. top - 1 : pmm'.stack[k] = pmm.stack[k]
  BY <1>1, <1>2, <1>3, RequestPageEffect
<1>5. DOMAIN pmm'.stack = 1 .. top - 1
  BY <1>4, LenProperties DEF Allocators
<1>6. \A i : i \in Available <=>
        \E k \in DOMAIN pmm.stack : PageOf(pmm.stack[k]) = i /\ ~pmm.bitmap[i]
  BY AvailablePage DEF AvailableIffListed
<1>7. \A i : i \in Available' <=>
        \E k \in DOMAIN pmm'.stack : PageOf(pmm'.stack[k]) = i /\ ~pmm'.bitmap[i]
  <2>1. Inv' => AvailableIffListed'
    BY AvailablePage, PTL
  <2> QED BY <1>1, <2>1 DEF AvailableIffListed
<1>8. page \in Available
  BY <1>3, <1>6
<1>9. \A k, l \in DOMAIN pmm.stack : PageOf(pmm.stack[k]) = PageOf(pmm.stack[l]) => k = l
  BY DEF Inv, PoolInvariant, StackEntries
<1>10. \A k \in DOMAIN pmm.stack : ~pmm.bitmap[PageOf(pmm.stack[k])] => k <= top
  <2> SUFFICES ASSUME NEW k \in DOMAIN pmm.stack, ~pmm.bitmap[PageOf(pmm.stack[k])]
               PROVE  k \in Usable(pmm)
    BY <1>3
  <2> QED BY DEF Usable, InUse
<1> HIDE DEF top, page
<1>11. ASSUME NEW i \in Available' PROVE i \in Available \ {page}
  <2>1. PICK k \in 1 .. top - 1 : PageOf(pmm.stack[k]) = i /\ ~pmm.bitmap[i]
    BY <1>4, <1>5, <1>7, <1>11
  <2>2. k \in DOMAIN pmm.stack /\ k # top /\ top \in DOMAIN pmm.stack
    BY <1>3, <2>1
  <2> QED BY <1>3, <1>6, <1>9, <2>1, <2>2
<1>12. ASSUME NEW i \in Available, i # page PROVE i \in Available'
  <2>1. PICK k \in DOMAIN pmm.stack : PageOf(pmm.stack[k]) = i /\ ~pmm.bitmap[i]
    BY <1>6, <1>12
  <2>2. k <= top /\ k # top
    BY <1>3, <1>10, <1>12, <2>1
  <2>3. k \in 1 .. top - 1
    BY <1>3, <2>1, <2>2
  <2> QED BY <1>4, <1>5, <1>7, <2>1, <2>3
<1> QED BY <1>8, <1>11, <1>12 DEF page

(* Locking the image takes its pages out of the pool, if they are in it.   *)
LEMMA LockTakes == Inv /\ LockKernelImage => Available' \subseteq Available
<1> SUFFICES ASSUME Inv, LockKernelImage PROVE Available' \subseteq Available
  OBVIOUS
<1>1. Inv' /\ mMap' = mMap
  BY LockKernelImageInv DEF LockKernelImage
<1>2. mMap \in Seq(Descriptors) /\ pmm \in Allocators(mMap)
  BY MapType DEF Inv, TypeOK
<1>3. /\ pmm'.stack = pmm.stack
      /\ \A i \in BitmapIndices(mMap) : pmm'.bitmap[i] = (pmm.bitmap[i] \/ i \in Image)
  BY <1>2, LockPagesEffect DEF LockKernelImage, Image
<1>4. AvailableIffListed /\ AvailableIffListed'
  <2>1. Inv' => AvailableIffListed'
    BY AvailablePage, PTL
  <2> QED BY <1>1, <2>1, AvailablePage
<1>5. ASSUME NEW i \in Available' PROVE i \in Available
  <2>1. i \in BitmapIndices(mMap)
        /\ \E k \in DOMAIN pmm'.stack : PageOf(pmm'.stack[k]) = i /\ ~pmm'.bitmap[i]
    BY <1>1, <1>4, <1>5 DEF AvailableIffListed
  <2> QED BY <1>3, <1>4, <2>1 DEF AvailableIffListed
<1> QED BY <1>5

LEMMA UnderflowTakes == Inv /\ RequestUnderflow => Available' = {} /\ Available = {}
<1> SUFFICES ASSUME Inv, RequestUnderflow PROVE Available' = {} /\ Available = {}
  OBVIOUS
<1>1. Available = {}
  BY DEF RequestUnderflow, Available
<1>2. pmm'.stack = << >>
  BY DEF RequestUnderflow, Inv, TypeOK, Allocators
<1>3. Usable(pmm)' = {}
  <2>1. DOMAIN pmm'.stack = {}
    BY <1>2
  <2> QED BY <2>1 DEF Usable
<1> QED BY <1>1, <1>3 DEF Available

LEMMA FreeTakes ==
  ASSUME NEW page \in BitmapIndices(mMap)
  PROVE  Inv /\ Free(page) => Available' = Available
<1> SUFFICES ASSUME Inv, Free(page) PROVE Available' = Available
  OBVIOUS
<1>1. pmm' = pmm /\ mMap' = mMap
  BY FreeHeldPage DEF Free
<1> QED BY <1>1 DEF Available, Usable

(* Nothing the kernel does makes a page available again, not even freeing  *)
(* it: every requested page is lost to the allocator.                      *)
THEOREM RequestedPagesNeverReturn == Spec => SupplyNeverGrows
<1>1. Inv /\ [Next]_vars => [Available' \subseteq Available]_vars
  <2> SUFFICES ASSUME Inv, Next PROVE Available' \subseteq Available
    OBVIOUS
  <2>1. CASE LockKernelImage
    BY <2>1, LockTakes
  <2>2. CASE Request
    BY <2>2, RequestTakesOne
  <2>3. CASE RequestUnderflow
    BY <2>3, UnderflowTakes
  <2>4. CASE \E page \in BitmapIndices(mMap) : Free(page)
    BY <2>4, FreeTakes
  <2> QED BY <2>1, <2>2, <2>3, <2>4 DEF Next
<1> QED BY <1>1, Invariance, PTL DEF Spec, SupplyNeverGrows

-------------------------------------------------------------------------------
(* The allocator implements FrameSource: each call grants one available    *)
(* frame, releases a held one (which leaks), or withdraws frames.          *)
THEOREM ImplementsFrameSource == Spec => RefinesFrameSource
<1>1. Init => Source!Init
  <2> SUFFICES ASSUME Init PROVE Source!Init
    OBVIOUS
  <2>1. Available \subseteq BitmapIndices(mMap)
    BY InitInv, AvailablePage DEF AvailableIffListed
  <2>2. Granted = {}
    BY DEF Init, Granted
  <2>3. BitmapIndices(mMap) \subseteq Nat
    BY InitInv, MapType, BitmapSizeType DEF Inv
  <2> QED BY <2>1, <2>2, <2>3 DEF Source!Init
<1>2. Inv /\ [Next]_vars => [Source!Next]_<<Available, Granted>>
  <2> SUFFICES ASSUME Inv, Next \/ UNCHANGED vars
               PROVE  Source!Next \/ UNCHANGED <<Available, Granted>>
    BY DEF Source!Next
  <2>1. CASE LockKernelImage
    <3>1. Granted' = Granted
      BY <2>1 DEF LockKernelImage, Granted
    <3>2. Available' \subseteq Available
      BY <2>1, LockTakes
    <3> QED BY <3>1, <3>2 DEF Source!Next, Source!Withdraw
  <2>2. CASE Request
    <3> DEFINE page == PageOf(RequestedAddress(pmm))
    <3>1. page \in BitmapIndices(mMap) /\ grants[page] = 0 /\ mMap' = mMap
          /\ grants' = [grants EXCEPT ![page] = @ + 1]
          /\ grants \in [BitmapIndices(mMap) -> Nat]
      BY <2>2, RequestedSlot DEF Request, Inv, TypeOK
    <3>2. Granted' = Granted \union {page}
      BY <3>1 DEF Granted
    <3>3. page \in Available /\ Available' = Available \ {page}
      BY <2>2, RequestTakesOne
    <3> QED BY <3>1, <3>2, <3>3 DEF Source!Next, Source!Grant
  <2>3. CASE RequestUnderflow
    <3>1. Granted' = Granted
      BY <2>3 DEF RequestUnderflow, Granted
    <3>2. Available' = Available
      BY <2>3, UnderflowTakes
    <3> QED BY <3>1, <3>2
  <2>4. CASE \E page \in BitmapIndices(mMap) : Free(page)
    <3>1. PICK page \in BitmapIndices(mMap) : Free(page)
      BY <2>4
    <3>2. grants[page] = 1 /\ mMap' = mMap
          /\ grants' = [grants EXCEPT ![page] = @ - 1]
          /\ grants \in [BitmapIndices(mMap) -> Nat]
      BY <3>1 DEF Free, Inv, TypeOK, PoolInvariant, HeldPages
    <3>3. page \in Granted /\ Granted' = Granted \ {page}
      BY <3>2 DEF Granted
    <3>4. Available' = Available
      BY <3>1, FreeTakes
    <3> QED BY <3>3, <3>4 DEF Source!Next, Source!Release
  <2>5. CASE UNCHANGED vars
    BY <2>5 DEF vars, Available, Usable, Granted
  <2> QED BY <2>1, <2>2, <2>3, <2>4, <2>5 DEF Next
<1> QED BY <1>1, <1>2, Invariance, PTL DEF Spec, RefinesFrameSource, Source!Spec

-------------------------------------------------------------------------------
(* The books of memory.                                                    *)

(* The pages of the memory whose bit is clear.                             *)
ClearPages(map, allocator) ==
  {i \in 0 .. MemoryPages(map) - 1 : ~allocator.bitmap[i]}

(* What the three counters amount to.                                      *)
CountedPages(allocator) ==
  Wrap(allocator.freeMemory + allocator.usedMemory + allocator.reservedMemory)

(* GetFreeRam() is the number of pages whose bit is clear.                 *)
CountsClearPages(map, allocator) ==
  allocator.freeMemory = Cardinality(ClearPages(map, allocator))

(* The bitmap has a bit for every page the firmware counts.                *)
LEMMA BitmapCoversMemory ==
  ASSUME NEW map \in Seq(Descriptors)
  PROVE  /\ MemoryPages(map) \in Nat
         /\ MemoryPages(map) < StrayBit(map)
         /\ 0 .. MemoryPages(map) - 1 \subseteq BitmapIndices(map)
         /\ StrayBit(map) \in Nat
<1> DEFINE n == MemoryPages(map)
<1>1. n \in Nat /\ StrayBit(map) \in Nat /\ BitmapIndices(map) = 0 .. StrayBit(map)
  BY MemoryPagesType, BitmapSizeType
<1>2. \A x \in Nat, b \in Nat \ {0} : x < (x \div b + 1) * b
  <2> SUFFICES ASSUME NEW x \in Nat, NEW b \in Nat \ {0} PROVE x < (x \div b + 1) * b
    OBVIOUS
  <2>1. x = b * (x \div b) + (x % b) /\ x \div b \in Int /\ x % b \in 0 .. b - 1
    OBVIOUS
  <2>2. (x \div b + 1) * b = b * (x \div b) + b
    BY <2>1
  <2> QED BY <2>1, <2>2
<1>3. n < StrayBit(map)
  BY <1>1, <1>2, SizesAssumption DEF StrayBit, BitmapSize
<1> QED BY <1>1, <1>3

LEMMA ClearPagesFinite ==
  ASSUME NEW map \in Seq(Descriptors), NEW allocator
  PROVE  /\ IsFiniteSet(ClearPages(map, allocator))
         /\ Cardinality(ClearPages(map, allocator)) \in 0 .. MemoryPages(map)
<1>1. MemoryPages(map) \in Nat
  BY MemoryPagesType
<1>2. /\ IsFiniteSet(0 .. MemoryPages(map) - 1)
      /\ Cardinality(0 .. MemoryPages(map) - 1) = MemoryPages(map)
  BY <1>1, FS_Interval, 0 \in Int, MemoryPages(map) - 1 \in Int
<1>3. ClearPages(map, allocator) \in SUBSET (0 .. MemoryPages(map) - 1)
  BY DEF ClearPages
<1>4. /\ IsFiniteSet(ClearPages(map, allocator))
      /\ Cardinality(ClearPages(map, allocator)) <= MemoryPages(map)
  BY <1>2, <1>3, FS_Subset
<1> QED BY <1>1, <1>4, FS_CardinalityType

(* Setting the bits of some pages takes that many out of the free counter. *)
LEMMA SettingBitsCounts ==
  ASSUME NEW map \in Seq(Descriptors), NEW before \in Allocators(map),
         NEW after \in Allocators(map), NEW pages,
         MemoryPages(map) < CounterModulus,
         NewlySet(before, pages) \subseteq 0 .. MemoryPages(map) - 1,
         \A i \in BitmapIndices(map) : after.bitmap[i] = (before.bitmap[i] \/ i \in pages),
         after.freeMemory = Wrap(before.freeMemory - Cardinality(NewlySet(before, pages))),
         CountsClearPages(map, before)
  PROVE  CountsClearPages(map, after)
<1> DEFINE new == NewlySet(before, pages)
           clear == ClearPages(map, before)
<1>1. /\ MemoryPages(map) \in Nat
      /\ 0 .. MemoryPages(map) - 1 \subseteq BitmapIndices(map)
  BY BitmapCoversMemory
<1>2. DOMAIN before.bitmap = BitmapIndices(map)
  BY DEF Allocators
<1>3. new \in SUBSET clear
  BY DEF NewlySet, ClearPages
<1>4. ClearPages(map, after) = clear \ new
  BY <1>1, <1>2 DEF NewlySet, ClearPages
<1>5. IsFiniteSet(clear) /\ Cardinality(clear) \in 0 .. MemoryPages(map)
  BY ClearPagesFinite
<1>6. IsFiniteSet(new) /\ Cardinality(new) <= Cardinality(clear) /\ Cardinality(new) \in Nat
  BY <1>3, <1>5, FS_Subset, FS_CardinalityType
<1>7. Cardinality(clear \ new) = Cardinality(clear) - Cardinality(clear \intersect new)
  BY <1>5, FS_Difference
<1>8. clear \intersect new = new
  BY <1>3
<1> HIDE DEF new, clear
<1>9. Cardinality(clear) - Cardinality(new) \in 0 .. CounterModulus - 1
  BY <1>1, <1>5, <1>6, SizesAssumption
<1>10. after.freeMemory = Cardinality(clear) - Cardinality(new)
  BY <1>9, WrapSmall DEF CountsClearPages, clear, new
<1> QED BY <1>4, <1>7, <1>8, <1>10 DEF CountsClearPages

(* Locking and reserving move pages from one counter to another.           *)
LEMMA LockPagesCounts ==
  ASSUME NEW map \in Seq(Descriptors), NEW before \in Allocators(map),
         NEW page, NEW count
  PROVE  LET after == LockPages(before, page, count)
             new == NewlySet(before, Span(page, count))
         IN  /\ CountedPages(after) = CountedPages(before)
             /\ after.freeMemory = Wrap(before.freeMemory - Cardinality(new))
<1> DEFINE n == Cardinality(NewlySet(before, Span(page, count)))
<1>1. n \in Int
  BY NewlySetCardinality
<1>2. LET after == LockPages(before, page, count)
      IN  /\ after.freeMemory = Wrap(before.freeMemory - n)
          /\ after.usedMemory = Wrap(before.usedMemory + n)
          /\ after.reservedMemory = before.reservedMemory
  BY DEF LockPages, Allocators
<1> DEFINE f == before.freeMemory
           u == before.usedMemory
           r == before.reservedMemory
<1>3. f \in Int /\ u \in Int /\ r \in Int
  BY DEF Allocators
<1> HIDE DEF n, f, u, r
<1>4. PICK p \in Int : Wrap(f - n) = f - n + p * CounterModulus
  BY <1>1, <1>3, WrapQuotient, f - n \in Int
<1>5. PICK q \in Int : Wrap(u + n) = u + n + q * CounterModulus
  BY <1>1, <1>3, WrapQuotient, u + n \in Int
<1>6. \A M \in Int : (f - n + p * M) + (u + n + q * M) + r = (f + u + r) + (p + q) * M
  BY <1>1, <1>3
<1>7. Wrap(f - n) + Wrap(u + n) + r = (f + u + r) + (p + q) * CounterModulus
  BY <1>1, <1>3, <1>4, <1>5, <1>6, SizesAssumption
<1>8. Wrap(Wrap(f - n) + Wrap(u + n) + r) = Wrap(f + u + r)
  BY <1>3, <1>7, WrapRounds, f + u + r \in Int, p + q \in Int
<1>9. CountedPages(LockPages(before, page, count)) = CountedPages(before)
  BY <1>2, <1>8 DEF CountedPages, f, u, r
<1> QED BY <1>2, <1>9 DEF n, f

LEMMA ReservePagesCounts ==
  ASSUME NEW map \in Seq(Descriptors), NEW before \in Allocators(map), NEW pages
  PROVE  LET after == ReservePages(before, pages)
         IN  /\ CountedPages(after) = CountedPages(before)
             /\ after.freeMemory
                  = Wrap(before.freeMemory - Cardinality(NewlySet(before, pages)))
<1> DEFINE n == Cardinality(NewlySet(before, pages))
<1>1. n \in Int
  BY NewlySetCardinality
<1>2. LET after == ReservePages(before, pages)
      IN  /\ after.freeMemory = Wrap(before.freeMemory - n)
          /\ after.usedMemory = before.usedMemory
          /\ after.reservedMemory = Wrap(before.reservedMemory + n)
  BY DEF ReservePages, Allocators
<1> DEFINE f == before.freeMemory
           u == before.usedMemory
           r == before.reservedMemory
<1>3. f \in Int /\ u \in Int /\ r \in Int
  BY DEF Allocators
<1> HIDE DEF n, f, u, r
<1>4. PICK p \in Int : Wrap(f - n) = f - n + p * CounterModulus
  BY <1>1, <1>3, WrapQuotient, f - n \in Int
<1>5. PICK q \in Int : Wrap(r + n) = r + n + q * CounterModulus
  BY <1>1, <1>3, WrapQuotient, r + n \in Int
<1>6. \A M \in Int : (f - n + p * M) + (r + n + q * M) + u = (f + u + r) + (p + q) * M
  BY <1>1, <1>3
<1>7. Wrap(f - n) + Wrap(r + n) + u = (f + u + r) + (p + q) * CounterModulus
  BY <1>1, <1>3, <1>4, <1>5, <1>6, SizesAssumption
<1>8. Wrap(Wrap(f - n) + Wrap(r + n) + u) = Wrap(f + u + r)
  BY <1>3, <1>7, WrapRounds, f + u + r \in Int, p + q \in Int
<1>9. /\ Wrap(f - n) \in Int /\ Wrap(r + n) \in Int
  BY <1>1, <1>3, WrapType, f - n \in Int, r + n \in Int
<1>10. Wrap(f - n) + Wrap(r + n) + u = Wrap(f - n) + u + Wrap(r + n)
  BY <1>3, <1>9
<1>11. CountedPages(ReservePages(before, pages)) = CountedPages(before)
  BY <1>2, <1>8, <1>10 DEF CountedPages, f, u, r
<1> QED BY <1>2, <1>11 DEF n, f

(* The largest segment is one of the map's.                                *)
LEMMA LargestIsConventional ==
  ASSUME NEW map \in Seq(Descriptors), Conventional(map) # {}
  PROVE  \E i \in Conventional(map) : LargestFreeMemSeg(map) = map[i]
<1> DEFINE C == Conventional(map)
           size(i) == map[i].numPages
           Largest(i) == \A j \in C :
             \/ map[i].numPages > map[j].numPages
             \/ map[i].numPages = map[j].numPages /\ i <= j
<1>1. DOMAIN map = 1 .. Len(map) /\ Len(map) \in Nat
  BY LenProperties
<1>2. C \in SUBSET (1 .. Len(map)) /\ \A i \in C : size(i) \in Nat
  <2> SUFFICES ASSUME NEW i \in C PROVE i \in 1 .. Len(map) /\ map[i].numPages \in Nat
    OBVIOUS
  <2>1. i \in 1 .. Len(map)
    BY <1>1 DEF Conventional
  <2>2. map[i] \in Descriptors
    BY <2>1
  <2> QED BY <2>1, <2>2 DEF Descriptors
<1>3. \E i \in C : \A j \in C : size(j) <= size(i)
  <2>1. IsFiniteSet(C)
    BY <1>1, <1>2, FS_Interval, FS_Subset, 1 \in Int, Len(map) \in Int
  <2> DEFINE S == {size(i) : i \in C}
             f == [i \in C |-> size(i)]
  <2>2. f \in Surjection(C, S)
    BY DEF Surjection
  <2>3. IsFiniteSet(S)
    BY <2>1, <2>2, FS_Surjection
  <2>4. S \in SUBSET Nat /\ S # {}
    BY <1>2
  <2>5. PICK s \in S : \A t \in S : t <= s
    BY <2>3, <2>4, LargestExists
  <2> QED BY <2>5
<1>4. PICK m \in C : \A j \in C : size(j) <= size(m)
  BY <1>3
<1> DEFINE M == {i \in C : size(i) = size(m)}
<1>5. M \in SUBSET Nat /\ M # {}
  BY <1>2, <1>4
<1>6. PICK k \in M : \A j \in M : ~(<<j, k>> \in OpToRel(<, Nat))
  BY <1>5, NatLessThanWellFounded, WFMin, Zenon
<1>7. \A j \in M : ~(j < k)
  BY <1>5, <1>6 DEF OpToRel
<1>8. k \in C /\ size(k) = size(m)
  BY <1>6
<1>9. Largest(k)
  <2> SUFFICES ASSUME NEW j \in C
               PROVE  \/ size(k) > size(j)
                      \/ size(k) = size(j) /\ k <= j
    OBVIOUS
  <2>1. size(j) <= size(k) /\ size(j) \in Nat /\ size(k) \in Nat /\ j \in Nat /\ k \in Nat
    BY <1>2, <1>4, <1>8
  <2>2. CASE size(j) = size(k)
    <3>1. j \in M
      BY <1>8, <2>2
    <3> QED BY <1>7, <2>1, <2>2, <3>1
  <2> QED BY <2>1, <2>2
<1>10. (CHOOSE i \in C : Largest(i)) \in C
  BY <1>8, <1>9
<1> QED BY <1>10 DEF LargestFreeMemSeg

(* The descriptors of a map describe pages below its size if it has no     *)
(* holes, and a map the constructor accepts describes some.                *)
LEMMA AcceptedMaps ==
  ASSUME NEW map \in Seq(Descriptors), ~ConstructorPanics(map)
  PROVE  /\ Span(LargestFreeMemSeg(map).page,
                 (1 + PageStackSize(map) + BitmapSize(map)) \div PageSize + 1)
              \subseteq DescribedPages(map)
         /\ DescribedPages(map) # {}
<1> DEFINE seg == LargestFreeMemSeg(map)
           x == 1 + PageStackSize(map) + BitmapSize(map)
<1>1. PageStackSize(map) \in Nat /\ BitmapSize(map) \in Nat /\ x \in Nat
  BY BitmapSizeType
<1>2. Conventional(map) # {}
  BY <1>1 DEF ConstructorPanics, LargestFreeMemSegSize
<1>3. PICK i \in Conventional(map) : seg = map[i]
  BY <1>2, LargestIsConventional
<1>4. i \in DOMAIN map /\ seg \in Descriptors
  BY <1>3 DEF Conventional
<1>5. seg.page \in Nat /\ seg.numPages \in Nat
  BY <1>4 DEF Descriptors
<1>6. seg.numPages * PageSize > PageStackSize(map)
      /\ seg.numPages * PageSize - PageStackSize(map) - 1 > BitmapSize(map)
  <2>1. seg.numPages * PageSize \in Nat
    BY <1>5, SizesAssumption
  <2> QED BY <1>1, <1>2, <2>1 DEF ConstructorPanics, LargestFreeMemSegSize
<1>7. \A p \in Nat \ {0} : \A m, y \in Nat : y < m * p => y \div p + 1 <= m /\ y \div p \in Nat
  <2> SUFFICES ASSUME NEW p \in Nat \ {0}, NEW m \in Nat, NEW y \in Nat, y < m * p
               PROVE  y \div p + 1 <= m /\ y \div p \in Nat
    OBVIOUS
  <2>1. y = p * (y \div p) + (y % p) /\ y \div p \in Nat /\ y % p \in 0 .. p - 1
    OBVIOUS
  <2>2. y \div p >= m => p * (y \div p) >= p * m
    BY <2>1
  <2> QED BY <2>1, <2>2
<1>8. x < seg.numPages * PageSize
  <2>1. seg.numPages * PageSize \in Nat
    BY <1>5, SizesAssumption
  <2> QED BY <1>1, <1>6, <2>1
<1> HIDE DEF x, seg
<1>9. x \div PageSize + 1 <= seg.numPages /\ x \div PageSize \in Nat
  BY <1>1, <1>5, <1>7, <1>8, SizesAssumption
<1>10. PagesOf(seg) \subseteq DescribedPages(map)
  BY <1>3, <1>4 DEF DescribedPages
<1>11. Span(seg.page, x \div PageSize + 1) \subseteq PagesOf(seg)
  BY <1>5, <1>9 DEF Span, PagesOf
<1>12. seg.page \in PagesOf(seg)
  BY <1>5, <1>9 DEF Span, PagesOf
<1> QED BY <1>10, <1>11, <1>12 DEF x, seg

(* Hence InitPush looks at pages below the size of memory only.            *)
LEMMA BitmapSizeInMemory ==
  ASSUME NEW map \in Seq(Descriptors), ~ConstructorPanics(map)
  PROVE  BitmapSize(map) <= MemoryPages(map)
<1>1. MemoryPages(map) \in Nat
  BY MemoryPagesType
<1>2. MemoryPages(map) # 0
  <2>1. IsFiniteSet(DescribedPages(map))
    BY DescribedPagesFinite DEF DescribedPages
  <2> QED BY <2>1, AcceptedMaps, FS_EmptySet DEF MemoryPages, DescribedPages
<1>3. \A n \in Nat \ {0}, b \in Nat \ {0, 1} : n \div b + 1 <= n
  <2> SUFFICES ASSUME NEW n \in Nat \ {0}, NEW b \in Nat \ {0, 1} PROVE n \div b + 1 <= n
    OBVIOUS
  <2>1. n = b * (n \div b) + (n % b) /\ n \div b \in Nat /\ n % b \in 0 .. b - 1
    OBVIOUS
  <2>2. b * (n \div b) >= 2 * (n \div b)
    BY <2>1
  <2> QED BY <2>1, <2>2
<1> QED BY <1>1, <1>2, <1>3, SizesAssumption DEF BitmapSize

(* The constructor counts every page of memory once.                       *)
LEMMA ConstructedCounts ==
  ASSUME NEW map \in MemoryMaps, NEW stray \in BOOLEAN, ~ConstructorPanics(map)
  PROVE  /\ CountedPages(Constructed(map, stray)) = Wrap(MemoryPages(map))
         /\ DescribedPages(map) = 0 .. MemoryPages(map) - 1
              => CountsClearPages(map, Constructed(map, stray))
<1> DEFINE n == MemoryPages(map)
           zeroed == Zeroed(map, stray)
           page == LargestFreeMemSeg(map).page
           count == (1 + PageStackSize(map) + BitmapSize(map)) \div PageSize + 1
           locked == LockPages(zeroed, page, count)
           reserved == ReservePages(locked, FirmwarePages(map))
           constructed == Constructed(map, stray)
<1>1. map \in Seq(Descriptors)
  BY MemoryMapsAssumption
<1>2. n \in Nat /\ n < CounterModulus /\ n < StrayBit(map)
      /\ 0 .. n - 1 \subseteq BitmapIndices(map) /\ StrayBit(map) \in Nat
  BY <1>1, BitmapCoversMemory, ImageAssumption
<1>3. zeroed \in Allocators(map)
  BY <1>1, ZeroedType
<1>4. CountedPages(zeroed) = Wrap(n)
  <2>1. Wrap(n) \in 0 .. CounterModulus - 1
    BY <1>2, WrapType
  <2>2. Wrap(n) + 0 + 0 = Wrap(n)
    BY <2>1
  <2> QED BY <2>1, <2>2, WrapSmall DEF CountedPages, Zeroed
<1>5. CountsClearPages(map, zeroed)
  <2>1. ASSUME NEW i \in 0 .. n - 1 PROVE ~zeroed.bitmap[i]
    <3>1. i \in BitmapIndices(map) /\ i # StrayBit(map)
      BY <1>2
    <3> QED BY <3>1 DEF Zeroed
  <2>2. ClearPages(map, zeroed) = 0 .. n - 1
    BY <2>1 DEF ClearPages
  <2>3. Cardinality(0 .. n - 1) = n
    BY <1>2, FS_Interval, 0 \in Int, n - 1 \in Int
  <2>4. zeroed.freeMemory = n
    BY <1>2, WrapSmall, SizesAssumption DEF Zeroed
  <2> QED BY <2>2, <2>3, <2>4 DEF CountsClearPages
<1>6. constructed = [reserved EXCEPT !.stack = InitPush(reserved.bitmap, BitmapSize(map))]
  BY DEF Constructed, LockMetadata
<1> HIDE DEF zeroed, count, page
<1>7. /\ locked \in Allocators(map)
      /\ \A i \in BitmapIndices(map) :
           locked.bitmap[i] = (zeroed.bitmap[i] \/ i \in Span(page, count))
      /\ CountedPages(locked) = CountedPages(zeroed)
      /\ locked.freeMemory
           = Wrap(zeroed.freeMemory - Cardinality(NewlySet(zeroed, Span(page, count))))
  BY <1>1, <1>3, LockPagesEffect, LockPagesCounts
<1> HIDE DEF locked
<1>8. /\ reserved \in Allocators(map)
      /\ \A i \in BitmapIndices(map) :
           reserved.bitmap[i] = (locked.bitmap[i] \/ i \in FirmwarePages(map))
      /\ CountedPages(reserved) = CountedPages(locked)
      /\ reserved.freeMemory
           = Wrap(locked.freeMemory - Cardinality(NewlySet(locked, FirmwarePages(map))))
  BY <1>1, <1>7, ReservePagesEffect, ReservePagesCounts
<1> HIDE DEF reserved
<1>9. /\ constructed.freeMemory = reserved.freeMemory
      /\ constructed.usedMemory = reserved.usedMemory
      /\ constructed.reservedMemory = reserved.reservedMemory
      /\ constructed.bitmap = reserved.bitmap
  BY <1>6, <1>8 DEF Allocators
<1> HIDE DEF constructed
<1>10. CountedPages(constructed) = Wrap(n)
  BY <1>4, <1>7, <1>8, <1>9 DEF CountedPages
<1>11. ASSUME DescribedPages(map) = 0 .. n - 1
       PROVE  CountsClearPages(map, constructed)
  <2>1. Span(page, count) \subseteq 0 .. n - 1
    BY <1>1, <1>11, AcceptedMaps DEF page, count
  <2>2. FirmwarePages(map) \subseteq 0 .. n - 1
    BY <1>11 DEF FirmwarePages, DescribedPages
  <2>3. CountsClearPages(map, locked)
    <3>1. NewlySet(zeroed, Span(page, count)) \subseteq 0 .. n - 1
      BY <2>1 DEF NewlySet
    <3> QED BY <1>1, <1>2, <1>3, <1>5, <1>7, <3>1, SettingBitsCounts
  <2>4. CountsClearPages(map, reserved)
    <3>1. NewlySet(locked, FirmwarePages(map)) \subseteq 0 .. n - 1
      BY <2>2 DEF NewlySet
    <3> QED BY <1>1, <1>2, <1>7, <1>8, <2>3, <3>1, SettingBitsCounts
  <2> QED BY <1>9, <2>4 DEF CountsClearPages, ClearPages
<1> QED BY <1>10, <1>11 DEF constructed

(* Why the counters are true.  Nothing is lost between them; and while the *)
(* kernel starts, the free counter is the number of clear bits, of which   *)
(* the available pages are some.  Afterwards RequestPage takes one of both *)
(* although the page's bit stays clear, so only the inequality is kept.    *)
CountersInv ==
  /\ CountersConserved
  /\ FreeRamNeverUnderstates
  /\ Contiguous /\ status = "boot" =>
       CountsClearPages(mMap, pmm) /\ Available \subseteq ClearPages(mMap, pmm)

(* The available pages are a finite set.                                   *)
LEMMA AvailableFinite ==
  ASSUME Inv
  PROVE  IsFiniteSet(Available) /\ Cardinality(Available) \in Nat
<1>1. Available \subseteq BitmapIndices(mMap)
  BY AvailablePage DEF AvailableIffListed
<1>2. StrayBit(mMap) \in Nat
  BY MapType, BitmapCoversMemory DEF Inv
<1>3. IsFiniteSet(BitmapIndices(mMap))
  BY <1>2, FS_Interval, 0 \in Int DEF BitmapIndices, StrayBit
<1> QED BY <1>1, <1>3, FS_Subset, FS_CardinalityType

(* Fewer clear bits than the free counter shows are no understatement.     *)
LEMMA AvailableAmongClear ==
  ASSUME Inv, Available \subseteq ClearPages(mMap, pmm), CountsClearPages(mMap, pmm)
  PROVE  FreeRamNeverUnderstates
<1>1. IsFiniteSet(ClearPages(mMap, pmm))
  BY MapType, ClearPagesFinite DEF Inv
<1>2. Cardinality(Available) <= Cardinality(ClearPages(mMap, pmm))
  BY <1>1, FS_Subset
<1> QED BY <1>2 DEF CountsClearPages, FreeRamNeverUnderstates

LEMMA InitCounters == Init => CountersInv
<1> SUFFICES ASSUME Init PROVE CountersInv
  OBVIOUS
<1>1. Inv /\ mMap \in MemoryMaps /\ mMap \in Seq(Descriptors)
  BY InitInv, MapType DEF Inv, TypeOK
<1>2. MemoryPages(mMap) \in Nat
  BY <1>1, MemoryPagesType
<1>3. CASE status = "halted" /\ pmm = Zeroed(mMap, FALSE)
  <2>1. Wrap(MemoryPages(mMap)) \in 0 .. CounterModulus - 1
    BY <1>2, WrapType
  <2>2. Wrap(MemoryPages(mMap)) + 0 + 0 = Wrap(MemoryPages(mMap))
    BY <2>1
  <2>3. CountersConserved
    BY <1>3, <2>1, <2>2, WrapSmall DEF CountersConserved, Zeroed
  <2>4. Available = {}
    BY <1>3 DEF Available, Usable, Zeroed
  <2>5. Cardinality(Available) = 0 /\ pmm.freeMemory \in Nat
    BY <1>1, <2>4, FS_EmptySet DEF Inv, TypeOK, Allocators
  <2>6. FreeRamNeverUnderstates
    BY <2>5 DEF FreeRamNeverUnderstates
  <2> QED BY <1>3, <2>3, <2>6 DEF CountersInv
<1>4. CASE ~ConstructorPanics(mMap) /\ status = "boot"
           /\ \E stray \in BOOLEAN : pmm = Constructed(mMap, stray)
  <2>1. PICK stray \in BOOLEAN : pmm = Constructed(mMap, stray)
    BY <1>4
  <2>2. CountersConserved
    BY <1>1, <1>4, <2>1, ConstructedCounts DEF CountersConserved, CountedPages
  <2>3. Contiguous => CountsClearPages(mMap, pmm)
    BY <1>1, <1>4, <2>1, ConstructedCounts DEF Contiguous
  <2>4. ASSUME NEW i \in Available PROVE i \in ClearPages(mMap, pmm)
    <3>1. i \in BitmapIndices(mMap) /\ BitmapIndices(mMap) = 0 .. StrayBit(mMap)
          /\ StrayBit(mMap) \in Nat
      BY <1>1, AvailablePage, BitmapSizeType DEF AvailableIffListed
    <3>2. PICK k \in DOMAIN pmm.stack : PageOf(pmm.stack[k]) = i /\ ~pmm.bitmap[i]
      BY <1>1, AvailablePage DEF AvailableIffListed
    <3>3. i < BitmapSize(mMap)
      BY <1>1, <2>1, <3>2, ConstructedEffect
    <3>4. BitmapSize(mMap) <= MemoryPages(mMap) /\ BitmapSize(mMap) \in Nat
      BY <1>1, <1>4, BitmapSizeInMemory, BitmapSizeType
    <3>5. i \in 0 .. MemoryPages(mMap) - 1
      BY <1>2, <3>1, <3>3, <3>4
    <3> QED BY <3>2, <3>5 DEF ClearPages
  <2>5. Contiguous => FreeRamNeverUnderstates
    BY <1>1, <2>3, <2>4, AvailableAmongClear
  <2> QED BY <2>2, <2>3, <2>4, <2>5 DEF CountersInv, FreeRamNeverUnderstates
<1> QED BY <1>3, <1>4 DEF Init

LEMMA LockKernelImageCounters ==
  ASSUME Inv, CountersInv, LockKernelImage
  PROVE  CountersInv'
<1>1. /\ Inv' /\ mMap \in MemoryMaps /\ mMap' = mMap
      /\ mMap \in Seq(Descriptors) /\ pmm \in Allocators(mMap)
      /\ status = "boot" /\ status' = "running"
      /\ pmm' = LockPages(pmm, KernelStart, KernelPages)
  BY LockKernelImageInv, MapType DEF Inv, TypeOK, LockKernelImage
<1>2. /\ pmm' \in Allocators(mMap)
      /\ \A i \in BitmapIndices(mMap) : pmm'.bitmap[i] = (pmm.bitmap[i] \/ i \in Image)
  BY <1>1, LockPagesEffect DEF Image
<1>3. /\ CountedPages(pmm') = CountedPages(pmm)
      /\ pmm'.freeMemory = Wrap(pmm.freeMemory - Cardinality(NewlySet(pmm, Image)))
  BY <1>1, LockPagesCounts DEF Image
<1>4. CountersConserved'
  BY <1>1, <1>3 DEF CountersInv, CountersConserved, CountedPages
<1>5. ASSUME Contiguous PROVE FreeRamNeverUnderstates'
  <2>1. NewlySet(pmm, Image) \subseteq 0 .. MemoryPages(mMap) - 1
    BY <1>1, <1>5, ImageAssumption DEF NewlySet, Contiguous
  <2>2. CountsClearPages(mMap, pmm')
    BY <1>1, <1>2, <1>3, <1>5, <2>1, SettingBitsCounts, ImageAssumption DEF CountersInv
  <2>3. AvailableIffListed'
    <3>1. Inv' => AvailableIffListed'
      BY AvailablePage, PTL
    <3> QED BY <1>1, <3>1
  <2>4. Available' \subseteq ClearPages(mMap, pmm)
    BY <1>1, <1>5, LockTakes DEF CountersInv
  <2>5. Available' \subseteq ClearPages(mMap, pmm')
    BY <2>3, <2>4 DEF AvailableIffListed, ClearPages
  <2>6. (Inv /\ Available \subseteq ClearPages(mMap, pmm) /\ CountsClearPages(mMap, pmm)
           => FreeRamNeverUnderstates)'
    BY AvailableAmongClear, PTL
  <2> QED BY <1>1, <2>2, <2>5, <2>6 DEF CountsClearPages, ClearPages
<1>6. FreeRamNeverUnderstates'
  BY <1>1, <1>5 DEF FreeRamNeverUnderstates, Contiguous
<1> QED BY <1>1, <1>4, <1>6 DEF CountersInv

LEMMA RequestCounters ==
  ASSUME Inv, CountersInv, Request
  PROVE  CountersInv'
<1>1. /\ Inv' /\ mMap' = mMap /\ pmm \in Allocators(mMap)
      /\ status = "running" /\ status' = "running"
      /\ pmm' = RequestPage(pmm)
  BY RequestInv DEF Inv, TypeOK, Request
<1> DEFINE f == pmm.freeMemory
           u == pmm.usedMemory
           r == pmm.reservedMemory
<1>2. pmm'.freeMemory = Wrap(f - 1) /\ pmm'.usedMemory = Wrap(u + 1)
      /\ pmm'.reservedMemory = r
  BY <1>1 DEF RequestPage, Allocators
<1>3. f \in 0 .. CounterModulus - 1 /\ f \in Int /\ u \in Int /\ r \in Int
  BY <1>1 DEF Allocators
<1> HIDE DEF f, u, r
<1>4. CountersConserved'
  <2>1. PICK p \in Int : Wrap(f - 1) = f - 1 + p * CounterModulus
    BY <1>3, WrapQuotient, f - 1 \in Int
  <2>2. PICK q \in Int : Wrap(u + 1) = u + 1 + q * CounterModulus
    BY <1>3, WrapQuotient, u + 1 \in Int
  <2>3. \A M \in Int : (f - 1 + p * M) + (u + 1 + q * M) + r = (f + u + r) + (p + q) * M
    BY <1>3
  <2>4. Wrap(f - 1) + Wrap(u + 1) + r = (f + u + r) + (p + q) * CounterModulus
    BY <1>3, <2>1, <2>2, <2>3, SizesAssumption
  <2>5. Wrap(Wrap(f - 1) + Wrap(u + 1) + r) = Wrap(f + u + r)
    BY <1>3, <2>4, WrapRounds, f + u + r \in Int, p + q \in Int
  <2> QED BY <1>1, <1>2, <2>5 DEF CountersInv, CountersConserved, f, u, r
<1>5. ASSUME Contiguous PROVE FreeRamNeverUnderstates'
  <2> DEFINE page == PageOf(RequestedAddress(pmm))
  <2>1. page \in Available /\ Available' = Available \ {page}
    BY RequestTakesOne
  <2>2. IsFiniteSet(Available) /\ Cardinality(Available) \in Nat
    BY AvailableFinite
  <2>3. Cardinality(Available') = Cardinality(Available) - 1
    BY <2>1, <2>2, FS_RemoveElement
  <2>4. Cardinality(Available) # 0
    BY <2>1, <2>2, FS_EmptySet
  <2>5. Cardinality(Available) <= f
    BY <1>5 DEF CountersInv, FreeRamNeverUnderstates, f
  <2>6. f - 1 \in 0 .. CounterModulus - 1
    BY <1>3, <2>2, <2>4, <2>5, SizesAssumption
  <2>7. pmm'.freeMemory = f - 1
    BY <1>2, <2>6, WrapSmall
  <2> QED BY <1>3, <2>2, <2>3, <2>5, <2>7 DEF FreeRamNeverUnderstates
<1>6. FreeRamNeverUnderstates'
  BY <1>1, <1>5 DEF FreeRamNeverUnderstates, Contiguous
<1> QED BY <1>1, <1>4, <1>6 DEF CountersInv

LEMMA RequestUnderflowCounters ==
  ASSUME Inv, CountersInv, RequestUnderflow
  PROVE  CountersInv'
<1>1. /\ Inv' /\ mMap' = mMap /\ pmm' = [pmm EXCEPT !.stack = << >>]
      /\ status' = "underflow" /\ pmm \in Allocators(mMap)
  BY RequestUnderflowInv DEF Inv, TypeOK, RequestUnderflow
<1>2. /\ pmm'.freeMemory = pmm.freeMemory /\ pmm'.usedMemory = pmm.usedMemory
      /\ pmm'.reservedMemory = pmm.reservedMemory
  BY <1>1 DEF Allocators
<1>3. CountersConserved'
  BY <1>1, <1>2 DEF CountersInv, CountersConserved
<1>4. Cardinality(Available') = 0
  BY UnderflowTakes, FS_EmptySet
<1>5. pmm.freeMemory \in Nat
  BY <1>1 DEF Allocators
<1> QED BY <1>1, <1>2, <1>3, <1>4, <1>5 DEF CountersInv, FreeRamNeverUnderstates

(* The three counters keep the books of memory for every sequence of       *)
(* requests and frees, on every map of the firmware.                       *)
THEOREM CountersStayTrue == Spec => []CountersAreTrue
<1>1. Inv /\ CountersInv /\ [Next]_vars => CountersInv'
  <2> SUFFICES ASSUME Inv, CountersInv, Next \/ UNCHANGED vars PROVE CountersInv'
    OBVIOUS
  <2>1. CASE LockKernelImage
    BY <2>1, LockKernelImageCounters
  <2>2. CASE Request
    BY <2>2, RequestCounters
  <2>3. CASE RequestUnderflow
    BY <2>3, RequestUnderflowCounters
  <2>4. ASSUME NEW page \in BitmapIndices(mMap), Free(page) PROVE CountersInv'
    <3>1. pmm' = pmm /\ mMap' = mMap /\ status' = status
      BY <2>4, FreeHeldPage DEF Free
    <3> QED BY <3>1 DEF CountersInv, CountersConserved, FreeRamNeverUnderstates, Contiguous,
                        CountsClearPages, ClearPages, Available, Usable
  <2>5. CASE UNCHANGED vars
    BY <2>5 DEF vars, CountersInv, CountersConserved, FreeRamNeverUnderstates, Contiguous,
                CountsClearPages, ClearPages, Available, Usable
  <2> QED BY <2>1, <2>2, <2>3, <2>4, <2>5 DEF Next
<1>2. CountersInv => CountersAreTrue
  BY DEF CountersInv, CountersAreTrue
<1> QED BY <1>1, <1>2, InitCounters, Invariance, PTL DEF Spec

-------------------------------------------------------------------------------
(* The whole interface.  The books of an allocator: no page is on the stack*)
(* twice, those on it are the allocator's or were locked while they were   *)
(* there, and a set bit tells that somebody keeps the page.                *)

ReservedOf(owners) == {p \in DOMAIN owners : owners[p] = "reserved"}

BitsTell(map, pfa, owners) ==
  \A p \in BitmapIndices(map) : pfa.bitmap[p] <=> owners[p] \in Keepers

StackTells(pfa, owners) ==
  \A k \in DOMAIN pfa.stack : owners[PageOf(pfa.stack[k])] \in {"allocator", "locked"}

Books(map, pfa, owners) ==
  /\ pfa \in Allocators(map) /\ owners \in [BitmapIndices(map) -> Owners]
  /\ Words(pfa, map) /\ BitsTell(map, pfa, owners) /\ StackTells(pfa, owners)
  /\ pfa.reservedMemory = Wrap(Cardinality(ReservedOf(owners)))

(* A page that is given back and gets onto the stack was not there.        *)
Pushes(map, pfa, owners, p, after, later) ==
  /\ p \notin Stacked(pfa)
  /\ after \in Allocators(map) /\ after.stack = Append(pfa.stack, p * PageSize)
  /\ after.bitmap = [pfa.bitmap EXCEPT ![p] = FALSE]
  /\ later = [owners EXCEPT ![p] = "allocator"]

LEMMA PushKeepsWords ==
  ASSUME NEW map \in Seq(Descriptors), NEW pfa, NEW owners, Books(map, pfa, owners),
         NEW p \in 0 .. MemoryPages(map) - 1, NEW after, NEW later,
         Pushes(map, pfa, owners, p, after, later)
  PROVE  /\ Words(after, map) /\ BitsTell(map, after, later) /\ StackTells(after, later)
         /\ Stacked(after) \subseteq Stacked(pfa) \union {p}
         /\ later \in [BitmapIndices(map) -> Owners]
<1>. USE DEF Pushes
<1>1. p \in Nat /\ p \in BitmapIndices(map)
  BY BitmapCoversMemory
<1>2. p * PageSize \in Nat /\ PageOf(p * PageSize) = p
  BY <1>1, PageOfAddress, SizesAssumption
<1>3. /\ pfa.stack \in Seq(Nat) /\ Len(pfa.stack) \in Nat
      /\ DOMAIN pfa.stack = 1 .. Len(pfa.stack)
      /\ pfa.bitmap \in [BitmapIndices(map) -> BOOLEAN]
      /\ owners \in [BitmapIndices(map) -> Owners]
  BY LenProperties DEF Books, Allocators
<1>. DEFINE n == Len(pfa.stack)
<1>4. /\ DOMAIN after.stack = 1 .. n + 1
      /\ \A k \in 1 .. n : after.stack[k] = pfa.stack[k]
      /\ after.stack[n + 1] = p * PageSize
  BY <1>2, <1>3, AppendProperties
<1>5. \A k \in 1 .. n : PageOf(after.stack[k]) # p
  BY <1>3, <1>4 DEF Stacked
<1>6. Words(pfa, map)
  BY DEF Books
<1>7. Words(after, map)
  <2>1. ASSUME NEW k \in DOMAIN after.stack
        PROVE  /\ PageOf(after.stack[k]) \in BitmapIndices(map)
               /\ PageOf(after.stack[k]) \in 0 .. MemoryPages(map) - 1
    <3>1. CASE k = n + 1
      BY <1>1, <1>2, <1>4, <3>1
    <3>2. CASE k # n + 1
      <4>1. k \in 1 .. n
        BY <1>3, <1>4, <3>2
      <4>. QED
        BY <1>3, <1>4, <1>6, <4>1 DEF Words
    <3>. QED
      BY <3>1, <3>2
  <2>2. ASSUME NEW k \in DOMAIN after.stack, NEW l \in DOMAIN after.stack,
               PageOf(after.stack[k]) = PageOf(after.stack[l])
        PROVE  k = l
    <3>1. CASE k \in 1 .. n /\ l \in 1 .. n
      BY <1>3, <1>4, <1>6, <2>2, <3>1 DEF Words
    <3>2. k \in 1 .. n \/ k = n + 1
      BY <1>3, <1>4
    <3>3. l \in 1 .. n \/ l = n + 1
      BY <1>3, <1>4
    <3>. QED
      BY <1>2, <1>4, <1>5, <2>2, <3>1, <3>2, <3>3
  <2>. QED
    BY <2>1, <2>2 DEF Words
<1>8. BitsTell(map, pfa, owners) /\ StackTells(pfa, owners)
  BY DEF Books
<1>9. BitsTell(map, after, later)
  BY <1>1, <1>3, <1>8 DEF BitsTell, Keepers
<1>10. StackTells(after, later)
  <2>1. ASSUME NEW k \in DOMAIN after.stack
        PROVE  later[PageOf(after.stack[k])] \in {"allocator", "locked"}
    <3>1. CASE k = n + 1
      BY <1>1, <1>2, <1>3, <1>4, <3>1
    <3>2. CASE k # n + 1
      <4>1. k \in 1 .. n
        BY <1>3, <1>4, <3>2
      <4>2. PageOf(pfa.stack[k]) # p /\ PageOf(pfa.stack[k]) \in BitmapIndices(map)
        BY <1>3, <1>4, <1>5, <1>6, <4>1 DEF Words
      <4>. QED
        BY <1>3, <1>4, <1>8, <4>1, <4>2 DEF StackTells
    <3>. QED
      BY <3>1, <3>2
  <2>. QED
    BY <2>1 DEF StackTells
<1>11. Stacked(after) \subseteq Stacked(pfa) \union {p}
  <2>1. ASSUME NEW k \in DOMAIN after.stack
        PROVE  PageOf(after.stack[k]) \in Stacked(pfa) \union {p}
    <3>1. k = n + 1 \/ k \in 1 .. n
      BY <1>3, <1>4
    <3>. QED
      BY <1>2, <1>3, <1>4, <3>1 DEF Stacked
  <2>. QED
    BY <2>1 DEF Stacked
<1>12. later \in [BitmapIndices(map) -> Owners]
  BY <1>3 DEF Owners
<1>. QED
  BY <1>7, <1>9, <1>10, <1>11, <1>12

(* Whose a page is after it was given back.                                *)
FreedBy(previous) == IF previous = "holder" THEN "lost" ELSE "allocator"

Returnable(call, pfa, owners, p) ==
  IF call = "free"
  THEN owners[p] = "holder" \/ (owners[p] = "locked" /\ p \notin Stacked(pfa))
  ELSE owners[p] = "reserved"

LEMMA ReservedFinite ==
  ASSUME NEW map \in Seq(Descriptors), NEW owners \in [BitmapIndices(map) -> Owners]
  PROVE  IsFiniteSet(ReservedOf(owners)) /\ Cardinality(ReservedOf(owners)) \in Nat
<1>1. IsFiniteSet(BitmapIndices(map))
  BY BitmapSizeType, FS_Interval, 0 \in Int, StrayBit(map) \in Int
<1>2. ReservedOf(owners) \subseteq BitmapIndices(map)
  BY DEF ReservedOf
<1>. QED
  BY <1>1, <1>2, FS_Subset, FS_CardinalityType

LEMMA GiveBackKeepsBooks ==
  ASSUME NEW map \in Seq(Descriptors), NEW pfa, NEW owners, Books(map, pfa, owners),
         NEW call, NEW p \in 0 .. MemoryPages(map) - 1, Returnable(call, pfa, owners, p)
  PROVE  /\ Books(map, GiveBack(call, pfa, p), [owners EXCEPT ![p] = FreedBy(owners[p])])
         /\ Stacked(GiveBack(call, pfa, p)) \subseteq Stacked(pfa) \union {p}
<1>. DEFINE after == GiveBack(call, pfa, p)
            later == [owners EXCEPT ![p] = FreedBy(owners[p])]
<1>1. p \in Nat /\ p \in BitmapIndices(map)
  BY BitmapCoversMemory
<1>2. p * PageSize \in Nat /\ PageOf(p * PageSize) = p
  BY <1>1, PageOfAddress, SizesAssumption
<1>3. /\ pfa.stack \in Seq(Nat) /\ pfa.bitmap \in [BitmapIndices(map) -> BOOLEAN]
      /\ owners \in [BitmapIndices(map) -> Owners] /\ pfa \in Allocators(map)
      /\ DOMAIN pfa.bitmap = BitmapIndices(map)
      /\ pfa.freeMemory \in Int /\ pfa.usedMemory \in Int /\ pfa.reservedMemory \in Int
  BY DEF Books, Allocators
<1>4. /\ Words(pfa, map) /\ BitsTell(map, pfa, owners) /\ StackTells(pfa, owners)
      /\ pfa.reservedMemory = Wrap(Cardinality(ReservedOf(owners)))
  BY DEF Books
<1>5. Append(pfa.stack, p * PageSize) \in Seq(Nat)
  BY <1>2, <1>3, AppendProperties
<1>6. CASE call = "free" /\ owners[p] = "holder"
  <2>1. ~InUse(pfa, p)
    BY <1>1, <1>3, <1>4, <1>6 DEF BitsTell, Keepers, InUse
  <2>2. after = pfa
    BY <1>2, <1>6, <2>1 DEF GiveBack, FreePage
  <2>3. later = [owners EXCEPT ![p] = "lost"]
    BY <1>6 DEF FreedBy
  <2>4. later \in [BitmapIndices(map) -> Owners]
    BY <1>3, <2>3 DEF Owners
  <2>5. BitsTell(map, pfa, later)
    BY <1>1, <1>3, <1>4, <1>6, <2>3 DEF BitsTell, Keepers
  <2>6. StackTells(pfa, later)
    <3>1. ASSUME NEW k \in DOMAIN pfa.stack
          PROVE  later[PageOf(pfa.stack[k])] \in {"allocator", "locked"}
      <4>1. /\ owners[PageOf(pfa.stack[k])] \in {"allocator", "locked"}
            /\ PageOf(pfa.stack[k]) \in BitmapIndices(map)
        BY <1>4 DEF StackTells, Words
      <4>2. PageOf(pfa.stack[k]) # p
        BY <1>6, <4>1
      <4>. QED
        BY <1>3, <2>3, <4>1, <4>2
    <3>. QED
      BY <3>1 DEF StackTells
  <2>7. ReservedOf(later) = ReservedOf(owners)
    BY <1>1, <1>3, <1>6, <2>3 DEF ReservedOf
  <2>. QED
    BY <1>3, <1>4, <2>2, <2>4, <2>5, <2>6, <2>7 DEF Books
<1>7. CASE owners[p] # "holder"
  <2>1. owners[p] \in {"locked", "reserved"} /\ p \notin Stacked(pfa)
    <3>1. owners[p] = "reserved" => p \notin Stacked(pfa)
      BY <1>4 DEF StackTells, Stacked
    <3>. QED
      BY <1>7, <3>1 DEF Returnable
  <2>2. InUse(pfa, p)
    BY <1>1, <1>3, <1>4, <2>1 DEF BitsTell, Keepers, InUse
  <2>3. later = [owners EXCEPT ![p] = "allocator"]
    BY <1>7 DEF FreedBy
  <2>4. /\ after \in Allocators(map) /\ after.stack = Append(pfa.stack, p * PageSize)
        /\ after.bitmap = [pfa.bitmap EXCEPT ![p] = FALSE]
        /\ after.reservedMemory = IF call = "free" THEN pfa.reservedMemory ELSE Wrap(pfa.reservedMemory - 1)
    <3>1. [pfa.bitmap EXCEPT ![p] = FALSE] \in [BitmapIndices(map) -> BOOLEAN]
      BY <1>3
    <3>2. /\ Wrap(pfa.freeMemory + 1) \in 0 .. CounterModulus - 1
          /\ Wrap(pfa.usedMemory - 1) \in 0 .. CounterModulus - 1
          /\ Wrap(pfa.reservedMemory - 1) \in 0 .. CounterModulus - 1
      <4>1. /\ pfa.freeMemory + 1 \in Int /\ pfa.usedMemory - 1 \in Int
            /\ pfa.reservedMemory - 1 \in Int
        BY <1>3
      <4>. QED
        BY <4>1, WrapType
    <3>3. CASE call = "free"
      <4>1. after = [pfa EXCEPT !.bitmap[p] = FALSE, !.freeMemory = Wrap(@ + 1),
                                !.usedMemory = Wrap(@ - 1),
                                !.stack = Append(@, p * PageSize)]
        BY <1>2, <2>2, <3>3 DEF GiveBack, FreePage
      <4>. HIDE DEF after
      <4>. QED
        BY <1>3, <1>5, <3>1, <3>2, <3>3, <4>1 DEF Allocators
    <3>4. CASE call # "free"
      <4>1. after = [pfa EXCEPT !.bitmap[p] = FALSE, !.freeMemory = Wrap(@ + 1),
                                !.reservedMemory = Wrap(@ - 1),
                                !.stack = Append(@, p * PageSize)]
        BY <1>2, <2>2, <3>4 DEF GiveBack, UnreservePage
      <4>. HIDE DEF after
      <4>. QED
        BY <1>3, <1>5, <3>1, <3>2, <3>4, <4>1 DEF Allocators
    <3>. QED
      BY <3>3, <3>4
  <2>. HIDE DEF after, later
  <2>5. /\ Words(after, map) /\ BitsTell(map, after, later) /\ StackTells(after, later)
        /\ Stacked(after) \subseteq Stacked(pfa) \union {p}
        /\ later \in [BitmapIndices(map) -> Owners]
    <3>1. Pushes(map, pfa, owners, p, after, later)
      BY <2>1, <2>3, <2>4 DEF Pushes
    <3>. QED
      BY <3>1, PushKeepsWords
  <2>6. after.reservedMemory = Wrap(Cardinality(ReservedOf(later)))
    <3>1. CASE call = "free"
      <4>1. ReservedOf(later) = ReservedOf(owners)
        BY <1>1, <1>3, <2>1, <2>3, <3>1 DEF ReservedOf, Returnable
      <4>. QED
        BY <1>4, <2>4, <3>1, <4>1
    <3>2. CASE call # "free"
      <4>. DEFINE c == Cardinality(ReservedOf(owners))
      <4>1. owners[p] = "reserved"
        BY <3>2 DEF Returnable
      <4>2. p \in ReservedOf(owners) /\ ReservedOf(later) = ReservedOf(owners) \ {p}
        BY <1>1, <1>3, <2>3, <4>1 DEF ReservedOf
      <4>3. c \in Nat /\ Cardinality(ReservedOf(later)) = c - 1
        BY <1>3, <4>2, ReservedFinite, FS_RemoveElement
      <4>4. PICK q \in Int : Wrap(c) = c + q * CounterModulus
        BY <4>3, WrapQuotient
      <4>5. c - 1 \in Int /\ Wrap(c) - 1 = (c - 1) + q * CounterModulus
        <5>1. q * CounterModulus \in Int
          BY SizesAssumption
        <5>. QED
          BY <4>3, <4>4, <5>1
      <4>6. Wrap(Wrap(c) - 1) = Wrap(c - 1)
        BY <4>5, WrapRounds
      <4>. QED
        BY <1>4, <2>4, <3>2, <4>3, <4>6
    <3>. QED
      BY <3>1, <3>2
  <2>7. Books(map, after, later) /\ Stacked(after) \subseteq Stacked(pfa) \union {p}
    BY <2>4, <2>5, <2>6 DEF Books
  <2>. QED
    BY <2>7 DEF after, later
<1>. QED
  BY <1>6, <1>7 DEF Returnable

(* Page after page.                                                        *)
IsReturn(after, call, pfa, page, count) ==
  after = [n \in 0 .. count |->
             IF n = 0 THEN pfa ELSE GiveBack(call, after[n - 1], page + n - 1)]

LEMMA ReturnExists ==
  ASSUME NEW call, NEW pfa, NEW page, NEW count \in Nat
  PROVE  \E after : IsReturn(after, call, pfa, page, count)
<1>. DEFINE Bad == {m \in Nat : ~\E after : IsReturn(after, call, pfa, page, m)}
<1>1. SUFFICES ASSUME Bad # {} PROVE FALSE
  BY DEF Bad
<1>2. PICK m \in Bad : \A l \in Bad : m <= l
  BY <1>1, SmallestExists
<1>3. m \in Nat
  OBVIOUS
<1>4. m # 0
  <2>. DEFINE f == [n \in 0 .. 0 |-> pfa]
  <2>1. f = [n \in 0 .. 0 |-> IF n = 0 THEN pfa ELSE GiveBack(call, f[n - 1], page + n - 1)]
    OBVIOUS
  <2>. HIDE DEF f
  <2>2. IsReturn(f, call, pfa, page, 0)
    BY <2>1 DEF IsReturn
  <2>. QED
    BY <2>2
<1>5. m - 1 \in Nat /\ m - 1 \notin Bad
  BY <1>2, <1>3, <1>4
<1>6. PICK f : IsReturn(f, call, pfa, page, m - 1)
  BY <1>5
<1>. DEFINE g == [n \in 0 .. m |->
                    IF n = m THEN GiveBack(call, f[m - 1], page + m - 1) ELSE f[n]]
<1>7. \A n \in 0 .. m - 1 : f[n] = IF n = 0 THEN pfa ELSE GiveBack(call, f[n - 1], page + n - 1)
  BY <1>6 DEF IsReturn
<1>8. g = [n \in 0 .. m |-> IF n = 0 THEN pfa ELSE GiveBack(call, g[n - 1], page + n - 1)]
  <2>1. \A n \in 0 .. m : n # m => n \in 0 .. m - 1
    BY <1>3
  <2>2. \A n \in 0 .. m : n # 0 => n - 1 \in 0 .. m /\ n - 1 # m
    BY <1>3
  <2>3. \A n \in 0 .. m : g[n] = IF n = 0 THEN pfa ELSE GiveBack(call, g[n - 1], page + n - 1)
    BY <1>4, <1>7, <2>1, <2>2
  <2>. QED
    BY <2>3
<1>. HIDE DEF g
<1>9. IsReturn(g, call, pfa, page, m)
  BY <1>8 DEF IsReturn
<1>. QED
  BY <1>9

(* What the owners are when these pages were given back.                   *)
ReturnedFrom(owners, pages) ==
  [p \in DOMAIN owners |-> IF p \in pages THEN FreedBy(owners[p]) ELSE owners[p]]

ReturnedApart(map, pfa, owners, page, after, n) ==
  /\ Books(map, after[n], ReturnedFrom(owners, Span(page, n)))
  /\ Stacked(after[n]) \subseteq Stacked(pfa) \union Span(page, n)

(* The pages that were given back are no page that still is.               *)
LEMMA ReturnStep ==
  ASSUME NEW map \in Seq(Descriptors), NEW pfa, NEW owners, NEW call, NEW page \in Nat,
         NEW n \in Nat, NEW after, Books(map, pfa, owners),
         page + n \in 0 .. MemoryPages(map) - 1,
         Returnable(call, pfa, owners, page + n),
         ReturnedApart(map, pfa, owners, page, after, n),
         after[n + 1] = GiveBack(call, after[n], page + n)
  PROVE  ReturnedApart(map, pfa, owners, page, after, n + 1)
<1>. DEFINE p == page + n
            before == ReturnedFrom(owners, Span(page, n))
            later == ReturnedFrom(owners, Span(page, n + 1))
<1>1. /\ p \in Nat /\ p \in BitmapIndices(map) /\ p \notin Span(page, n)
      /\ Span(page, n + 1) = Span(page, n) \union {p}
  <2>1. p \in BitmapIndices(map)
    BY BitmapCoversMemory
  <2>. QED
    BY <2>1 DEF Span
<1>2. owners \in [BitmapIndices(map) -> Owners]
  BY DEF Books
<1>3. Books(map, after[n], before) /\ Stacked(after[n]) \subseteq Stacked(pfa) \union Span(page, n)
  BY DEF ReturnedApart
<1>4. before[p] = owners[p]
  BY <1>1, <1>2 DEF ReturnedFrom
<1>5. later = [before EXCEPT ![p] = FreedBy(before[p])]
  <2>1. DOMAIN before = BitmapIndices(map) /\ DOMAIN later = BitmapIndices(map)
    BY <1>2 DEF ReturnedFrom
  <2>2. ASSUME NEW i \in BitmapIndices(map)
        PROVE  later[i] = IF i = p THEN FreedBy(before[p]) ELSE before[i]
    <3>1. CASE i = p
      BY <1>1, <1>2, <1>4, <3>1 DEF ReturnedFrom
    <3>2. CASE i # p
      BY <1>1, <1>2, <3>2 DEF ReturnedFrom
    <3>. QED
      BY <3>1, <3>2
  <2>3. later = [i \in BitmapIndices(map) |-> later[i]]
        /\ before = [i \in BitmapIndices(map) |-> before[i]]
    BY <2>1 DEF ReturnedFrom
  <2>. HIDE DEF before, later, p
  <2>. QED
    BY <2>1, <2>2, <2>3
<1>6. Returnable(call, after[n], before, p)
  <2>1. p \in Stacked(after[n]) => p \in Stacked(pfa)
    BY <1>1, <1>3
  <2>. QED
    BY <1>4, <2>1 DEF Returnable
<1>7. p \in 0 .. MemoryPages(map) - 1
  OBVIOUS
<1>. HIDE DEF before, later, p
<1>8. /\ Books(map, GiveBack(call, after[n], p), [before EXCEPT ![p] = FreedBy(before[p])])
      /\ Stacked(GiveBack(call, after[n], p)) \subseteq Stacked(after[n]) \union {p}
  BY <1>3, <1>6, <1>7, GiveBackKeepsBooks
<1>9. after[n + 1] = GiveBack(call, after[n], p)
  BY DEF p
<1>. QED
  BY <1>1, <1>3, <1>5, <1>8, <1>9 DEF ReturnedApart, later

LEMMA ReturnKeepsBooks ==
  ASSUME NEW map \in Seq(Descriptors), NEW pfa, NEW owners, NEW call, NEW page \in Nat,
         NEW count \in Nat, NEW after, Books(map, pfa, owners),
         IsReturn(after, call, pfa, page, count),
         Span(page, count) \subseteq 0 .. MemoryPages(map) - 1,
         \A p \in Span(page, count) : Returnable(call, pfa, owners, p)
  PROVE  \A n \in 0 .. count : ReturnedApart(map, pfa, owners, page, after, n)
<1>. DEFINE Bad == {n \in Nat : n <= count /\ ~ReturnedApart(map, pfa, owners, page, after, n)}
<1>1. SUFFICES ASSUME Bad # {} PROVE FALSE
  BY DEF Bad
<1>2. PICK n \in Bad : \A l \in Bad : n <= l
  BY <1>1, SmallestExists
<1>3. n \in Nat /\ n <= count /\ ~ReturnedApart(map, pfa, owners, page, after, n)
  BY DEF Bad
<1>4. /\ after[0] = pfa
      /\ \A l \in 0 .. count : l # 0 => after[l] = GiveBack(call, after[l - 1], page + l - 1)
  BY DEF IsReturn
<1>5. n # 0
  <2>1. Span(page, 0) = {}
    BY DEF Span
  <2>2. owners = [p \in DOMAIN owners |-> owners[p]]
    BY DEF Books
  <2>3. ReturnedFrom(owners, {}) = owners
    BY <2>2 DEF ReturnedFrom
  <2>4. ReturnedApart(map, pfa, owners, page, after, 0)
    BY <1>4, <2>1, <2>3 DEF ReturnedApart
  <2>. QED
    BY <1>3, <2>4
<1>6. n - 1 \in Nat /\ n - 1 \notin Bad /\ n - 1 < count /\ (n - 1) + 1 = n
  BY <1>2, <1>3, <1>5
<1>7. ReturnedApart(map, pfa, owners, page, after, n - 1)
  BY <1>3, <1>6 DEF Bad
<1>8. after[(n - 1) + 1] = GiveBack(call, after[n - 1], page + (n - 1))
  <2>1. n \in 0 .. count /\ page + n - 1 = page + (n - 1)
    BY <1>3
  <2>. QED
    BY <1>4, <1>5, <1>6, <2>1
<1>9. page + (n - 1) \in Span(page, count)
  BY <1>3, <1>6 DEF Span
<1>10. page + (n - 1) \in 0 .. MemoryPages(map) - 1 /\ Returnable(call, pfa, owners, page + (n - 1))
  BY <1>9
<1>11. ReturnedApart(map, pfa, owners, page, after, (n - 1) + 1)
  BY <1>6, <1>7, <1>8, <1>10, ReturnStep
<1>. QED
  BY <1>3, <1>6, <1>11

(* What FreePages and UnreservePages leave.                                *)
LEMMA GivenBackKeepsBooks ==
  ASSUME interfaceMap \in Seq(Descriptors), Books(interfaceMap, interfacePmm, owner),
         NEW call, NEW page \in Nat, NEW count \in Nat,
         Span(page, count) \subseteq Memory,
         \A p \in Span(page, count) : Returnable(call, interfacePmm, owner, p)
  PROVE  Books(interfaceMap, GivenBack(call, page, count), Returned(Span(page, count)))
<1>. DEFINE after[n \in 0 .. count] ==
              IF n = 0 THEN interfacePmm ELSE GiveBack(call, after[n - 1], page + n - 1)
<1>1. GivenBack(call, page, count) = after[count]
  BY DEF GivenBack
<1>2. IsReturn(after, call, interfacePmm, page, count)
  <2>1. \E f : f = [n \in 0 .. count |->
                      IF n = 0 THEN interfacePmm ELSE GiveBack(call, f[n - 1], page + n - 1)]
    <3>1. PICK f : IsReturn(f, call, interfacePmm, page, count)
      BY ReturnExists
    <3>. QED
      BY <3>1 DEF IsReturn
  <2>2. after = [n \in 0 .. count |->
                   IF n = 0 THEN interfacePmm ELSE GiveBack(call, after[n - 1], page + n - 1)]
    BY <2>1
  <2>. HIDE DEF after
  <2>. QED
    BY <2>2 DEF IsReturn
<1>. HIDE DEF after
<1>3. ReturnedApart(interfaceMap, interfacePmm, owner, page, after, count)
  BY <1>2, ReturnKeepsBooks DEF Memory
<1>4. Returned(Span(page, count)) = ReturnedFrom(owner, Span(page, count))
  BY DEF Returned, ReturnedFrom, FreedBy
<1>. QED
  BY <1>1, <1>3, <1>4 DEF ReturnedApart

LEMMA InterfaceStarts == InterfaceInit => Books(interfaceMap, interfacePmm, owner)
<1>. SUFFICES ASSUME InterfaceInit PROVE Books(interfaceMap, interfacePmm, owner)
  OBVIOUS
<1>. DEFINE map == interfaceMap
<1>1. PICK stray \in BOOLEAN :
        interfacePmm = Constructed(map, stray) /\ owner = FirstOwners(map, stray)
  BY DEF InterfaceInit
<1>2. map \in Seq(Descriptors) /\ ~ConstructorPanics(map)
  BY InterfaceAssumption DEF InterfaceInit
<1>. DEFINE locked == LockMetadata(map, stray)
            reserved == ReservePages(locked, FirmwarePages(map))
            stack == InitPush(reserved.bitmap, BitmapSize(map))
            new == NewlySet(locked, FirmwarePages(map))
<1>3. interfacePmm = [reserved EXCEPT !.stack = stack]
  BY <1>1 DEF Constructed
<1>4. locked \in Allocators(map) /\ locked.reservedMemory = 0
  <2>. DEFINE zeroed == Zeroed(map, stray)
  <2>1. zeroed \in Allocators(map) /\ zeroed.reservedMemory = 0
    BY <1>2, ZeroedType DEF Zeroed
  <2>. HIDE DEF zeroed
  <2>2. \A page, count : /\ LockPages(zeroed, page, count) \in Allocators(map)
                         /\ LockPages(zeroed, page, count).reservedMemory = 0
    BY <1>2, <2>1, LockPagesEffect DEF LockPages, Allocators
  <2>. QED
    BY <2>2 DEF LockMetadata, zeroed
<1>. HIDE DEF locked
<1>5. /\ reserved \in Allocators(map)
      /\ \A i \in BitmapIndices(map) : reserved.bitmap[i] = (locked.bitmap[i] \/ i \in FirmwarePages(map))
      /\ reserved.reservedMemory = Wrap(Cardinality(new))
  <2>1. reserved.reservedMemory = Wrap(0 + Cardinality(new))
    BY <1>4 DEF ReservePages, Allocators
  <2>2. Cardinality(new) \in Nat
    BY <1>2, <1>4, NewlySetCardinality
  <2>. QED
    BY <1>2, <1>4, <2>1, <2>2, ReservePagesEffect
<1>. HIDE DEF reserved, new
<1>6. reserved.bitmap \in [BitmapIndices(map) -> BOOLEAN]
  BY <1>5 DEF Allocators
<1>7. /\ stack \in Seq(Nat)
      /\ \A k \in DOMAIN stack :
           /\ PageOf(stack[k]) \in BitmapIndices(map)
           /\ PageOf(stack[k]) < BitmapSize(map)
           /\ \A l \in DOMAIN stack : PageOf(stack[k]) = PageOf(stack[l]) => k = l
      /\ \A k \in DOMAIN stack : ~reserved.bitmap[PageOf(stack[k])]
  BY <1>2, <1>6, InitPushEntries
<1>. HIDE DEF stack
<1>8. /\ interfacePmm \in Allocators(map) /\ interfacePmm.stack = stack
      /\ interfacePmm.bitmap = reserved.bitmap
      /\ interfacePmm.reservedMemory = reserved.reservedMemory
  BY <1>3, <1>5, <1>7 DEF Allocators
<1>9. BitmapIndices(map) \subseteq Nat
  BY <1>2, BitmapSizeType
<1>10. Words(interfacePmm, map)
  <2>1. \A i \in BitmapIndices(map) : i < BitmapSize(map) => i \in 0 .. MemoryPages(map) - 1
    BY <1>2, <1>9, BitmapSizeType, BitmapSizeInMemory, MemoryPagesType
  <2>. QED
    BY <1>7, <1>8, <2>1 DEF Words
<1>11. DOMAIN locked.bitmap = BitmapIndices(map)
       /\ \A i \in BitmapIndices(map) : InUse(locked, i) <=> locked.bitmap[i]
  BY <1>4 DEF Allocators, InUse
<1>12. /\ owner \in [BitmapIndices(map) -> Owners]
       /\ \A i \in BitmapIndices(map) :
            owner[i] = IF locked.bitmap[i] THEN "metadata"
                       ELSE IF i \in FirmwarePages(map) THEN "reserved" ELSE "allocator"
  <2>1. owner = [i \in BitmapIndices(map) |->
                   IF InUse(locked, i) THEN "metadata"
                   ELSE IF i \in FirmwarePages(map) THEN "reserved" ELSE "allocator"]
    BY <1>1 DEF FirstOwners, locked
  <2>. QED
    BY <1>11, <2>1 DEF Owners
<1>13. BitsTell(map, interfacePmm, owner)
  BY <1>4, <1>5, <1>8, <1>12 DEF BitsTell, Keepers, Allocators
<1>14. StackTells(interfacePmm, owner)
  <2>1. \A i \in BitmapIndices(map) : ~reserved.bitmap[i] => owner[i] = "allocator"
    BY <1>5, <1>12
  <2>. QED
    BY <1>7, <1>8, <2>1 DEF StackTells
<1>15. ReservedOf(owner) = new
  <2>1. new = {i \in FirmwarePages(map) \intersect BitmapIndices(map) : ~locked.bitmap[i]}
    BY <1>11 DEF new, NewlySet
  <2>. QED
    BY <1>12, <2>1 DEF ReservedOf
<1>. QED
  BY <1>5, <1>8, <1>10, <1>12, <1>13, <1>14, <1>15 DEF Books

InterfaceInv ==
  interfaceMap \in InterfaceMaps /\ Books(interfaceMap, interfacePmm, owner)

LEMMA RequestAnyKeepsBooks == InterfaceInv /\ RequestAny => InterfaceInv'
<1>. SUFFICES ASSUME InterfaceInv, RequestAny PROVE InterfaceInv'
  OBVIOUS
<1>. DEFINE p == interfacePmm
            q == RequestPage(p)
            f == PageOf(RequestedAddress(p))
<1>1. /\ interfaceMap \in Seq(Descriptors) /\ p \in Allocators(interfaceMap)
      /\ Words(p, interfaceMap) /\ BitsTell(interfaceMap, p, owner) /\ StackTells(p, owner)
      /\ owner \in [BitmapIndices(interfaceMap) -> Owners]
      /\ p.reservedMemory = Wrap(Cardinality(ReservedOf(owner)))
  BY InterfaceAssumption DEF InterfaceInv, Books
<1>2. Usable(p) # {} /\ interfacePmm' = q /\ interfaceMap' = interfaceMap
      /\ owner' = Owned({f}, "holder", Owners)
  BY DEF RequestAny
<1>3. Takes(p, interfaceMap, f, q)
  BY <1>1, <1>2, RequestTakes
<1>4. q.reservedMemory = p.reservedMemory
  BY <1>1 DEF RequestPage, Allocators
<1>. HIDE DEF q, f
<1>5. /\ q \in Allocators(interfaceMap) /\ Words(q, interfaceMap) /\ q.bitmap = p.bitmap
      /\ DOMAIN q.stack \subseteq DOMAIN p.stack
      /\ \A k \in DOMAIN q.stack : q.stack[k] = p.stack[k]
      /\ f \in Pool(p) /\ f \notin Pool(q)
  BY <1>3 DEF Takes
<1>6. f \in BitmapIndices(interfaceMap) /\ ~p.bitmap[f]
  BY <1>1, <1>5, PoolPages
<1>7. owner[f] \notin Keepers
  BY <1>1, <1>6 DEF BitsTell
<1>8. owner' = [owner EXCEPT ![f] = "holder"]
  BY <1>1, <1>2 DEF Owned
<1>9. owner' \in [BitmapIndices(interfaceMap) -> Owners]
  BY <1>1, <1>8 DEF Owners
<1>10. BitsTell(interfaceMap, q, owner')
  BY <1>1, <1>5, <1>6, <1>7, <1>8 DEF BitsTell, Keepers
<1>11. StackTells(q, owner')
  <2>1. ASSUME NEW k \in DOMAIN q.stack
        PROVE  owner'[PageOf(q.stack[k])] \in {"allocator", "locked"}
    <3>1. owner[PageOf(q.stack[k])] \in {"allocator", "locked"}
      BY <1>1, <1>5 DEF StackTells
    <3>2. PageOf(q.stack[k]) # f
      <4>1. PageOf(q.stack[k]) = f => k \in Usable(q)
        BY <1>5, <1>6 DEF Usable, InUse
      <4>. QED
        BY <1>5, <4>1 DEF Pool
    <3>3. PageOf(q.stack[k]) \in BitmapIndices(interfaceMap)
      BY <1>5 DEF Words
    <3>. QED
      BY <1>1, <1>8, <3>1, <3>2, <3>3
  <2>. QED
    BY <2>1 DEF StackTells
<1>12. ReservedOf(owner') = ReservedOf(owner)
  BY <1>1, <1>6, <1>7, <1>8 DEF ReservedOf, Keepers
<1>. QED
  BY <1>1, <1>2, <1>4, <1>5, <1>9, <1>10, <1>11, <1>12 DEF InterfaceInv, Books

LEMMA LockKeepsBooks ==
  ASSUME InterfaceInv, NEW page, NEW count, Lock(page, count) PROVE InterfaceInv'
<1>. DEFINE p == interfacePmm
            q == LockPages(p, page, count)
<1>1. /\ interfaceMap \in Seq(Descriptors) /\ p \in Allocators(interfaceMap)
      /\ Words(p, interfaceMap) /\ BitsTell(interfaceMap, p, owner) /\ StackTells(p, owner)
      /\ owner \in [BitmapIndices(interfaceMap) -> Owners]
      /\ p.reservedMemory = Wrap(Cardinality(ReservedOf(owner)))
  BY InterfaceAssumption DEF InterfaceInv, Books
<1>2. interfacePmm' = q /\ interfaceMap' = interfaceMap
      /\ owner' = Owned(Span(page, count), "locked", Owners \ Keepers)
  BY DEF Lock
<1>3. /\ q \in Allocators(interfaceMap) /\ q.stack = p.stack
      /\ \A i \in BitmapIndices(interfaceMap) :
           q.bitmap[i] = (p.bitmap[i] \/ i \in Span(page, count))
  BY <1>1, LockPagesEffect
<1>4. q.reservedMemory = p.reservedMemory
  BY <1>1 DEF LockPages, Allocators
<1>. HIDE DEF q
<1>5. Words(q, interfaceMap)
  BY <1>1, <1>3 DEF Words
<1>6. /\ DOMAIN owner' = BitmapIndices(interfaceMap)
      /\ \A i \in BitmapIndices(interfaceMap) :
           owner'[i] = IF i \in Span(page, count) /\ owner[i] \notin Keepers THEN "locked" ELSE owner[i]
  BY <1>1, <1>2 DEF Owned
<1>7. owner' \in [BitmapIndices(interfaceMap) -> Owners]
  <2>1. owner' = [i \in BitmapIndices(interfaceMap) |->
                    IF i \in Span(page, count) /\ owner[i] \in Owners \ Keepers THEN "locked" ELSE owner[i]]
    BY <1>1, <1>2 DEF Owned
  <2>. QED
    BY <1>1, <2>1 DEF Owners
<1>8. BitsTell(interfaceMap, q, owner')
  BY <1>1, <1>3, <1>6 DEF BitsTell, Keepers, Allocators
<1>9. StackTells(q, owner')
  BY <1>1, <1>3, <1>5, <1>6 DEF StackTells, Words
<1>10. ReservedOf(owner') = ReservedOf(owner)
  BY <1>1, <1>6 DEF ReservedOf, Keepers
<1>. QED
  BY <1>1, <1>2, <1>3, <1>4, <1>5, <1>7, <1>8, <1>9, <1>10 DEF InterfaceInv, Books

LEMMA InterfaceInductive == InterfaceInv /\ [InterfaceNext]_interface => InterfaceInv'
<1>. SUFFICES ASSUME InterfaceInv, [InterfaceNext]_interface PROVE InterfaceInv'
  OBVIOUS
<1>1. interfaceMap \in Seq(Descriptors) /\ Books(interfaceMap, interfacePmm, owner)
  BY InterfaceAssumption DEF InterfaceInv
<1>2. CASE RequestAny
  BY <1>2, RequestAnyKeepsBooks
<1>3. ASSUME NEW page \in Memory, NEW count \in 1 .. MaxSpan, Span(page, count) \subseteq Memory,
             Lock(page, count) \/ FreePages(page, count) \/ UnreservePages(page, count)
      PROVE  InterfaceInv'
  <2>1. page \in Nat /\ count \in Nat
    BY <1>1, <1>3, MemoryPagesType, InterfaceAssumption DEF Memory
  <2>2. CASE Lock(page, count)
    BY <2>2, LockKeepsBooks
  <2>3. CASE FreePages(page, count)
    <3>1. \A p \in Span(page, count) : Returnable("free", interfacePmm, owner, p)
      BY <2>3 DEF FreePages, Freeable, Returnable
    <3>2. Books(interfaceMap, GivenBack("free", page, count), Returned(Span(page, count)))
      BY <1>1, <1>3, <2>1, <3>1, GivenBackKeepsBooks
    <3>. QED
      BY <2>3, <3>2 DEF FreePages, InterfaceInv
  <2>4. CASE UnreservePages(page, count)
    <3>1. \A p \in Span(page, count) : Returnable("unreserve", interfacePmm, owner, p)
      BY <2>4 DEF UnreservePages, Returnable
    <3>2. Books(interfaceMap, GivenBack("unreserve", page, count), Returned(Span(page, count)))
      BY <1>1, <1>3, <2>1, <3>1, GivenBackKeepsBooks
    <3>. QED
      BY <2>4, <3>2 DEF UnreservePages, InterfaceInv
  <2>. QED
    BY <1>3, <2>2, <2>3, <2>4
<1>4. CASE UNCHANGED interface
  BY <1>4 DEF interface, InterfaceInv
<1>. QED
  BY <1>2, <1>3, <1>4 DEF InterfaceNext

LEMMA InterfaceAlways == InterfaceSpec => []InterfaceInv
<1>1. InterfaceInit => InterfaceInv
  BY InterfaceStarts DEF InterfaceInit, InterfaceInv
<1>. QED
  BY <1>1, InterfaceInductive, PTL DEF InterfaceSpec

(* Whatever is locked, freed and unreserved, and whatever the map, a page  *)
(* that RequestPage may return next is the allocator's, and on the stack   *)
(* once.                                                                   *)
THEOREM RequestedOnce == InterfaceSpec => []RequestableOnce
<1>1. InterfaceInv => RequestableOnce
  <2>. SUFFICES ASSUME InterfaceInv, NEW k \in Usable(interfacePmm)
                PROVE  /\ owner[PageOf(interfacePmm.stack[k])] = "allocator"
                       /\ \A l \in DOMAIN interfacePmm.stack :
                            interfacePmm.stack[l] = interfacePmm.stack[k] => l = k
    BY DEF RequestableOnce
  <2>1. k \in DOMAIN interfacePmm.stack /\ ~InUse(interfacePmm, PageOf(interfacePmm.stack[k]))
    BY DEF Usable
  <2>2. /\ Words(interfacePmm, interfaceMap) /\ BitsTell(interfaceMap, interfacePmm, owner)
        /\ StackTells(interfacePmm, owner) /\ DOMAIN interfacePmm.bitmap = BitmapIndices(interfaceMap)
    BY DEF InterfaceInv, Books, Allocators
  <2>3. PageOf(interfacePmm.stack[k]) \in BitmapIndices(interfaceMap)
    BY <2>1, <2>2 DEF Words
  <2>4. owner[PageOf(interfacePmm.stack[k])] = "allocator"
    BY <2>1, <2>2, <2>3 DEF BitsTell, StackTells, InUse, Keepers
  <2>. QED
    BY <2>1, <2>2, <2>4 DEF Words
<1>. QED
  BY <1>1, InterfaceAlways, PTL

(* The stack holds at most all pages of memory, as it holds none twice.    *)
LEMMA StackFits ==
  ASSUME NEW map \in Seq(Descriptors), NEW pfa \in Allocators(map), Words(pfa, map)
  PROVE  Len(pfa.stack) * SlotBytes <= PageStackSize(map)
<1>. DEFINE n == Len(pfa.stack)
            m == MemoryPages(map)
            f == [k \in 1 .. n |-> PageOf(pfa.stack[k])]
<1>1. n \in Nat /\ m \in Nat /\ DOMAIN pfa.stack = 1 .. n
  BY LenProperties, MemoryPagesType DEF Allocators
<1>2. f \in Injection(1 .. n, 0 .. m - 1)
  <2>1. f \in [1 .. n -> 0 .. m - 1]
    BY <1>1 DEF Words
  <2>2. \A k, l \in 1 .. n : f[k] = f[l] => k = l
    BY <1>1 DEF Words
  <2>. QED
    BY <2>1, <2>2 DEF Injection, IsInjective
<1>3. /\ IsFiniteSet(1 .. n) /\ Cardinality(1 .. n) = n
      /\ IsFiniteSet(0 .. m - 1) /\ Cardinality(0 .. m - 1) = m
  <2>. HIDE DEF n, m, f
  <2>1. n \in Int /\ m - 1 \in Int /\ 1 \in Int /\ 0 \in Int
    BY <1>1
  <2>2. IsFiniteSet(1 .. n) /\ Cardinality(1 .. n) = IF 1 > n THEN 0 ELSE n - 1 + 1
    BY <2>1, FS_Interval
  <2>3. /\ IsFiniteSet(0 .. m - 1)
        /\ Cardinality(0 .. m - 1) = IF 0 > m - 1 THEN 0 ELSE (m - 1) - 0 + 1
    BY <2>1, FS_Interval
  <2>. QED
    BY <1>1, <2>2, <2>3
<1>. HIDE DEF f
<1>4. n <= m
  BY <1>2, <1>3, FS_Injection
<1>5. \A a, b \in Nat : \A c \in Nat \ {0} : a <= b => a * c <= b * c
  OBVIOUS
<1>. QED
  BY <1>1, <1>4, <1>5, SizesAssumption DEF PageStackSize

(* And a set bit tells that somebody keeps the page, and GetReservedRam()  *)
(* what the firmware still has; Push stays inside of its buffer.           *)
THEOREM BitsTellOwners == InterfaceSpec => []BitsMatchOwners
<1>1. InterfaceInv => BitsMatchOwners
  <2>. SUFFICES ASSUME InterfaceInv PROVE BitsMatchOwners
    OBVIOUS
  <2>1. /\ interfaceMap \in InterfaceMaps /\ interfaceMap \in Seq(Descriptors)
        /\ interfacePmm \in Allocators(interfaceMap)
        /\ owner \in [BitmapIndices(interfaceMap) -> Owners]
        /\ Words(interfacePmm, interfaceMap) /\ BitsTell(interfaceMap, interfacePmm, owner)
        /\ interfacePmm.reservedMemory = Wrap(Cardinality(ReservedOf(owner)))
        /\ DOMAIN interfacePmm.bitmap = BitmapIndices(interfaceMap)
    BY InterfaceAssumption DEF InterfaceInv, Books, Allocators
  <2>2. StackStaysInBuffer
    BY <2>1, StackFits DEF StackStaysInBuffer
  <2>3. DOMAIN owner = BitmapIndices(interfaceMap)
    BY <2>1
  <2>4. \A p \in DOMAIN owner : InUse(interfacePmm, p) <=> owner[p] \in Keepers
    BY <2>1, <2>3 DEF BitsTell, InUse
  <2>. QED
    BY <2>1, <2>2, <2>4 DEF BitsMatchOwners, InterfaceTypeOK, ReservedOf
<1>. QED
  BY <1>1, InterfaceAlways, PTL

===============================================================================
