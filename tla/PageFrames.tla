------------------------------ MODULE PageFrames ------------------------------
(***************************************************************************)
(* The physical page frame allocator as operators on one record: the free  *)
(* stack (PageStack), the in-use bitmap (Util::Bitmap) and the three       *)
(* counters of Memory::PageFrameAllocator.  Every operator is one member   *)
(* function: it takes the allocator and returns what the call leaves.      *)
(*                                                                         *)
(* Addresses are byte addresses, so a misaligned address or a frame number *)
(* passed for an address is expressible.  The counters count pages rather  *)
(* than bytes; CounterModulus is where the 64-bit register wraps.          *)
(***************************************************************************)
EXTENDS Integers, Sequences, FiniteSets

CONSTANTS
  PageSize,        \* bytes of a page frame                  (0x1000 in the code)
  SlotBytes,       \* bytes of a PageStack slot              (8)
  ByteBits,        \* bits of a Bitmap byte                  (8)
  CounterModulus   \* pages at which a byte counter wraps    (2^52)

ASSUME SizesAssumption ==
  /\ PageSize \in Nat \ {0}
  /\ SlotBytes \in Nat \ {0}
  /\ ByteBits \in Nat \ {0, 1}
  /\ CounterModulus \in Nat \ {0}

Wrap(pages) == pages % CounterModulus

PageOf(address) == address \div PageSize

Span(page, count) == page .. page + count - 1

-------------------------------------------------------------------------------
(* The EFI memory map: a sequence of descriptors of whole, disjoint pages. *)

ConventionalMemory == 7

Descriptors == [type : Nat, page : Nat, numPages : Nat]

PagesOf(desc) == Span(desc.page, desc.numPages)

Conventional(mMap) == {i \in DOMAIN mMap : mMap[i].type = ConventionalMemory}

(* What the firmware describes, counted once: UEFI descriptors do not      *)
(* overlap, so this is the sum of numPages that GetMemorySize computes.    *)
MemoryPages(mMap) == Cardinality(UNION {PagesOf(mMap[i]) : i \in DOMAIN mMap})

(* The pages the constructor reserves: every descriptor of another type.   *)
FirmwarePages(mMap) ==
  UNION {PagesOf(mMap[i]) : i \in DOMAIN mMap \ Conventional(mMap)}

(* The first of the largest conventional segments holds the allocator's    *)
(* own data.                                                               *)
LargestFreeMemSeg(mMap) ==
  mMap[CHOOSE i \in Conventional(mMap) :
         \A j \in Conventional(mMap) :
           \/ mMap[i].numPages > mMap[j].numPages
           \/ mMap[i].numPages = mMap[j].numPages /\ i <= j]

LargestFreeMemSegSize(mMap) ==
  IF Conventional(mMap) = {} THEN 0
  ELSE LargestFreeMemSeg(mMap).numPages * PageSize

-------------------------------------------------------------------------------
(* The bitmap and the stack, laid out one after the other in that segment. *)

PageStackSize(mMap) == MemoryPages(mMap) * SlotBytes

BitmapSize(mMap) == MemoryPages(mMap) \div ByteBits + 1

(* Indices operator[] and Set accept: "index > _Size * 8" lets the first   *)
(* bit behind the buffer through, so the domain has one bit too many.      *)
BitmapIndices(mMap) == 0 .. BitmapSize(mMap) * ByteBits

StrayBit(mMap) == BitmapSize(mMap) * ByteBits

(* Bytes from the segment's start to the last one the allocator touches:   *)
(* stack, one byte of padding, bitmap, the byte of the stray bit.          *)
MetadataBytes(mMap) == PageStackSize(mMap) + 1 + BitmapSize(mMap) + 1

ConstructorPanics(mMap) ==
  LET room == LargestFreeMemSegSize(mMap)
  IN  \/ room <= PageStackSize(mMap)
      \/ room - PageStackSize(mMap) - 1 <= BitmapSize(mMap)

(* The allocator's members; the stack holds byte addresses.                *)
Allocators(mMap) ==
  [bitmap : [BitmapIndices(mMap) -> BOOLEAN],
   stack : Seq(Nat),
   freeMemory : 0 .. CounterModulus - 1,
   usedMemory : 0 .. CounterModulus - 1,
   reservedMemory : 0 .. CounterModulus - 1]

InUse(pfa, page) == page \in DOMAIN pfa.bitmap /\ pfa.bitmap[page]

(* Pages of a span whose bit this call sets.                               *)
NewlySet(pfa, pages) == {i \in pages \cap DOMAIN pfa.bitmap : ~pfa.bitmap[i]}

SetBits(pfa, pages) == [i \in DOMAIN pfa.bitmap |-> pfa.bitmap[i] \/ i \in pages]

LockPages(pfa, page, count) ==
  LET new == NewlySet(pfa, Span(page, count))
  IN  [pfa EXCEPT !.bitmap = SetBits(pfa, Span(page, count)),
                  !.freeMemory = Wrap(@ - Cardinality(new)),
                  !.usedMemory = Wrap(@ + Cardinality(new))]

ReservePages(pfa, pages) ==
  LET new == NewlySet(pfa, pages)
  IN  [pfa EXCEPT !.bitmap = SetBits(pfa, pages),
                  !.freeMemory = Wrap(@ - Cardinality(new)),
                  !.reservedMemory = Wrap(@ + Cardinality(new))]

(* Mutant: without the early return for a clear bit.                       *)
FreePageUnguarded(pfa, address) ==
  [pfa EXCEPT !.bitmap[PageOf(address)] = FALSE,
              !.freeMemory = Wrap(@ + 1),
              !.usedMemory = Wrap(@ - 1),
              !.stack = Append(@, address)]

FreePage(pfa, address) ==
  IF ~InUse(pfa, PageOf(address)) THEN pfa
  ELSE [pfa EXCEPT !.bitmap[PageOf(address)] = FALSE,
                   !.freeMemory = Wrap(@ + 1),
                   !.usedMemory = Wrap(@ - 1),
                   !.stack = Append(@, address)]

(* Mutant: the bit of a popped page is not looked at.                      *)
UsableUnchecked(pfa) == DOMAIN pfa.stack

(* RequestPage pops until the popped page's bit is clear.  Usable are the  *)
(* stack slots at which that loop would stop.                              *)
Usable(pfa) == {k \in DOMAIN pfa.stack : ~InUse(pfa, PageOf(pfa.stack[k]))}

TopUsable(pfa) == CHOOSE k \in Usable(pfa) : \A l \in Usable(pfa) : l <= k

RequestedAddress(pfa) == pfa.stack[TopUsable(pfa)]

(* Mutants: the stack pointer is not moved, moved twice, the free counter  *)
(* is forgotten.                                                           *)
RequestPageKeepsSlot(pfa) ==
  [pfa EXCEPT !.stack = SubSeq(@, 1, TopUsable(pfa)),
              !.usedMemory = Wrap(@ + 1),
              !.freeMemory = Wrap(@ - 1)]

RequestPagePopsTwo(pfa) ==
  [pfa EXCEPT !.stack = SubSeq(@, 1, TopUsable(pfa) - 2),
              !.usedMemory = Wrap(@ + 1),
              !.freeMemory = Wrap(@ - 1)]

RequestPageUncounted(pfa) ==
  [pfa EXCEPT !.stack = SubSeq(@, 1, TopUsable(pfa) - 1),
              !.usedMemory = Wrap(@ + 1)]

(* Only when Usable(pfa) # {}: otherwise Pop leaves its buffer.            *)
RequestPage(pfa) ==
  [pfa EXCEPT !.stack = SubSeq(@, 1, TopUsable(pfa) - 1),
              !.bitmap[PageOf(RequestedAddress(pfa))] = FALSE,
              !.usedMemory = Wrap(@ + 1),
              !.freeMemory = Wrap(@ - 1)]

-------------------------------------------------------------------------------
(* The constructor.                                                        *)

(* The members of a set of naturals in increasing order: position k holds  *)
(* the member that has k-1 smaller ones.                                   *)
Ascending(S) ==
  [k \in 1 .. Cardinality(S) |->
     CHOOSE n \in S : Cardinality({m \in S : m < n}) = k - 1]

(* Mutant: every bit of the bitmap is walked, although the last byte has   *)
(* bits of pages that do not exist.                                        *)
InitPushAllBits(bitmap, size) ==
  LET clear == {i \in DOMAIN bitmap : ~bitmap[i]}
  IN  [k \in 1 .. Cardinality(clear) |-> Ascending(clear)[k] * PageSize]

(* InitPush walks "pageBitmap.Size()" indices, the size in bytes, and      *)
(* pushes the pages whose bit is clear.                                    *)
InitPush(bitmap, size) ==
  LET clear == {i \in 0 .. size - 1 : ~bitmap[i]}
  IN  [k \in 1 .. Cardinality(clear) |-> Ascending(clear)[k] * PageSize]

(* The bytes of the bitmap are zeroed, the one behind them is as found.    *)
Zeroed(mMap, stray) ==
  [bitmap |-> [i \in BitmapIndices(mMap) |-> i = StrayBit(mMap) /\ stray],
   stack |-> << >>,
   freeMemory |-> Wrap(MemoryPages(mMap)),
   usedMemory |-> 0,
   reservedMemory |-> 0]

LockMetadata(mMap, stray) ==
  LockPages(Zeroed(mMap, stray), LargestFreeMemSeg(mMap).page,
            (1 + PageStackSize(mMap) + BitmapSize(mMap)) \div PageSize + 1)

Constructed(mMap, stray) ==
  LET reserved == ReservePages(LockMetadata(mMap, stray), FirmwarePages(mMap))
  IN  [reserved EXCEPT !.stack = InitPush(reserved.bitmap, BitmapSize(mMap))]

===============================================================================
