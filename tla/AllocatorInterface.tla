-------------------------- MODULE AllocatorInterface ---------------------------
(***************************************************************************)
(* The page frame allocator under its whole interface: beside the calls    *)
(* the kernel makes (PageFrameAllocator), LockPages at any time, FreePages *)
(* and UnreservePages, which nothing calls yet.  What callers must keep to *)
(* for them to be safe is the guard of FreePages here: a locked page may   *)
(* only be freed when the stack does not hold it any more.  The pages of   *)
(* the kernel image are such that were locked while the stack held them.   *)
(***************************************************************************)
EXTENDS PageFrames

CONSTANTS
  InterfaceMaps,  \* the memory maps the firmware may hand over
  MaxSpan         \* bound: pages of a call

ASSUME InterfaceAssumption == InterfaceMaps \subseteq Seq(Descriptors) /\ MaxSpan \in Nat

VARIABLES
  interfaceMap, interfacePmm,
  owner   \* history: who has the page of a bit.  "lost": its holder gave
          \* it to FreePage, which ignores it

interface == <<interfaceMap, interfacePmm, owner>>

Owners == {"allocator", "holder", "locked", "reserved", "metadata", "lost"}

(* Whose pages have their bit set.                                         *)
Keepers == {"locked", "reserved", "metadata"}

Memory == 0 .. MemoryPages(interfaceMap) - 1

Stacked(pfa) == {PageOf(pfa.stack[k]) : k \in DOMAIN pfa.stack}

FirstOwners(map, stray) ==
  [p \in BitmapIndices(map) |->
     IF InUse(LockMetadata(map, stray), p) THEN "metadata"
     ELSE IF p \in FirmwarePages(map) THEN "reserved" ELSE "allocator"]

InterfaceInit ==
  /\ interfaceMap \in InterfaceMaps /\ ~ConstructorPanics(interfaceMap)
  /\ \E stray \in BOOLEAN :
       /\ interfacePmm = Constructed(interfaceMap, stray)
       /\ owner = FirstOwners(interfaceMap, stray)

Owned(pages, by, from) ==
  [p \in DOMAIN owner |-> IF p \in pages /\ owner[p] \in from THEN by ELSE owner[p]]

RequestAny ==
  /\ Usable(interfacePmm) # {}
  /\ interfacePmm' = RequestPage(interfacePmm)
  /\ owner' = Owned({PageOf(RequestedAddress(interfacePmm))}, "holder", Owners)
  /\ UNCHANGED interfaceMap

Lock(page, count) ==
  /\ interfacePmm' = LockPages(interfacePmm, page, count)
  /\ owner' = Owned(Span(page, count), "locked", Owners \ Keepers)
  /\ UNCHANGED interfaceMap

(* What a caller may give back.                                            *)
Freeable(p) ==
  \/ owner[p] = "holder"
  \/ owner[p] = "locked" /\ p \notin Stacked(interfacePmm)

(* Mutant: the counters move as in FreePage.                               *)
UnreservePageFromUsed(pfa, address) == FreePage(pfa, address)

UnreservePage(pfa, address) ==
  IF ~InUse(pfa, PageOf(address)) THEN pfa
  ELSE [pfa EXCEPT !.bitmap[PageOf(address)] = FALSE,
                   !.freeMemory = Wrap(@ + 1),
                   !.reservedMemory = Wrap(@ - 1),
                   !.stack = Append(@, address)]

(* FreePage, or UnreservePage, for one page after the other.               *)
GiveBack(call, pfa, page) ==
  IF call = "free" THEN FreePage(pfa, page * PageSize) ELSE UnreservePage(pfa, page * PageSize)

GivenBack(call, page, count) ==
  LET after[n \in 0 .. count] ==
        IF n = 0 THEN interfacePmm ELSE GiveBack(call, after[n - 1], page + n - 1)
  IN  after[count]

Returned(pages) ==
  [p \in DOMAIN owner |->
     IF p \notin pages THEN owner[p]
     ELSE IF owner[p] = "holder" THEN "lost" ELSE "allocator"]

FreePages(page, count) ==
  /\ \A p \in Span(page, count) : Freeable(p)
  /\ interfacePmm' = GivenBack("free", page, count)
  /\ owner' = Returned(Span(page, count))
  /\ UNCHANGED interfaceMap

UnreservePages(page, count) ==
  /\ \A p \in Span(page, count) : owner[p] = "reserved"
  /\ interfacePmm' = GivenBack("unreserve", page, count)
  /\ owner' = Returned(Span(page, count))
  /\ UNCHANGED interfaceMap

InterfaceNext ==
  \/ RequestAny
  \/ \E page \in Memory : \E count \in 1 .. MaxSpan :
       /\ Span(page, count) \subseteq Memory
       /\ Lock(page, count) \/ FreePages(page, count) \/ UnreservePages(page, count)

InterfaceSpec == InterfaceInit /\ [][InterfaceNext]_interface

-------------------------------------------------------------------------------
(* Types of the allocator's state (PageFrameAllocator.h:30-35).            *)
InterfaceTypeOK ==
  /\ interfaceMap \in InterfaceMaps /\ interfacePmm \in Allocators(interfaceMap)
  /\ owner \in [BitmapIndices(interfaceMap) -> Owners]

(* Whatever is locked, freed and unreserved, every page that RequestPage   *)
(* may return next is one the allocator has, and it is on the stack once:  *)
(* no page gets two holders (PageFrameAllocator.cpp:58-84, 127-136).       *)
RequestableOnce ==
  \A k \in Usable(interfacePmm) :
    /\ owner[PageOf(interfacePmm.stack[k])] = "allocator"
    /\ \A l \in DOMAIN interfacePmm.stack :
         interfacePmm.stack[l] = interfacePmm.stack[k] => l = k

(* Push, which does not look where its buffer ends, never leaves it: behind*)
(* it lies the bitmap (PageStack.h:13-16, PageFrameAllocator.cpp:27-32).   *)
StackStaysInBuffer ==
  Len(interfacePmm.stack) * SlotBytes <= PageStackSize(interfaceMap)

(* So a set bit is a page that is locked, reserved or the allocator's own, *)
(* and GetReservedRam() counts the reserved ones                           *)
(* (PageFrameAllocator.cpp:68-92).                                         *)
BitsMatchOwners ==
  /\ InterfaceTypeOK /\ StackStaysInBuffer
  /\ \A p \in DOMAIN owner : InUse(interfacePmm, p) <=> owner[p] \in Keepers
  /\ interfacePmm.reservedMemory = Wrap(Cardinality({p \in DOMAIN owner : owner[p] = "reserved"}))

===============================================================================
