--------------------------------- MODULE Heap ---------------------------------
(***************************************************************************)
(* The kernel heap: a next-fit allocator whose free segments form a        *)
(* circular doubly linked list, sorted by address.  A header precedes      *)
(* every segment, free or not.  Sizes and addresses count 8-byte blocks    *)
(* ("Blocks are 8 Byte aligned"), so rounding up is done.                  *)
(***************************************************************************)
EXTENDS Integers, FiniteSets

CONSTANTS
  HeaderSize,             \* sizeof(HeapEntryHeader)                      (4)
  HeaderElements,         \* what "seg + sizeof(HeapEntryHeader)" counts  (32)
  PageSize,               \* blocks of a page                             (512)
  Begin,                  \* HEAP_START
  INIT_HEAP_SIZE,         \* pages the heap starts with                   (10)
  MIN_HEAP_GROWTH_PAGES,  \* (10)
  HEAP_SHRINK,            \* (10)
  Sizes,                  \* sizes operator new is called with
  Frames,                 \* frames RequestPage can still return
  Overstatements          \* pages GetFreeRam may count that are not on the stack

ASSUME HeapAssumption ==
  /\ HeaderSize \in Nat \ {0} /\ HeaderElements \in Nat \ {0, 1}
  /\ PageSize \in Nat /\ PageSize > HeaderSize /\ Begin \in Nat \ {0}
  /\ INIT_HEAP_SIZE \in Nat \ {0} /\ MIN_HEAP_GROWTH_PAGES \in Nat \ {0}
  /\ HEAP_SHRINK \in Nat \ {0}
  /\ Sizes \subseteq Nat \ {0}
  /\ Frames \in Nat /\ Overstatements \subseteq Nat

VARIABLES
  heap,    \* kernelHeap, startSec, head and the headers in memory
  frames,  \* frames RequestPage can still return
  freeRam, \* GetFreeRam(), in pages
  live,    \* headers of the blocks somebody holds
  status   \* see Statuses

vars == <<heap, frames, freeRam, live, status>>

(* "corrupted": Panic("Heap corruption detected").  "exhausted":           *)
(* Panic("Physical Memory exhausted").  The code does not notice the       *)
(* others, and what it does afterwards is not modelled.  "unlinked": delete *)
(* merged the block with the segment behind it only, and the free list     *)
(* still leads to the header it zeroed.  "underflow": RequestPage finds no *)
(* page.  "overrun": a pointer outside of its block was returned.          *)
(* "unmapped": a live block lost its pages.                                *)
Statuses == {"running", "unlinked", "corrupted", "exhausted",
             "underflow", "overrun", "unmapped"}

Null == 0

-------------------------------------------------------------------------------
(* Headers.  A memory maps the addresses of headers to them; anything else *)
(* is data or was zeroed and has not the magic value.                      *)

Header(size, next, prev) ==
  [magic |-> TRUE, size |-> size, nextHeader |-> next, previousHeader |-> prev]

ZeroHeader ==
  [magic |-> FALSE, size |-> 0, nextHeader |-> Null, previousHeader |-> Null]

At(memory, address) ==
  IF address \in DOMAIN memory THEN memory[address] ELSE ZeroHeader

Put(memory, address, header) ==
  [a \in DOMAIN memory \union {address} |-> IF a = address THEN header ELSE memory[a]]

(* memset to 0                                                             *)
Clear(memory, address) == [a \in DOMAIN memory \ {address} |-> memory[a]]

(* The first address behind the segment.                                   *)
EndOf(memory, seg) == seg + memory[seg].size + HeaderSize

initHeap ==
  [memory |-> Put(<< >>, Begin,
                  Header(INIT_HEAP_SIZE * PageSize - HeaderSize, Begin, Begin)),
   end |-> Begin + INIT_HEAP_SIZE * PageSize,
   size |-> INIT_HEAP_SIZE * PageSize,
   mappedPages |-> INIT_HEAP_SIZE,
   startSec |-> Begin,
   head |-> Begin]

-------------------------------------------------------------------------------
(* findFreeSegment follows nextHeader from startSec until a segment is     *)
(* large enough, the walk is around, or a header has not the magic value.  *)

Steps(h) == 0 .. Cardinality(DOMAIN h.memory) + 1

Followed(h, start) ==
  LET seg[k \in Steps(h)] ==
        IF k = 0 THEN start ELSE At(h.memory, seg[k - 1]).nextHeader
  IN  seg

Visited(h) == Followed(h, h.startSec)

Stops(h, sz, k) ==
  LET seg == Visited(h)[k]
  IN  \/ At(h.memory, seg).size >= sz
      \/ k > 0 /\ (seg = h.startSec \/ ~At(h.memory, seg).magic)

(* The segment, Null if there is none, or -1 for the Panic.                *)
findFreeSegment(h, sz) ==
  LET k == CHOOSE n \in Steps(h) :
             Stops(h, sz, n) /\ \A m \in 0 .. n - 1 : ~Stops(h, sz, m)
      seg == Visited(h)[k]
  IN  IF k > 0 /\ seg = h.startSec THEN Null
      ELSE IF k > 0 /\ ~At(h.memory, seg).magic THEN -1
      ELSE seg

growthPages(sz) ==
  LET pages == sz \div PageSize + 1
  IN  IF pages < MIN_HEAP_GROWTH_PAGES THEN MIN_HEAP_GROWTH_PAGES ELSE pages

(* growHeap that never enlarges the tail.                                  *)
growHeapApart(h, sz) ==
  LET pages == growthPages(sz)
      tail == h.memory[h.head].previousHeader
  IN  [h EXCEPT !.end = @ + pages * PageSize,
                !.size = @ + pages * PageSize,
                !.mappedPages = @ + pages,
                !.memory =
                   Put([h.memory EXCEPT ![tail].nextHeader = h.end,
                                        ![h.head].previousHeader = h.end],
                       h.end, Header(pages * PageSize - HeaderSize, h.head, tail))]

growHeap(h, sz) ==
  LET pages == growthPages(sz)
      tail == h.memory[h.head].previousHeader
      grown == [h EXCEPT !.end = @ + pages * PageSize,
                         !.size = @ + pages * PageSize,
                         !.mappedPages = @ + pages]
  IN  IF EndOf(h.memory, tail) = h.end
      THEN [grown EXCEPT !.memory[tail].size = @ + pages * PageSize]
      ELSE [grown EXCEPT
              !.memory =
                 Put([h.memory EXCEPT ![tail].nextHeader = h.end,
                                      ![h.head].previousHeader = h.end],
                     h.end, Header(pages * PageSize - HeaderSize, h.head, tail))]

-------------------------------------------------------------------------------
(* operator new, after findFreeSegment returned seg.                       *)

(* What would be left of the segment is too small for a header and data.   *)
WholeSegment(h, seg, sz) == h.memory[seg].size - sz < HeaderSize * 2

(* Split that does not count the header of the new block.                  *)
SplitHeaderFree(h, seg, sz) ==
  LET left == h.memory[seg].size - sz
  IN  [h EXCEPT
         !.startSec = h.memory[seg].nextHeader,
         !.memory = Put([h.memory EXCEPT ![seg].size = left],
                        seg + left, Header(sz, Null, Null))]

Split(h, seg, sz) ==
  LET left == h.memory[seg].size - sz
  IN  [h EXCEPT
         !.startSec = h.memory[seg].nextHeader,
         !.memory = Put([h.memory EXCEPT ![seg].size = left - HeaderSize],
                        seg + left, Header(sz, Null, Null))]

(* The header of the block that Split cuts off.                            *)
SplitOff(h, seg, sz) == seg + h.memory[seg].size - sz

Unlink(h, seg) ==
  LET s == h.memory[seg]
      linked == [[h.memory EXCEPT ![s.previousHeader].nextHeader = s.nextHeader]
                   EXCEPT ![s.nextHeader].previousHeader = s.previousHeader]
  IN  [h EXCEPT !.startSec = s.nextHeader,
                !.memory = [linked EXCEPT ![seg].nextHeader = Null,
                                          ![seg].previousHeader = Null]]

(* "seg + sizeof(HeapEntryHeader)" advances by headers, not by bytes.      *)
WholeSegmentPointer(seg) == seg + HeaderSize * HeaderElements

-------------------------------------------------------------------------------
(* operator delete.                                                        *)

(* The first free segment at or behind seg, or head when the walk is       *)
(* around.                                                                 *)
FreeList(h) == {Followed(h, h.head)[k] : k \in Steps(h)} \ {Null}

NodeBehind(h, seg) ==
  LET behind == {node \in FreeList(h) : node >= seg}
  IN  IF behind = {} THEN h.head ELSE CHOOSE n \in behind : \A m \in behind : n <= m

MergeWithPrevious(memory, prev, seg) ==
  Clear([memory EXCEPT ![prev].size = @ + memory[seg].size + HeaderSize], seg)

MergeWithNext(memory, seg, node) ==
  LET next == memory[node].nextHeader
      merged == [memory EXCEPT ![seg].size = @ + memory[node].size + HeaderSize,
                               ![seg].nextHeader = next]
  IN  Clear([merged EXCEPT ![next].previousHeader = seg], node)

Insert(memory, prev, seg, node) ==
  LET linked == [[memory EXCEPT ![prev].nextHeader = seg] EXCEPT ![node].previousHeader = seg]
  IN  [linked EXCEPT ![seg].nextHeader = node, ![seg].previousHeader = prev]

Touches(h, seg) == EndOf(h.memory, h.memory[NodeBehind(h, seg)].previousHeader) = seg

Release(h, seg) ==
  LET node == NodeBehind(h, seg)
      prev == h.memory[node].previousHeader
      withPrevious == Touches(h, seg)
      memory1 == IF withPrevious THEN MergeWithPrevious(h.memory, prev, seg) ELSE h.memory
      seg1 == IF withPrevious THEN prev ELSE seg
      withNext == EndOf(memory1, seg1) = node
  IN  [h EXCEPT !.memory =
         IF withNext THEN MergeWithNext(memory1, seg1, node)
         ELSE IF withPrevious THEN memory1
         ELSE Insert(memory1, prev, seg, node)]

(* delete leaves previousHeader->nextHeader alone when it only merges      *)
(* forward (Heap.cpp:169-175), so it points to a zeroed header.            *)
Unlinks(h, seg) ==
  ~Touches(h, seg) /\ EndOf(h.memory, seg) = NodeBehind(h, seg)

Shrinks(h) ==
  h.memory[h.memory[h.head].previousHeader].size >= HEAP_SHRINK * 2 * PageSize

(* shrinkHeap that does not shrink the Mapping of the heap.                *)
shrinkHeapMapped(h) ==
  IF ~Shrinks(h) THEN h
  ELSE [h EXCEPT !.memory[h.memory[h.head].previousHeader].size = @ - HEAP_SHRINK * PageSize,
                 !.size = @ - HEAP_SHRINK * PageSize,
                 !.end = @ - HEAP_SHRINK * PageSize]

shrinkHeap(h) ==
  IF ~Shrinks(h) THEN h
  ELSE [h EXCEPT !.memory[h.memory[h.head].previousHeader].size = @ - HEAP_SHRINK * PageSize,
                 !.size = @ - HEAP_SHRINK * PageSize,
                 !.mappedPages = @ - HEAP_SHRINK,
                 !.end = @ - HEAP_SHRINK * PageSize]

-------------------------------------------------------------------------------
Init ==
  /\ heap = initHeap
  /\ frames = Frames
  /\ freeRam \in {Frames + n : n \in Overstatements}
  /\ live = {}
  /\ status = "running"

(* operator new grows the heap until findFreeSegment returns something.    *)
(* The second growth enlarges the tail that the first one left at the end, *)
(* so two are enough.                                                      *)
MaxGrowths == 2

Attempts(sz) ==
  LET h[n \in 0 .. MaxGrowths] == IF n = 0 THEN heap ELSE growHeap(h[n - 1], sz)
  IN  h

Growths(sz) ==
  CHOOSE n \in 0 .. MaxGrowths :
    /\ findFreeSegment(Attempts(sz)[n], sz) # Null
    /\ \A m \in 0 .. n - 1 : findFreeSegment(Attempts(sz)[m], sz) = Null

Grown(sz) == Attempts(sz)[Growths(sz)]

Found(sz) == findFreeSegment(Grown(sz), sz)

PagesTaken(sz) == Growths(sz) * growthPages(sz)

(* Frames left when the growth that fails begins.                          *)
FramesAtFailure(sz) == frames % growthPages(sz)

TakePages(sz) ==
  /\ PagesTaken(sz) <= frames
  /\ frames' = frames - PagesTaken(sz)
  /\ freeRam' = freeRam - PagesTaken(sz)

New(sz) ==
  /\ status = "running"
  /\ TakePages(sz)
  /\ Found(sz) > Null /\ ~WholeSegment(Grown(sz), Found(sz), sz)
  /\ heap' = Split(Grown(sz), Found(sz), sz)
  /\ live' = live \union {SplitOff(Grown(sz), Found(sz), sz)}
  /\ UNCHANGED status

NewWholeSegment(sz) ==
  /\ status = "running"
  /\ TakePages(sz)
  /\ Found(sz) > Null /\ WholeSegment(Grown(sz), Found(sz), sz)
  /\ heap' = Unlink(Grown(sz), Found(sz))
  /\ live' = live \union {Found(sz)}
  /\ status' = IF WholeSegmentPointer(Found(sz)) = Found(sz) + HeaderSize
               THEN "running" ELSE "overrun"

NewFindsCorruption(sz) ==
  /\ status \in {"running", "unlinked"}
  /\ Found(sz) = -1
  /\ status' = "corrupted"
  /\ UNCHANGED <<heap, frames, freeRam, live>>

(* growHeap asks GetFreeRam() == 0 once per growth, RequestPage does not.  *)
NewWithoutFrames(sz) ==
  /\ status = "running"
  /\ PagesTaken(sz) > frames
  /\ status' = IF FramesAtFailure(sz) + (freeRam - frames) = 0
               THEN "exhausted" ELSE "underflow"
  /\ UNCHANGED <<heap, frames, freeRam, live>>

Delete(seg) ==
  /\ status = "running"
  /\ heap.memory[seg].magic
  /\ heap' = shrinkHeap(Release(heap, seg))
  /\ live' = live \ {seg}
  /\ status' = IF \E b \in live' : EndOf(heap'.memory, b) > heap'.end THEN "unmapped"
               ELSE IF Unlinks(heap, seg) THEN "unlinked"
               ELSE "running"
  /\ UNCHANGED <<frames, freeRam>>

Next ==
  \/ \E sz \in Sizes :
       New(sz) \/ NewWholeSegment(sz) \/ NewFindsCorruption(sz) \/ NewWithoutFrames(sz)
  \/ \E seg \in live : Delete(seg)

Spec == Init /\ [][Next]_vars

-------------------------------------------------------------------------------
Running == status = "running"

Segments == FreeList(heap) \union live

(* Types of the heap's state (Heap.cpp:6-26).                              *)
TypeOK ==
  /\ status \in Statuses
  /\ frames \in 0 .. Frames /\ freeRam \in Nat
  /\ \A a \in DOMAIN heap.memory : heap.memory[a] \in
       [magic : BOOLEAN, size : Nat, nextHeader : Nat, previousHeader : Nat]
  /\ {heap.end, heap.size, heap.mappedPages, heap.startSec, heap.head} \subseteq Nat
  /\ live \subseteq DOMAIN heap.memory

(* Free segments and live blocks cover the heap from its begin to its end, *)
(* without a gap and without an overlap, whatever was split, merged, grown *)
(* and shrunk.                                                             *)
SegmentsTileHeap ==
  Running =>
    /\ Segments \union {heap.end} = {Begin} \union {EndOf(heap.memory, s) : s \in Segments}
    /\ \A s, t \in Segments :
         EndOf(heap.memory, s) = EndOf(heap.memory, t) => s = t
    /\ FreeList(heap) \intersect live = {}
    /\ \A b \in live : At(heap.memory, b).magic

(* kernelHeap.size, kernelHeap.end and the size of the heap's Mapping,     *)
(* which growHeap and shrinkHeap update one by one, agree.                 *)
SizeMatchesMapping ==
  /\ heap.size = heap.end - Begin
  /\ heap.size = heap.mappedPages * PageSize

(* Blocks and the bounds the heap has of itself, after any new or delete    *)
(* (Heap.cpp:6-26, 36-182).                                                *)
HeapWellFormed == TypeOK /\ SegmentsTileHeap /\ SizeMatchesMapping

(* The free list is circular, linked in both directions, sorted by address *)
(* from head on; delete relies on that order to find the neighbours.       *)
FreeListSorted ==
  Running =>
    /\ heap.head = Begin
    /\ \A s \in FreeList(heap) :
         LET next == heap.memory[s].nextHeader
             behind == {t \in FreeList(heap) : t > s}
         IN  /\ heap.memory[s].magic
             /\ heap.memory[next].previousHeader = s
             /\ IF behind = {} THEN next = heap.head
                ELSE next \in behind /\ \A t \in behind : next <= t

(* Two free segments are never neighbours: delete merges with both sides   *)
(* and growHeap with the tail.                                             *)
FreeSegmentsMerged ==
  Running => \A s, t \in FreeList(heap) : EndOf(heap.memory, s) # t

(* The segment next fit starts from is free, or its header was zeroed when *)
(* delete merged it into the segment before it (Heap.cpp:169-173 leaves    *)
(* startSec alone); it is never a live block.                              *)
StartSecNotLive ==
  Running =>
    \/ heap.startSec \in FreeList(heap)
    \/ At(heap.memory, heap.startSec) = ZeroHeader

(* What new finds by walking the list from startSec, and delete by walking *)
(* it from head, are the free segments (Heap.cpp:36-60, 127-182).          *)
FreeListIsSound == FreeListSorted /\ FreeSegmentsMerged /\ StartSecNotLive

(* Blocks, each with its header, are apart and stay where they are, inside *)
(* the heap, as long as none of the failures in Statuses has happened.     *)
Blocks == INSTANCE Arena
  WITH low <- Begin, high <- heap.end,
       live <- {[address |-> b, size |-> HeaderSize + heap.memory[b].size] : b \in live}

RefinesArena == Blocks!Init /\ [][status' = "running" => Blocks!Next]_vars

(* "Heap corruption detected" (Heap.cpp:53): the Panic is for a caller who *)
(* wrote outside of a block; calls of new and delete alone never reach it. *)
NoHeapCorruption == status # "corrupted"

===============================================================================
