----------------------- MODULE KernelAddressSpaceProofs -----------------------
(***************************************************************************)
(* For every memory map, image, framebuffer and layout of the kernel's     *)
(* regions: _start builds tables that agree with the list of mappings, the *)
(* switch of CR3 loses nothing, code stays read-only and data writable,    *)
(* and heap, stack, GDT and IDT have frames of their own, but for those    *)
(* that UnmapMemory unlocked because a table was emptied while the heap    *)
(* was shrunk.                                                             *)
(***************************************************************************)
EXTENDS KernelAddressSpace, Bootloader, PageFramesProofs

-------------------------------------------------------------------------------
(* RequestPage in a row.                                                   *)

(* after[n] is what n requests leave of p.                                 *)
IsChain(after, p, size) ==
  after = [n \in 0 .. size |-> IF n = 0 THEN p ELSE RequestPage(after[n - 1])]

LEMMA ChainExists ==
  ASSUME NEW p, NEW size \in Nat
  PROVE  \E after : IsChain(after, p, size)
<1> DEFINE Bad == {m \in Nat : ~\E after : IsChain(after, p, m)}
<1>1. SUFFICES ASSUME Bad # {} PROVE FALSE
  BY DEF Bad
<1>2. PICK m \in Bad : \A l \in Bad : m <= l
  BY <1>1, SmallestExists
<1>3. m \in Nat
  OBVIOUS
<1>4. m # 0
  <2> DEFINE f == [n \in 0 .. 0 |-> p]
  <2>1. f = [n \in 0 .. 0 |-> IF n = 0 THEN p ELSE RequestPage(f[n - 1])]
    OBVIOUS
  <2> HIDE DEF f
  <2>2. IsChain(f, p, 0)
    BY <2>1 DEF IsChain
  <2> QED BY <2>2
<1>5. m - 1 \in Nat /\ m - 1 \notin Bad
  BY <1>2, <1>3, <1>4
<1>6. PICK f : IsChain(f, p, m - 1)
  BY <1>5
<1> DEFINE g == [n \in 0 .. m |-> IF n = m THEN RequestPage(f[m - 1]) ELSE f[n]]
<1>7. \A n \in 0 .. m - 1 : f[n] = IF n = 0 THEN p ELSE RequestPage(f[n - 1])
  BY <1>6 DEF IsChain
<1>8. g = [n \in 0 .. m |-> IF n = 0 THEN p ELSE RequestPage(g[n - 1])]
  <2>1. \A n \in 0 .. m : n # m => n \in 0 .. m - 1
    BY <1>3
  <2>2. \A n \in 0 .. m : n # 0 => n - 1 \in 0 .. m /\ n - 1 # m
    BY <1>3
  <2>3. \A n \in 0 .. m : g[n] = IF n = 0 THEN p ELSE RequestPage(g[n - 1])
    BY <1>4, <1>7, <2>1, <2>2
  <2> QED BY <2>3
<1> HIDE DEF g
<1>9. IsChain(g, p, m)
  BY <1>8 DEF IsChain
<1> QED BY <1>9

(* Every word on the stack is the address of a page of memory.  No page is *)
(* there twice but for those in but, which were unlocked.                  *)
WordsBut(p, m, but) ==
  \A k \in DOMAIN p.stack :
    /\ PageOf(p.stack[k]) \in BitmapIndices(m)
    /\ PageOf(p.stack[k]) \in 0 .. MemoryPages(m) - 1
    /\ \A l \in DOMAIN p.stack :
         PageOf(p.stack[k]) = PageOf(p.stack[l]) => k = l \/ PageOf(p.stack[k]) \in but

(* What a request takes out of the pool and what it leaves.                *)
TakesBut(p, m, but, f, q) ==
  /\ q \in Allocators(m) /\ WordsBut(q, m, but) /\ q.bitmap = p.bitmap
  /\ f \in Pool(p) /\ (f \notin Pool(q) \/ f \in but) /\ Pool(q) \subseteq Pool(p)
  /\ Cardinality(Usable(q)) = Cardinality(Usable(p)) - 1

LEMMA RequestTakesBut ==
  ASSUME NEW m \in Seq(Descriptors), NEW p, p \in Allocators(m), NEW but,
         WordsBut(p, m, but), Usable(p) # {}
  PROVE  TakesBut(p, m, but, PageOf(RequestedAddress(p)), RequestPage(p))
<1> DEFINE top == TopUsable(p)
           f == PageOf(RequestedAddress(p))
           q == RequestPage(p)
<1>1. /\ p.stack \in Seq(Nat) /\ Len(p.stack) \in Nat
      /\ DOMAIN p.stack = 1 .. Len(p.stack)
  BY LenProperties DEF Allocators
<1>2. top \in Usable(p) /\ \A l \in Usable(p) : l <= top
  BY <1>1, TopUsableIsTop
<1>3. top \in DOMAIN p.stack
  BY <1>2 DEF Usable
<1>4. f = PageOf(p.stack[top])
  BY DEF RequestedAddress
<1>5. f \in BitmapIndices(m) /\ f \in Pool(p)
  BY <1>2, <1>3, <1>4 DEF Pool, WordsBut
<1>6. /\ q \in Allocators(m) /\ q.bitmap = p.bitmap
      /\ Len(q.stack) = top - 1
      /\ \A k \in 1 .. top - 1 : q.stack[k] = p.stack[k]
  BY <1>5, RequestPageEffect
<1> HIDE DEF f, q, top
<1>7. top \in Nat /\ top > 0 /\ top <= Len(p.stack)
  BY <1>1, <1>3
<1>8. DOMAIN q.stack = 1 .. top - 1 /\ 1 .. top - 1 \subseteq DOMAIN p.stack
  <2>1. q.stack \in Seq(Nat)
    BY <1>6 DEF Allocators
  <2>2. DOMAIN q.stack = 1 .. Len(q.stack)
    BY <2>1, LenProperties
  <2> QED BY <2>2, <1>1, <1>6, <1>7
<1>9. WordsBut(q, m, but)
  BY <1>6, <1>8 DEF WordsBut
<1>10. Usable(q) = Usable(p) \ {top}
  <2>1. \A k \in 1 .. top - 1 : k \in Usable(q) <=> k \in Usable(p)
    BY <1>6, <1>8 DEF Usable, InUse
  <2>2. \A k \in Usable(q) : k \in 1 .. top - 1
    BY <1>8 DEF Usable
  <2>3. \A k \in Usable(p) : k # top => k \in 1 .. top - 1
    <3> TAKE k \in Usable(p)
    <3>1. k \in Nat /\ k > 0 /\ k <= top
      BY <1>1, <1>2 DEF Usable
    <3> QED BY <3>1, <1>7
  <2>4. top \notin 1 .. top - 1
    BY <1>7
  <2> QED BY <2>1, <2>2, <2>3, <2>4
<1>11. Cardinality(Usable(q)) = Cardinality(Usable(p)) - 1
  <2>1. IsFiniteSet(1 .. Len(p.stack))
    BY <1>1, FS_Interval, 1 \in Int, Len(p.stack) \in Int
  <2>2. Usable(p) \in SUBSET (1 .. Len(p.stack))
    BY <1>1 DEF Usable
  <2>3. IsFiniteSet(Usable(p))
    BY <2>1, <2>2, FS_Subset
  <2> QED BY <2>3, <1>2, <1>10, FS_RemoveElement, FS_CardinalityType
<1>12. Pool(q) \subseteq Pool(p) /\ (f \notin Pool(q) \/ f \in but)
  <2>1. \A k \in Usable(q) : /\ k \in DOMAIN p.stack /\ k # top /\ k \in Usable(p)
                             /\ q.stack[k] = p.stack[k]
    BY <1>6, <1>8, <1>10 DEF Usable
  <2> QED BY <2>1, <1>3, <1>4 DEF Pool, WordsBut
<1>13. TakesBut(p, m, but, f, q)
  BY <1>5, <1>6, <1>9, <1>11, <1>12 DEF TakesBut
<1> QED BY <1>13 DEF f, q

(* A page in the pool is memory, and its bit is clear.                     *)
LEMMA PoolPagesBut ==
  ASSUME NEW m \in Seq(Descriptors), NEW p, p \in Allocators(m), NEW but,
         WordsBut(p, m, but), NEW f \in Pool(p)
  PROVE  f \in BitmapIndices(m) /\ ~p.bitmap[f] /\ f \in 0 .. MemoryPages(m) - 1
<1>1. PICK k \in Usable(p) : f = PageOf(p.stack[k])
  BY DEF Pool
<1>2. k \in DOMAIN p.stack /\ ~InUse(p, f)
  BY <1>1 DEF Usable
<1>3. DOMAIN p.bitmap = BitmapIndices(m)
  BY DEF Allocators
<1> QED BY <1>1, <1>2, <1>3 DEF WordsBut, InUse

(* The first n requests took n pages out of the pool, each another one but *)
(* for those in but.                                                       *)
TookApart(after, p, m, but, n) ==
  /\ after[n] \in Allocators(m) /\ WordsBut(after[n], m, but) /\ after[n].bitmap = p.bitmap
  /\ Cardinality(Usable(after[n])) = Cardinality(Usable(p)) - n
  /\ Pool(after[n]) \subseteq Pool(p)
  /\ \A i \in 0 .. n - 1 :
       /\ PageOf(RequestedAddress(after[i])) \in Pool(p)
       /\ \/ PageOf(RequestedAddress(after[i])) \notin Pool(after[n])
          \/ PageOf(RequestedAddress(after[i])) \in but
       /\ \A j \in 0 .. n - 1 :
            PageOf(RequestedAddress(after[i])) = PageOf(RequestedAddress(after[j]))
              => i = j \/ PageOf(RequestedAddress(after[i])) \in but

LEMMA ChainStep ==
  ASSUME NEW m \in Seq(Descriptors), NEW p, NEW but, NEW after, NEW n \in Nat,
         Cardinality(Usable(p)) \in Nat, n < Cardinality(Usable(p)),
         TookApart(after, p, m, but, n), after[n + 1] = RequestPage(after[n])
  PROVE  TookApart(after, p, m, but, n + 1)
<1> DEFINE q == after[n]
           r == after[n + 1]
           f == PageOf(RequestedAddress(q))
           F(i) == PageOf(RequestedAddress(after[i]))
<1>1. /\ q \in Allocators(m) /\ WordsBut(q, m, but) /\ q.bitmap = p.bitmap
      /\ Cardinality(Usable(q)) = Cardinality(Usable(p)) - n
      /\ Pool(q) \subseteq Pool(p)
  BY DEF TookApart
<1>2. \A i \in 0 .. n - 1 : /\ F(i) \in Pool(p) /\ (F(i) \notin Pool(q) \/ F(i) \in but)
                            /\ \A j \in 0 .. n - 1 : F(i) = F(j) => i = j \/ F(i) \in but
  BY DEF TookApart
<1>3. Usable(q) # {}
  <2>1. Usable(q) = {} => Cardinality(Usable(q)) = 0
    BY FS_EmptySet
  <2> HIDE DEF q
  <2> QED BY <1>1, <2>1
<1>4. TakesBut(q, m, but, f, r)
  BY <1>1, <1>3, RequestTakesBut
<1>5. F(n) = f
  OBVIOUS
<1> HIDE DEF f, q, r, F
<1>6. /\ r \in Allocators(m) /\ WordsBut(r, m, but) /\ r.bitmap = p.bitmap
      /\ Pool(r) \subseteq Pool(q) /\ f \in Pool(q) /\ (f \notin Pool(r) \/ f \in but)
      /\ Cardinality(Usable(r)) = Cardinality(Usable(q)) - 1
  BY <1>1, <1>4 DEF TakesBut
<1>7. Cardinality(Usable(r)) = Cardinality(Usable(p)) - (n + 1)
  BY <1>1, <1>6
<1>8. \A i \in 0 .. (n + 1) - 1 : i = n \/ i \in 0 .. n - 1
  OBVIOUS
<1>9. \A i \in 0 .. (n + 1) - 1 :
        /\ F(i) \in Pool(p) /\ (F(i) \notin Pool(r) \/ F(i) \in but)
        /\ \A j \in 0 .. (n + 1) - 1 : F(i) = F(j) => i = j \/ F(i) \in but
  BY <1>1, <1>2, <1>5, <1>6, <1>8
<1> QED BY <1>1, <1>6, <1>7, <1>9 DEF TookApart, q, r, F

LEMMA ChainTakes ==
  ASSUME NEW m \in Seq(Descriptors), NEW p, NEW but, p \in Allocators(m), WordsBut(p, m, but),
         NEW size \in Nat, Cardinality(Usable(p)) \in Nat, Cardinality(Usable(p)) >= size,
         NEW after, IsChain(after, p, size)
  PROVE  \A n \in 0 .. size : TookApart(after, p, m, but, n)
<1> DEFINE Bad == {n \in Nat : n <= size /\ ~TookApart(after, p, m, but, n)}
<1>1. SUFFICES ASSUME Bad # {} PROVE FALSE
  BY DEF Bad
<1>2. PICK n \in Bad : \A l \in Bad : n <= l
  BY <1>1, SmallestExists
<1>3. n \in Nat /\ n <= size /\ ~TookApart(after, p, m, but, n)
  BY DEF Bad
<1>4. after[0] = p /\ \A l \in 0 .. size : l # 0 => after[l] = RequestPage(after[l - 1])
  BY DEF IsChain
<1>5. n # 0
  <2>1. TookApart(after, p, m, but, 0)
    BY <1>4 DEF TookApart
  <2> QED BY <1>3, <2>1
<1>6. n - 1 \in Nat /\ n - 1 \notin Bad /\ n - 1 < size /\ (n - 1) + 1 = n
  BY <1>2, <1>3, <1>5
<1>7. TookApart(after, p, m, but, n - 1)
  BY <1>3, <1>6 DEF Bad
<1>8. n \in 0 .. size
  BY <1>3
<1>9. after[(n - 1) + 1] = RequestPage(after[n - 1])
  BY <1>4, <1>5, <1>6, <1>8
<1>10. n - 1 < Cardinality(Usable(p))
  BY <1>6
<1>11. TookApart(after, p, m, but, (n - 1) + 1)
  BY <1>6, <1>7, <1>9, <1>10, ChainStep
<1> QED BY <1>3, <1>6, <1>11

(* What Requested leaves: so many pages out of the pool, no two the same,  *)
(* but for those in but.                                                   *)
TakesAll(p, m, but, size, frames, q) ==
  /\ q \in Allocators(m) /\ WordsBut(q, m, but) /\ q.bitmap = p.bitmap /\ Pool(q) \subseteq Pool(p)
  /\ \A i \in 0 .. size - 1 :
       /\ frames[i] \in Pool(p) /\ (frames[i] \notin Pool(q) \/ frames[i] \in but)
       /\ \A j \in 0 .. size - 1 : frames[i] = frames[j] => i = j \/ frames[i] \in but

LEMMA RequestedEffect ==
  ASSUME mMap \in Seq(Descriptors), pmm \in Allocators(mMap), WordsBut(pmm, mMap, unlocked),
         NEW size \in Nat, CanRequest(size)
  PROVE  TakesAll(pmm, mMap, unlocked, size, Requested(size).frames, Requested(size).pmm)
<1> DEFINE after[n \in 0 .. size] == IF n = 0 THEN pmm ELSE RequestPage(after[n - 1])
           frames == [i \in 0 .. size - 1 |-> PageOf(RequestedAddress(after[i]))]
<1>1. Requested(size) = [pmm |-> after[size], frames |-> frames]
  BY DEF Requested
<1>2. IsChain(after, pmm, size)
  <2>1. \E f : f = [n \in 0 .. size |-> IF n = 0 THEN pmm ELSE RequestPage(f[n - 1])]
    BY ChainExists DEF IsChain
  <2>2. after = [n \in 0 .. size |-> IF n = 0 THEN pmm ELSE RequestPage(after[n - 1])]
    BY <2>1
  <2> HIDE DEF after
  <2> QED BY <2>2 DEF IsChain
<1> HIDE DEF after
<1>3. Cardinality(Usable(pmm)) \in Nat /\ Cardinality(Usable(pmm)) >= size
  <2>1. pmm.stack \in Seq(Nat) /\ Len(pmm.stack) \in Nat /\ DOMAIN pmm.stack = 1 .. Len(pmm.stack)
    BY LenProperties DEF Allocators
  <2>2. IsFiniteSet(1 .. Len(pmm.stack))
    BY <2>1, FS_Interval, 1 \in Int, Len(pmm.stack) \in Int
  <2>3. Usable(pmm) \in SUBSET (1 .. Len(pmm.stack))
    BY <2>1 DEF Usable
  <2> QED BY <2>2, <2>3, FS_Subset, FS_CardinalityType DEF CanRequest
<1>4. TookApart(after, pmm, mMap, unlocked, size)
  BY <1>2, <1>3, ChainTakes
<1>5. \A i \in 0 .. size - 1 : frames[i] = PageOf(RequestedAddress(after[i]))
  OBVIOUS
<1> HIDE DEF frames
<1>6. TakesAll(pmm, mMap, unlocked, size, frames, after[size])
  BY <1>4, <1>5 DEF TookApart, TakesAll
<1> QED BY <1>1, <1>6

-------------------------------------------------------------------------------
(* What the heap requests.                                                 *)

(* Later pages come after all the requests of the pages before them.       *)
LEMMA AskedGrows ==
  ASSUME NEW start \in Nat, NEW a \in Nat, NEW b \in Nat, start <= a, a <= b
  PROVE  /\ Asked(start, a) \in Nat /\ Asked(start, b) \in Nat
         /\ a < b => Asked(start, a) < Asked(start, b)
         /\ a < b /\ NeedsTable(start, a) => Asked(start, a) + 1 < Asked(start, b)
<1> DEFINE A == {before \in start .. a - 1 : NeedsTable(start, before)}
           B == {before \in start .. b - 1 : NeedsTable(start, before)}
           x == Cardinality(A)
           y == Cardinality(B)
<1>1. IsFiniteSet(A) /\ IsFiniteSet(B)
  <2>1. IsFiniteSet(start .. a - 1) /\ IsFiniteSet(start .. b - 1)
    BY FS_Interval, start \in Int, a - 1 \in Int, b - 1 \in Int
  <2>2. A \in SUBSET (start .. a - 1) /\ B \in SUBSET (start .. b - 1)
    OBVIOUS
  <2> HIDE DEF A, B
  <2> QED BY <2>1, <2>2, FS_Subset
<1>2. A \subseteq B /\ a \notin A
  OBVIOUS
<1>3. a < b /\ NeedsTable(start, a) => A \union {a} \subseteq B
  OBVIOUS
<1>4. Asked(start, a) = a - start + x /\ Asked(start, b) = b - start + y
  BY DEF Asked
<1> HIDE DEF A, B
<1>5. x \in Nat /\ y \in Nat /\ x <= y
  BY <1>1, <1>2, FS_Subset, FS_CardinalityType
<1>6. a < b /\ NeedsTable(start, a) => x + 1 <= y
  <2> SUFFICES ASSUME a < b /\ NeedsTable(start, a) PROVE x + 1 <= y
    OBVIOUS
  <2>1. Cardinality(A \union {a}) = x + 1
    BY <1>1, <1>2, FS_AddElement
  <2>2. A \union {a} \in SUBSET B
    BY <1>3
  <2> QED BY <1>1, <2>1, <2>2, FS_Subset
<1> HIDE DEF x, y
<1> QED BY <1>4, <1>5, <1>6

(* Frames for the pages, and for the tables that were not there: different *)
(* ones out of the pool, but for those in but.                             *)
HeapTakes(p, m, but, start, size, held, r) ==
  /\ TakesAll(p, m, but, size, r.frames, r.pmm)
  /\ DOMAIN held \subseteq DOMAIN r.tables
  /\ \A table \in DOMAIN held : r.tables[table] = held[table]
  /\ \A page \in Span(start, size) : TableOf(page) \in DOMAIN r.tables
  /\ \A table \in DOMAIN r.tables \ DOMAIN held :
       /\ r.tables[table] \in Pool(p)
       /\ r.tables[table] \notin Pool(r.pmm) \/ r.tables[table] \in but
       /\ \A i \in 0 .. size - 1 : r.frames[i] # r.tables[table] \/ r.tables[table] \in but

LEMMA RequestedForHeapEffect ==
  ASSUME mMap \in Seq(Descriptors), pmm \in Allocators(mMap), WordsBut(pmm, mMap, unlocked),
         NEW start \in Nat, NEW size \in Nat, CanRequest(Asked(start, start + size))
  PROVE  HeapTakes(pmm, mMap, unlocked, start, size, heapTables, RequestedForHeap(start, size))
<1> DEFINE total == Asked(start, start + size)
           all == Requested(total).frames
           q == Requested(total).pmm
           new == {page \in Span(start, size) : NeedsTable(start, page)}
           frames == LeafFrames(start, size, all)
           held == WithTables(start, size, all)
           at(i) == Asked(start, start + i)
<1>1. total \in Nat
  BY AskedGrows, start + size \in Nat, start <= start + size
<1>2. TakesAll(pmm, mMap, unlocked, total, all, q)
  BY <1>1, RequestedEffect
<1>3. RequestedForHeap(start, size) = [pmm |-> q, frames |-> frames, tables |-> held]
  BY DEF RequestedForHeap
<1>4. /\ q \in Allocators(mMap) /\ WordsBut(q, mMap, unlocked) /\ q.bitmap = pmm.bitmap
      /\ Pool(q) \subseteq Pool(pmm)
      /\ \A i \in 0 .. total - 1 :
           /\ all[i] \in Pool(pmm) /\ (all[i] \notin Pool(q) \/ all[i] \in unlocked)
           /\ \A j \in 0 .. total - 1 : all[i] = all[j] => i = j \/ all[i] \in unlocked
  BY <1>2 DEF TakesAll
<1>5. \A i \in 0 .. size - 1 : frames[i] = all[at(i)]
  BY DEF LeafFrames
<1>6. /\ DOMAIN held = DOMAIN heapTables \union {TableOf(page) : page \in new}
      /\ \A table \in DOMAIN heapTables : held[table] = heapTables[table]
      /\ \A table \in DOMAIN held \ DOMAIN heapTables :
           held[table] = all[Asked(start, CHOOSE page \in new : TableOf(page) = table) + 1]
  BY DEF WithTables
<1>7. \A i \in 0 .. size - 1 : at(i) \in 0 .. total - 1
  <2> TAKE i \in 0 .. size - 1
  <2> DEFINE a == start + i
             b == start + size
  <2>1. a \in Nat /\ b \in Nat /\ start <= a /\ a < b /\ a <= b
    OBVIOUS
  <2>2. at(i) = Asked(start, a) /\ total = Asked(start, b)
    OBVIOUS
  <2> HIDE DEF a, b, at, total
  <2>3. at(i) \in Nat /\ at(i) < total
    BY <2>1, <2>2, AskedGrows
  <2> QED BY <1>1, <2>3
<1>8. \A i, j \in 0 .. size - 1 : at(i) = at(j) => i = j
  <2> SUFFICES ASSUME NEW i \in 0 .. size - 1, NEW j \in 0 .. size - 1, i < j
               PROVE  at(i) # at(j)
    OBVIOUS
  <2>1. start + i \in Nat /\ start + j \in Nat /\ start <= start + i /\ start + i < start + j
    OBVIOUS
  <2>2. at(i) \in Nat /\ at(j) \in Nat /\ at(i) < at(j)
    BY <2>1, AskedGrows
  <2> HIDE DEF at
  <2> QED BY <2>2
<1>9. ASSUME NEW page \in new
      PROVE  /\ Asked(start, page) + 1 \in 0 .. total - 1
             /\ \A i \in 0 .. size - 1 : at(i) # Asked(start, page) + 1
  <2> DEFINE x == Asked(start, page)
  <2>1. page \in Nat /\ start <= page /\ page < start + size /\ start + size \in Nat
        /\ NeedsTable(start, page)
    BY DEF Span
  <2>2. x \in Nat /\ x + 1 < total
    BY <2>1, AskedGrows
  <2>3. ASSUME NEW i \in 0 .. size - 1
        PROVE  at(i) # x + 1
    <3> DEFINE other == start + i
    <3>1. other \in Nat /\ start <= other
      OBVIOUS
    <3>2. at(i) = Asked(start, other) /\ x = Asked(start, page)
      OBVIOUS
    <3> HIDE DEF other, at, x
    <3>3. CASE other < page
      <4>1. at(i) \in Nat /\ at(i) < x
        BY <2>1, <3>1, <3>2, <3>3, AskedGrows
      <4> QED BY <2>2, <4>1
    <3>4. CASE other = page
      BY <2>2, <3>2, <3>4
    <3>5. CASE page < other
      <4>1. at(i) \in Nat /\ x + 1 < at(i)
        BY <2>1, <3>1, <3>2, <3>5, AskedGrows
      <4> QED BY <2>2, <4>1
    <3> QED BY <2>1, <3>1, <3>3, <3>4, <3>5
  <2> HIDE DEF x, total
  <2>4. x + 1 \in 0 .. total - 1
    BY <1>1, <2>2
  <2> QED BY <2>3, <2>4 DEF x
<1> HIDE DEF total, all, q, frames, held, at
<1>10. TakesAll(pmm, mMap, unlocked, size, frames, q)
  <2>1. \A i \in 0 .. size - 1 :
          /\ frames[i] \in Pool(pmm) /\ (frames[i] \notin Pool(q) \/ frames[i] \in unlocked)
          /\ \A j \in 0 .. size - 1 : frames[i] = frames[j] => i = j \/ frames[i] \in unlocked
    BY <1>4, <1>5, <1>7, <1>8
  <2> QED BY <1>4, <2>1 DEF TakesAll
<1>11. \A page \in Span(start, size) : TableOf(page) \in DOMAIN held
  <2> SUFFICES ASSUME NEW page \in Span(start, size), TableOf(page) \notin DOMAIN heapTables
               PROVE  TableOf(page) \in DOMAIN held
    BY <1>6
  <2> DEFINE same == {other \in start .. page : TableOf(other) = TableOf(page)}
  <2>1. page \in Nat /\ start <= page /\ page < start + size
    BY DEF Span
  <2>2. same \in SUBSET Nat /\ same # {}
    <3>1. page \in same
      BY <2>1
    <3>2. start .. page \subseteq Nat
      BY <2>1
    <3> QED BY <3>1, <3>2
  <2>3. PICK first \in same : \A other \in same : first <= other
    BY <2>2, SmallestExists
  <2>4. first \in Nat /\ start <= first /\ first <= page /\ TableOf(first) = TableOf(page)
    BY <2>1
  <2>5. \A before \in start .. first - 1 : TableOf(before) # TableOf(first)
    <3> TAKE before \in start .. first - 1
    <3>1. before \in start .. page /\ ~(first <= before)
      BY <2>1, <2>4
    <3> QED BY <2>3, <2>4, <3>1
  <2>6. first \in new
    BY <2>1, <2>4, <2>5 DEF Span, NeedsTable
  <2> QED BY <1>6, <2>4, <2>6
<1>12. ASSUME NEW table \in DOMAIN held \ DOMAIN heapTables
       PROVE  /\ held[table] \in Pool(pmm)
              /\ held[table] \notin Pool(q) \/ held[table] \in unlocked
              /\ \A i \in 0 .. size - 1 :
                   frames[i] # held[table] \/ held[table] \in unlocked
  <2> DEFINE page == CHOOSE page \in new : TableOf(page) = table
             slot == Asked(start, page) + 1
  <2>1. page \in new
    <3>1. \E one \in new : TableOf(one) = table
      BY <1>6
    <3> QED BY <3>1
  <2>2. held[table] = all[slot]
    BY <1>6
  <2>3. slot \in 0 .. total - 1 /\ \A i \in 0 .. size - 1 : at(i) # slot
    BY <1>9, <2>1
  <2> HIDE DEF slot, page
  <2> QED BY <1>4, <1>5, <1>7, <2>2, <2>3
<1>13. DOMAIN heapTables \subseteq DOMAIN held
  BY <1>6
<1> DEFINE r == RequestedForHeap(start, size)
<1>14. r.pmm = q /\ r.frames = frames /\ r.tables = held
  BY <1>3
<1> HIDE DEF r
<1>15. HeapTakes(pmm, mMap, unlocked, start, size, heapTables, r)
  BY <1>6, <1>10, <1>11, <1>12, <1>13, <1>14 DEF HeapTakes
<1> QED BY <1>15 DEF r

-------------------------------------------------------------------------------
(* Sizes in pages.                                                         *)

LEMMA DivFacts ==
  ASSUME NEW a \in Nat
  PROVE  /\ a \div PageSize \in Nat
         /\ (a % PageSize) \in Nat
         /\ a = PageSize * (a \div PageSize) + (a % PageSize)
         /\ PageSize * (a \div PageSize) \in Nat
         /\ PageSize * (a \div PageSize) <= a
         /\ a < PageSize * (a \div PageSize) + PageSize
<1> DEFINE P == PageSize
           q == a \div P
           r == a % P
<1>1. P \in Nat /\ P > 0
  BY SizesAssumption
<1> HIDE DEF P
<1>2. q \in Nat /\ r \in Nat /\ r < P /\ a = P * q + r
  BY <1>1
<1> HIDE DEF q, r
<1>3. P * q \in Nat
  BY <1>1, <1>2
<1>4. P * q <= a /\ a < P * q + P
  BY <1>1, <1>2, <1>3
<1> QED BY <1>2, <1>3, <1>4 DEF q, r, P

LEMMA DivBelow ==
  ASSUME NEW a \in Nat, NEW b \in Nat, a < PageSize * b
  PROVE  a \div PageSize < b
<1> DEFINE P == PageSize
           q == a \div PageSize
<1>1. P \in Nat /\ P > 0
  BY SizesAssumption
<1>2. q \in Nat /\ P * q \in Nat /\ P * q <= a
  BY DivFacts
<1>3. a < P * b
  OBVIOUS
<1> HIDE DEF P, q
<1>4. P * q < P * b
  BY <1>1, <1>2, <1>3
<1>5. ~(q >= b)
  <2>1. SUFFICES ASSUME q >= b PROVE P * q >= P * b
    BY <1>1, <1>2, <1>4
  <2> QED BY <1>1, <1>2, <2>1
<1> QED BY <1>2, <1>5 DEF q

LEMMA DivMonotone ==
  ASSUME NEW a \in Nat, NEW b \in Nat, a <= b
  PROVE  a \div PageSize <= b \div PageSize
<1> DEFINE P == PageSize
           q == b \div PageSize
<1>1. P \in Nat /\ P > 0
  BY SizesAssumption
<1>2. q \in Nat /\ P * q \in Nat /\ b < P * q + P
  BY DivFacts
<1> HIDE DEF P, q
<1>3. P * (q + 1) = P * q + P
  BY <1>1, <1>2
<1>4. a < P * (q + 1)
  BY <1>1, <1>2, <1>3
<1>5. a \div PageSize < q + 1
  BY <1>2, <1>4, DivBelow DEF P
<1>6. a \div PageSize \in Nat
  BY DivFacts
<1> QED BY <1>2, <1>5, <1>6 DEF q

(* Rounded up to whole pages a number is at most one page more; if it is   *)
(* not more, there was nothing to round.                                   *)
LEMMA RoundedUp ==
  ASSUME NEW a \in Nat
  PROVE  LET up == (a + PageSize - 1) \div PageSize
         IN  /\ up \in Nat
             /\ a \div PageSize <= up
             /\ up <= a \div PageSize + 1
             /\ up = a \div PageSize => a % PageSize = 0
<1> DEFINE P == PageSize
           q == a \div PageSize
           b == a + PageSize - 1
           up == b \div PageSize
<1>1. P \in Nat /\ P > 0
  BY SizesAssumption
<1>2. b \in Nat /\ a <= b /\ b = a + P - 1
  BY <1>1
<1>3. q \in Nat /\ P * q \in Nat /\ a < P * q + P /\ (a % PageSize) \in Nat
      /\ a = P * q + (a % PageSize)
  BY DivFacts
<1> HIDE DEF b
<1>4. up \in Nat /\ b < P * up + P /\ P * up \in Nat
  BY <1>2, DivFacts
<1>5. q <= up
  BY <1>2, DivMonotone
<1> HIDE DEF P, q, up
<1>6. P * (q + 2) = P * q + P + P
  BY <1>1, <1>3
<1>7. b < P * (q + 2)
  BY <1>1, <1>2, <1>3, <1>6
<1>8. up < q + 2
  BY <1>2, <1>3, <1>7, DivBelow DEF P, up
<1>9. up = q => a % PageSize = 0
  <2> DEFINE r == a % PageSize
  <2> HIDE DEF r
  <2>1. r \in Nat /\ a = P * q + r
    BY <1>3 DEF r
  <2>2. SUFFICES ASSUME up = q PROVE r = 0
    BY DEF r
  <2>3. b < P * q + P
    BY <1>4, <2>2
  <2> QED BY <1>1, <1>2, <1>3, <2>1, <2>3
<1>10. up <= q + 1
  BY <1>3, <1>4, <1>8
<1> QED BY <1>4, <1>5, <1>9, <1>10 DEF q, up, b

(* Fixed at boot.                                                          *)
BootOK == mMap \in MemoryMaps /\ image \in Images /\ framebuffer \in Framebuffers

LEMMA SizesType ==
  ASSUME BootOK
  PROVE  /\ mMap \in Seq(Descriptors)
         /\ memorySize \in Nat \ {0} /\ DescribedPages \subseteq Nat
         /\ kernelROSizePages \in Nat \ {0} /\ kernelSizePages \in Nat
         /\ kernelROSizePages <= kernelSizePages
         /\ LoadedPages \in Nat /\ LoadedPages <= kernelSizePages
         /\ framebuffer.page \in Nat /\ framebuffer.BufferSize \in Nat
         /\ framebuffer.BufferSize \div PageSize \in Nat
         /\ image.ro \in Nat /\ image.bytes \in Nat
<1>1. mMap \in Seq(Descriptors)
  BY KernelAddressSpaceAssumption DEF BootOK
<1>2. memorySize \in Nat \ {0}
  BY <1>1, MemoryPagesType, LayoutAssumption DEF BootOK, memorySize
<1>3. image.ro \in Nat /\ image.bytes \in Nat /\ image.ro <= image.bytes
  BY KernelAddressSpaceAssumption, LayoutAssumption DEF BootOK
<1>4. framebuffer.page \in Nat /\ framebuffer.BufferSize \in Nat
  BY KernelAddressSpaceAssumption DEF BootOK
<1>5. image.ro \div PageSize \in Nat /\ image.bytes \div PageSize \in Nat
      /\ framebuffer.BufferSize \div PageSize \in Nat
      /\ image.ro \div PageSize <= image.bytes \div PageSize
  BY <1>3, <1>4, DivFacts, DivMonotone
<1>6. LoadedPages \in Nat /\ LoadedPages <= image.bytes \div PageSize + 1
  BY <1>3, RoundedUp DEF LoadedPages
<1>7. DescribedPages \subseteq Nat
  <2>1. \A i \in DOMAIN mMap : mMap[i] \in Descriptors
    BY <1>1, ElementOfSeq, LenProperties
  <2> QED BY <2>1 DEF DescribedPages, PagesOf, Span, Descriptors
<1> QED BY <1>1, <1>2, <1>3, <1>4, <1>5, <1>6, <1>7
        DEF kernelROSizePages, kernelSizePages

-------------------------------------------------------------------------------
(* Where the mappings lie.                                                 *)

CodePages == Span(KERNEL_IMAGE_START, kernelROSizePages)

DataPages ==
  Span(KERNEL_IMAGE_START + kernelROSizePages, kernelSizePages - kernelROSizePages)

FramebufferPages == Span(framebuffer.page, framebuffer.BufferSize \div PageSize)

LowPages == Span(0, memorySize) \union FramebufferPages

(* The mappings in the order of _start, with a heap of h pages.            *)
Planned(h) ==
  <<MappingOf(HEAP_START, h, "ProcessData"),
    MappingOf(KERNEL_IMAGE_START, kernelROSizePages, "ProcessCode"),
    MappingOf(KERNEL_IMAGE_START + kernelROSizePages,
              kernelSizePages - kernelROSizePages, "ProcessData"),
    MappingOf(0, memorySize, "Device"),
    MappingOf(framebuffer.page, framebuffer.BufferSize \div PageSize, "Device"),
    MappingOf(STACK_START, STACK_SIZE, "ProcessStack"),
    MappingOf(GDT_VIRTUAL_MEMORY_POS, 1, "Special"),
    MappingOf(IDT_VIRTUAL_MEMORY_POS, 1, "Special")>>

Region(h, i) == Span(Planned(h)[i].start, Planned(h)[i].size)

Regions(h, n) == UNION {Region(h, i) : i \in 1 .. n}

(* How many of them are in the tables, and in the list, after s statements.*)
InTables(s) == IF s = 0 THEN 0 ELSE IF s = 1 THEN 1 ELSE IF s <= 7 THEN s - 1 ELSE s - 2

InList(s) == IF s <= 1 THEN 0 ELSE IF s <= 7 THEN s - 1 ELSE s - 2

-------------------------------------------------------------------------------
(* The inductive invariant.                                                *)

(* An entry of the image and of the identity map leads where it must.      *)
EntryOK(entry, page) ==
  /\ entry \in Entries
  /\ page \in CodePages =>
       entry = [frame |-> page - KERNEL_IMAGE_START, flags |-> KernelFlags \union {"Present"}]
  /\ page \in DataPages =>
       entry.frame = page - KERNEL_IMAGE_START /\ "ReadWrite" \in entry.flags
  /\ page \in LowPages => entry.frame = page

EntriesOK(space) ==
  \A page \in DOMAIN space : page \in Nat /\ EntryOK(space[page], page)

(* The pages of the heap, the stack, the GDT and the IDT have frames that  *)
(* were requested and that nobody else has, but for those in but.          *)
FramesOK(p, space, but) ==
  /\ p \in Allocators(mMap) /\ WordsBut(p, mMap, but)
  /\ \A i \in BitmapIndices(mMap) :
       i \in Span(0, kernelSizePages) => p.bitmap[i] \/ i \in but
  /\ \A page \in OwnRegions \intersect DOMAIN space :
       LET frame == space[page].frame
       IN  /\ frame \in BitmapIndices(mMap) /\ frame < memorySize
           /\ ~p.bitmap[frame] /\ (frame \notin Pool(p) \/ frame \in but)
           /\ \A other \in OwnRegions \intersect DOMAIN space :
                space[other].frame = frame => other = page \/ frame \in but

(* The pages of the heap have tables, whose frames were requested too and  *)
(* are nobody else's; their bits are clear, so they are never unlocked.    *)
TablesOK(p, space, h, held, but) ==
  /\ \A page \in Span(HEAP_START, h) : TableOf(page) \in DOMAIN held
  /\ but \subseteq BitmapIndices(mMap)
  /\ \A table \in DOMAIN held :
       LET frame == held[table]
       IN  /\ frame \in BitmapIndices(mMap) /\ frame \in 0 .. memorySize - 1
           /\ ~p.bitmap[frame] /\ frame \notin Pool(p) /\ frame \notin but
           /\ \A page \in OwnRegions \intersect DOMAIN space : space[page].frame # frame

(* What the bootloader mapped, and the first heap, which is in both.       *)
OldOK(old, space, s) ==
  \A page \in DOMAIN old :
    /\ page \in Nat /\ old[page] \in Entries
    /\ \/ /\ \/ page \in DescribedPages
             \/ page \in Span(framebuffer.page,
                              (framebuffer.BufferSize + PageSize - 1) \div PageSize)
          /\ old[page].frame = page
       \/ page \in Span(KERNEL_IMAGE_START, LoadedPages)
          /\ old[page].frame = page - KERNEL_IMAGE_START
       \/ /\ s >= 1 /\ page \in Span(HEAP_START, INIT_HEAP_SIZE)
          /\ page \in DOMAIN space /\ old[page].frame = space[page].frame

(* The heap grows and shrinks in steps from its first size, and never      *)
(* shrinks below it.                                                       *)
HeapSizeOK(h, s) ==
  /\ h \in Nat /\ h <= MaxHeapSize
  /\ s \in 1 .. 7 => h = INIT_HEAP_SIZE
  /\ s >= 1 => \E k \in Nat : h = INIT_HEAP_SIZE + k * HEAP_STEP

Mappings ==
  [start : Nat, size : Nat,
   type : {"ProcessCode", "ProcessData", "ProcessStack", "Device", "Special"}]

ListOK(list, h, n) ==
  /\ list \in Seq(Mappings) /\ Len(list) = n
  /\ \A i \in 1 .. n : list[i] = Planned(h)[i]

State(s, p, old, space, list, h, held, but) ==
  /\ s \in 0 .. 10 /\ HeapSizeOK(h, s)
  /\ DOMAIN space = Regions(h, InTables(s)) /\ EntriesOK(space)
  /\ FramesOK(p, space, but) /\ TablesOK(p, space, h, held, but)
  /\ OldOK(old, space, s)
  /\ ListOK(list, h, InList(s))

Inv == BootOK /\ State(step, pmm, old_vmm, vmm, mappings, heapSize, heapTables, unlocked)

-------------------------------------------------------------------------------
(* The regions are apart.                                                  *)

LEMMA Layout ==
  ASSUME BootOK
  PROVE  /\ LowPages \subseteq Nat /\ CodePages \subseteq Nat /\ DataPages \subseteq Nat
         /\ OwnRegions \subseteq Nat
         /\ CodePages \union DataPages = Span(KERNEL_IMAGE_START, kernelSizePages)
         /\ CodePages \intersect DataPages = {}
         /\ LowPages \intersect (CodePages \union DataPages \union OwnRegions) = {}
         /\ (CodePages \union DataPages) \intersect OwnRegions = {}
<1> DEFINE low == (0 .. MemoryPages(mMap) - 1) \union (UNION {PagesOf(mMap[k]) : k \in DOMAIN mMap})
                    \union Span(framebuffer.page, framebuffer.BufferSize \div PageSize + 1)
           kernel == Span(KERNEL_IMAGE_START, image.bytes \div PageSize + 1)
           heap == Span(HEAP_START, MaxHeapSize)
           stack == Span(STACK_START, STACK_SIZE)
           special == {GDT_VIRTUAL_MEMORY_POS, IDT_VIRTUAL_MEMORY_POS}
<1>1. /\ low \intersect (kernel \union heap \union stack \union special) = {}
      /\ kernel \intersect (heap \union stack \union special) = {}
  BY LayoutAssumption DEF BootOK
<1>2. OwnRegions = heap \union stack \union special
  BY DEF OwnRegions
<1>3. /\ memorySize \in Nat /\ kernelROSizePages \in Nat \ {0} /\ kernelSizePages \in Nat
      /\ kernelROSizePages <= kernelSizePages
      /\ framebuffer.page \in Nat /\ framebuffer.BufferSize \div PageSize \in Nat
  BY SizesType
<1>4. LowPages \subseteq low
  BY <1>3 DEF LowPages, FramebufferPages, Span, memorySize
<1>5. CodePages \union DataPages = kernel /\ kernel = Span(KERNEL_IMAGE_START, kernelSizePages)
      /\ CodePages \intersect DataPages = {}
  <2>1. kernel = Span(KERNEL_IMAGE_START, kernelSizePages)
    BY DEF kernelSizePages
  <2> HIDE DEF kernel
  <2>2. KERNEL_IMAGE_START \in Nat
    BY LayoutAssumption
  <2> QED BY <1>3, <2>1, <2>2 DEF CodePages, DataPages, Span
<1>6. /\ LowPages \subseteq Nat /\ CodePages \subseteq Nat /\ DataPages \subseteq Nat
      /\ OwnRegions \subseteq Nat
  BY <1>3, LayoutAssumption DEF LowPages, FramebufferPages, CodePages, DataPages, OwnRegions, Span
<1> HIDE DEF low, kernel, heap, stack, special
<1> QED BY <1>1, <1>2, <1>4, <1>5, <1>6

(* Where each mapping of the plan lies.                                    *)
LEMMA RegionPages ==
  ASSUME BootOK, NEW h \in Nat
  PROVE  /\ Region(h, 1) = Span(HEAP_START, h)
         /\ Region(h, 2) = CodePages
         /\ Region(h, 3) = DataPages
         /\ Region(h, 4) = Span(0, memorySize)
         /\ Region(h, 5) = FramebufferPages
         /\ Region(h, 6) = Span(STACK_START, STACK_SIZE)
         /\ Region(h, 7) = {GDT_VIRTUAL_MEMORY_POS}
         /\ Region(h, 8) = {IDT_VIRTUAL_MEMORY_POS}
<1>1. Span(GDT_VIRTUAL_MEMORY_POS, 1) = {GDT_VIRTUAL_MEMORY_POS}
      /\ Span(IDT_VIRTUAL_MEMORY_POS, 1) = {IDT_VIRTUAL_MEMORY_POS}
  BY LayoutAssumption DEF Span
<1> QED BY <1>1 DEF Region, Planned, MappingOf, CodePages, DataPages, FramebufferPages

LEMMA RegionsNext ==
  ASSUME NEW h, NEW n \in Nat
  PROVE  Regions(h, n + 1) = Regions(h, n) \union Region(h, n + 1)
<1>1. 1 .. n + 1 = (1 .. n) \union {n + 1}
  OBVIOUS
<1> QED BY <1>1 DEF Regions

(* The heap is the only region that changes.                               *)
LEMMA HeapRegion ==
  ASSUME BootOK, NEW h \in Nat, NEW n \in 1 .. 8
  PROVE  Regions(h, n) = Span(HEAP_START, h) \union (UNION {Region(0, i) : i \in 2 .. n})
<1>1. \A i \in 2 .. n : Region(h, i) = Region(0, i)
  <2> TAKE i \in 2 .. n
  <2>1. i \in 2 .. 8
    OBVIOUS
  <2>2. i = 2 \/ i = 3 \/ i = 4 \/ i = 5 \/ i = 6 \/ i = 7 \/ i = 8
    BY <2>1
  <2> QED BY <2>2, RegionPages, 0 \in Nat
<1>2. 1 .. n = {1} \union (2 .. n)
  OBVIOUS
<1>3. Region(h, 1) = Span(HEAP_START, h)
  BY RegionPages
<1> QED BY <1>1, <1>2, <1>3 DEF Regions

(* ... and lies apart from the others.                                     *)
LEMMA HeapApart ==
  ASSUME BootOK, NEW n \in 1 .. 8
  PROVE  Span(HEAP_START, MaxHeapSize) \intersect (UNION {Region(0, i) : i \in 2 .. n}) = {}
<1> DEFINE low == (0 .. MemoryPages(mMap) - 1) \union (UNION {PagesOf(mMap[k]) : k \in DOMAIN mMap})
                    \union Span(framebuffer.page, framebuffer.BufferSize \div PageSize + 1)
           heap == Span(HEAP_START, MaxHeapSize)
           stack == Span(STACK_START, STACK_SIZE)
           special == {GDT_VIRTUAL_MEMORY_POS, IDT_VIRTUAL_MEMORY_POS}
<1>1. heap \intersect (stack \union special) = {}
  BY LayoutAssumption DEF BootOK
<1>2. heap \subseteq OwnRegions
  BY DEF OwnRegions
<1>3. (LowPages \union CodePages \union DataPages) \intersect OwnRegions = {}
  BY Layout
<1>4. \A i \in 2 .. 8 : Region(0, i) \intersect heap = {}
  <2> TAKE i \in 2 .. 8
  <2>1. i = 2 \/ i = 3 \/ i = 4 \/ i = 5 \/ i = 6 \/ i = 7 \/ i = 8
    OBVIOUS
  <2>2. Region(0, i) \subseteq LowPages \union CodePages \union DataPages \union stack \union special
    BY <2>1, RegionPages, 0 \in Nat DEF LowPages
  <2> HIDE DEF heap, stack, special
  <2> QED BY <1>1, <1>2, <1>3, <2>2
<1>5. \A i \in 2 .. n : i \in 2 .. 8
  OBVIOUS
<1> HIDE DEF heap
<1>6. (UNION {Region(0, i) : i \in 2 .. n}) \intersect heap = {}
  BY <1>4, <1>5
<1> QED BY <1>6 DEF heap

-------------------------------------------------------------------------------
(* What shrinkHeap gives back.                                             *)

(* FreePage only unlocks pages in but, and pushes words for these.         *)
Freed(p, m, but, q) ==
  /\ q \in Allocators(m) /\ WordsBut(q, m, but)
  /\ \A i \in BitmapIndices(m) : q.bitmap[i] => p.bitmap[i]
  /\ \A i \in BitmapIndices(m) : i \notin but => q.bitmap[i] = p.bitmap[i]
  /\ Pool(q) \subseteq Pool(p) \union but

LEMMA FreePageFreed ==
  ASSUME NEW m \in Seq(Descriptors), NEW p, p \in Allocators(m), NEW but, NEW q,
         Freed(p, m, but, q), NEW address \in Nat,
         PageOf(address) \in 0 .. MemoryPages(m) - 1,
         InUse(p, PageOf(address)) => PageOf(address) \in but
  PROVE  Freed(p, m, but, FreePage(q, address))
<1> DEFINE u == PageOf(address)
           r == FreePage(q, address)
<1>1. /\ q \in Allocators(m) /\ WordsBut(q, m, but)
      /\ \A i \in BitmapIndices(m) : q.bitmap[i] => p.bitmap[i]
      /\ \A i \in BitmapIndices(m) : i \notin but => q.bitmap[i] = p.bitmap[i]
      /\ Pool(q) \subseteq Pool(p) \union but
  BY DEF Freed
<1>2. CASE ~InUse(q, u)
  <2>1. r = q
    BY <1>2 DEF FreePage
  <2> HIDE DEF r
  <2>2. Freed(p, m, but, r)
    BY <2>1
  <2> QED BY <2>2 DEF r
<1>3. CASE InUse(q, u)
  <2>1. /\ q.bitmap \in [BitmapIndices(m) -> BOOLEAN] /\ q.stack \in Seq(Nat)
        /\ p.bitmap \in [BitmapIndices(m) -> BOOLEAN]
        /\ q.freeMemory \in Int /\ q.usedMemory \in Int
    BY <1>1 DEF Allocators
  <2>2. u \in BitmapIndices(m) /\ q.bitmap[u]
    BY <1>3, <2>1 DEF InUse
  <2>3. u \in but
    BY <1>1, <2>1, <2>2 DEF InUse
  <2>4. /\ r = [q EXCEPT !.bitmap[u] = FALSE,
                         !.freeMemory = Wrap(@ + 1),
                         !.usedMemory = Wrap(@ - 1),
                         !.stack = Append(@, address)]
    BY <1>3 DEF FreePage
  <2>5. /\ Wrap(q.freeMemory + 1) \in 0 .. CounterModulus - 1
        /\ Wrap(q.usedMemory - 1) \in 0 .. CounterModulus - 1
    <3>1. q.freeMemory + 1 \in Int /\ q.usedMemory - 1 \in Int
      BY <2>1
    <3> QED BY <3>1, WrapType
  <2>6. /\ Append(q.stack, address) \in Seq(Nat)
        /\ Len(q.stack) \in Nat /\ DOMAIN q.stack = 1 .. Len(q.stack)
        /\ Len(Append(q.stack, address)) = Len(q.stack) + 1
        /\ \A k \in 1 .. Len(q.stack) : Append(q.stack, address)[k] = q.stack[k]
        /\ Append(q.stack, address)[Len(q.stack) + 1] = address
    BY <2>1, AppendProperties, LenProperties
  <2>7. /\ r.bitmap = [q.bitmap EXCEPT ![u] = FALSE]
        /\ r.stack = Append(q.stack, address)
        /\ r \in Allocators(m)
    <3> DEFINE bits == [q.bitmap EXCEPT ![u] = FALSE]
               words == Append(q.stack, address)
    <3>1. bits \in [BitmapIndices(m) -> BOOLEAN] /\ words \in Seq(Nat)
      BY <2>1, <2>2, <2>6
    <3>2. r = [q EXCEPT !.bitmap = bits, !.freeMemory = Wrap(@ + 1),
                        !.usedMemory = Wrap(@ - 1), !.stack = words]
      BY <2>4
    <3> HIDE DEF bits, words, r, u
    <3>3. r.bitmap = bits /\ r.stack = words
      BY <1>1, <3>2 DEF Allocators
    <3>4. r \in Allocators(m)
      BY <1>1, <2>5, <3>1, <3>2 DEF Allocators
    <3> QED BY <3>3, <3>4 DEF bits, words
  <2> DEFINE top == Len(q.stack) + 1
  <2>8. /\ DOMAIN r.stack = 1 .. top /\ r.stack[top] = address
        /\ \A k \in 1 .. top : k = top \/ (k \in DOMAIN q.stack /\ r.stack[k] = q.stack[k])
    <3>1. DOMAIN r.stack = 1 .. Len(r.stack)
      BY <2>6, <2>7, LenProperties
    <3> QED BY <2>6, <2>7, <3>1
  <2>9. /\ \A i \in BitmapIndices(m) : i # u => r.bitmap[i] = q.bitmap[i]
        /\ ~r.bitmap[u] /\ DOMAIN r.bitmap = BitmapIndices(m)
    BY <2>1, <2>2, <2>7
  <2>a. r \in Allocators(m)
    BY <2>7
  <2> HIDE DEF r, u, top
  <2>10. WordsBut(r, m, but)
    <3>1. ASSUME NEW k \in DOMAIN r.stack
          PROVE  /\ PageOf(r.stack[k]) \in BitmapIndices(m)
                 /\ PageOf(r.stack[k]) \in 0 .. MemoryPages(m) - 1
      BY <1>1, <2>2, <2>8, <3>1 DEF WordsBut, u
    <3>2. ASSUME NEW k \in DOMAIN r.stack, NEW l \in DOMAIN r.stack,
                 PageOf(r.stack[k]) = PageOf(r.stack[l])
          PROVE  k = l \/ PageOf(r.stack[k]) \in but
      <4>1. k = top \/ l = top => PageOf(r.stack[k]) \in but
        BY <2>3, <2>8, <3>2 DEF u
      <4>2. k # top /\ l # top => k = l \/ PageOf(r.stack[k]) \in but
        BY <1>1, <2>8, <3>2 DEF WordsBut
      <4> QED BY <4>1, <4>2
    <3> QED BY <3>1, <3>2 DEF WordsBut
  <2>11. Pool(r) \subseteq Pool(p) \union but
    <3> SUFFICES ASSUME NEW f \in Pool(r), f \notin but PROVE f \in Pool(p)
      OBVIOUS
    <3>1. PICK k \in Usable(r) : f = PageOf(r.stack[k])
      BY DEF Pool
    <3>2. k \in DOMAIN r.stack /\ ~InUse(r, f)
      BY <3>1 DEF Usable
    <3>3. k # top
      BY <2>3, <2>8, <3>1 DEF u
    <3>4. k \in DOMAIN q.stack /\ f = PageOf(q.stack[k])
      BY <2>8, <3>1, <3>2, <3>3
    <3>5. ~InUse(q, f)
      BY <2>1, <2>3, <2>9, <3>2 DEF InUse
    <3>6. f \in Pool(q)
      BY <3>4, <3>5 DEF Pool, Usable
    <3> QED BY <1>1, <3>6
  <2>12. /\ \A i \in BitmapIndices(m) : r.bitmap[i] => p.bitmap[i]
         /\ \A i \in BitmapIndices(m) : i \notin but => r.bitmap[i] = p.bitmap[i]
    BY <1>1, <2>3, <2>9
  <2>13. Freed(p, m, but, r)
    BY <2>a, <2>10, <2>11, <2>12 DEF Freed
  <2> QED BY <2>13 DEF r
<1> QED BY <1>2, <1>3

(* The pages shrinkHeap releases in a row.                                 *)
IsFreeing(after, size) ==
  after = [n \in 0 .. size |-> IF n = 0 THEN pmm ELSE Released(after[n - 1], n)]

LEMMA FreeingExists ==
  ASSUME NEW size \in Nat
  PROVE  \E after : IsFreeing(after, size)
<1> DEFINE Bad == {m \in Nat : ~\E after : IsFreeing(after, m)}
<1>1. SUFFICES ASSUME Bad # {} PROVE FALSE
  BY DEF Bad
<1>2. PICK m \in Bad : \A l \in Bad : m <= l
  BY <1>1, SmallestExists
<1>3. m \in Nat
  OBVIOUS
<1>4. m # 0
  <2> DEFINE f == [n \in 0 .. 0 |-> pmm]
  <2>1. f = [n \in 0 .. 0 |-> IF n = 0 THEN pmm ELSE Released(f[n - 1], n)]
    OBVIOUS
  <2> HIDE DEF f
  <2>2. IsFreeing(f, 0)
    BY <2>1 DEF IsFreeing
  <2> QED BY <2>2
<1>5. m - 1 \in Nat /\ m - 1 \notin Bad
  BY <1>2, <1>3, <1>4
<1>6. PICK f : IsFreeing(f, m - 1)
  BY <1>5
<1> DEFINE g == [n \in 0 .. m |-> IF n = m THEN Released(f[m - 1], m) ELSE f[n]]
<1>7. \A n \in 0 .. m - 1 : f[n] = IF n = 0 THEN pmm ELSE Released(f[n - 1], n)
  BY <1>6 DEF IsFreeing
<1>8. g = [n \in 0 .. m |-> IF n = 0 THEN pmm ELSE Released(g[n - 1], n)]
  <2>1. \A n \in 0 .. m : n # m => n \in 0 .. m - 1
    BY <1>3
  <2>2. \A n \in 0 .. m : n # 0 => n - 1 \in 0 .. m /\ n - 1 # m
    BY <1>3
  <2>3. \A n \in 0 .. m : g[n] = IF n = 0 THEN pmm ELSE Released(g[n - 1], n)
    BY <1>4, <1>7, <2>1, <2>2
  <2> QED BY <2>3
<1> HIDE DEF g
<1>9. IsFreeing(g, m)
  BY <1>8 DEF IsFreeing
<1> QED BY <1>9

(* What shrinkHeap finds: the frames of its pages are not marked as in     *)
(* use, and the numbers of its tables' frames are words below memory's end.*)
LeavesFrames ==
  \A n \in 1 .. HEAP_STEP :
    /\ vmm[Leaving(n)].frame \in 0 .. MemoryPages(mMap) - 1
    /\ ~InUse(pmm, vmm[Leaving(n)].frame)
    /\ TableNumber(n) \in 0 .. MemoryPages(mMap) - 1

LEMMA ReleasedFreed ==
  ASSUME mMap \in Seq(Descriptors), pmm \in Allocators(mMap), LeavesFrames,
         NEW q, Freed(pmm, mMap, unlocked \union Unlocking, q), NEW n \in 1 .. HEAP_STEP
  PROVE  Freed(pmm, mMap, unlocked \union Unlocking, Released(q, n))
<1> DEFINE but == unlocked \union Unlocking
           number == TableNumber(n)
           frame == vmm[Leaving(n)].frame
           unmapped == IF n \in Emptying THEN FreePage(q, number) ELSE q
           size == MemoryPages(mMap)
<1>1. size \in Nat
  BY MemoryPagesType
<1>2. frame \in 0 .. size - 1 /\ ~InUse(pmm, frame) /\ number \in 0 .. size - 1
  BY DEF LeavesFrames
<1> HIDE DEF number, frame, size
<1>3. number \in Nat /\ PageOf(number) \in 0 .. size - 1
  <2>1. number \in Nat /\ number < size
    BY <1>1, <1>2
  <2>2. PageSize \in Nat /\ PageSize >= 1
    BY SizesAssumption
  <2>3. number < PageSize * size
    <3>1. size <= PageSize * size
      <4>1. PageSize - 1 \in Nat
        BY <2>2
      <4>2. (PageSize - 1) * size \in Nat
        BY <1>1, <4>1
      <4>3. PageSize * size = (PageSize - 1) * size + size
        BY <1>1, <2>2, <4>1
      <4> QED BY <1>1, <4>2, <4>3
    <3>2. PageSize * size \in Nat
      BY <1>1, <2>2
    <3> QED BY <1>1, <2>1, <3>1, <3>2
  <2>4. number \div PageSize < size /\ number \div PageSize \in Nat
    BY <1>1, <2>1, <2>3, DivBelow, DivFacts
  <2> QED BY <1>1, <2>1, <2>4 DEF PageOf
<1>4. n \in Emptying /\ InUse(pmm, PageOf(number)) => PageOf(number) \in Unlocking
  BY DEF Unlocking, number
<1>5. Freed(pmm, mMap, but, unmapped)
  <2>1. CASE n \in Emptying
    <3>1. InUse(pmm, PageOf(number)) => PageOf(number) \in but
      BY <1>4, <2>1
    <3> HIDE DEF but
    <3>2. Freed(pmm, mMap, but, FreePage(q, number))
      BY <1>3, <3>1, FreePageFreed DEF but, size
    <3> QED BY <2>1, <3>2
  <2>2. CASE n \notin Emptying
    BY <2>2
  <2> QED BY <2>1, <2>2
<1> DEFINE address == frame * PageSize
<1>6. address \in Nat /\ PageOf(address) = frame
  <2>1. frame \in Nat /\ PageSize \in Nat
    BY <1>1, <1>2, SizesAssumption
  <2> QED BY <2>1, PageOfAddress
<1>7. Released(q, n) = FreePage(unmapped, address)
  BY DEF Released, number, frame
<1> HIDE DEF unmapped, address, but
<1>8. /\ PageOf(address) \in 0 .. MemoryPages(mMap) - 1
      /\ InUse(pmm, PageOf(address)) => PageOf(address) \in but
  BY <1>2, <1>6 DEF size
<1>9. Freed(pmm, mMap, but, FreePage(unmapped, address))
  BY <1>5, <1>6, <1>8, FreePageFreed
<1> QED BY <1>7, <1>9 DEF but

LEMMA FreeFramesEffect ==
  ASSUME mMap \in Seq(Descriptors), pmm \in Allocators(mMap), WordsBut(pmm, mMap, unlocked),
         LeavesFrames
  PROVE  Freed(pmm, mMap, unlocked \union Unlocking, FreeFrames)
<1> DEFINE after[n \in 0 .. HEAP_STEP] ==
             IF n = 0 THEN pmm ELSE Released(after[n - 1], n)
           but == unlocked \union Unlocking
<1>1. HEAP_STEP \in Nat
  BY KernelAddressSpaceAssumption
<1>2. IsFreeing(after, HEAP_STEP)
  <2>1. \E f : f = [n \in 0 .. HEAP_STEP |->
                      IF n = 0 THEN pmm ELSE Released(f[n - 1], n)]
    BY <1>1, FreeingExists DEF IsFreeing
  <2>2. after = [n \in 0 .. HEAP_STEP |->
                   IF n = 0 THEN pmm ELSE Released(after[n - 1], n)]
    BY <2>1
  <2> HIDE DEF after
  <2> QED BY <2>2 DEF IsFreeing
<1>3. FreeFrames = after[HEAP_STEP]
  BY DEF FreeFrames
<1> HIDE DEF after
<1>4. /\ after[0] = pmm
      /\ \A n \in 0 .. HEAP_STEP : n # 0 => after[n] = Released(after[n - 1], n)
  BY <1>1, <1>2 DEF IsFreeing
<1>5. Freed(pmm, mMap, but, pmm)
  <2>1. WordsBut(pmm, mMap, but)
    BY DEF WordsBut
  <2> HIDE DEF but
  <2> QED BY <2>1 DEF Freed
<1> DEFINE Bad == {n \in 0 .. HEAP_STEP : ~Freed(pmm, mMap, but, after[n])}
<1> HIDE DEF but
<1>6. Bad = {}
  <2>1. SUFFICES ASSUME Bad # {} PROVE FALSE
    OBVIOUS
  <2>2. Bad \in SUBSET Nat
    BY <1>1
  <2>3. PICK n \in Bad : \A l \in Bad : n <= l
    BY <2>1, <2>2, SmallestExists
  <2>4. n \in 0 .. HEAP_STEP /\ ~Freed(pmm, mMap, but, after[n])
    OBVIOUS
  <2>5. n # 0
    BY <1>4, <1>5, <2>4
  <2>6. n - 1 \in 0 .. HEAP_STEP /\ ~(n <= n - 1) /\ n \in 1 .. HEAP_STEP
    BY <1>1, <2>4, <2>5
  <2>7. Freed(pmm, mMap, but, after[n - 1])
    BY <2>3, <2>6
  <2>8. after[n] = Released(after[n - 1], n)
    BY <1>4, <2>4, <2>5
  <2>9. Freed(pmm, mMap, but, Released(after[n - 1], n))
    BY <2>6, <2>7, ReleasedFreed DEF but
  <2> QED BY <2>4, <2>8, <2>9
<1>7. HEAP_STEP \in 0 .. HEAP_STEP
  BY <1>1
<1> QED BY <1>3, <1>6, <1>7 DEF but

-------------------------------------------------------------------------------
(* What the steps do to the tables.                                        *)

(* The entry MapMemory writes.                                             *)
NewEntry(space, page, frame, flags) ==
  [frame |-> frame, flags |-> FlagsOf(space, page) \union flags \union {"Present"}]

Maps(space, new, start, size, frames, flags) ==
  /\ DOMAIN new = DOMAIN space \union Span(start, size)
  /\ \A page \in Span(start, size) :
       new[page] = NewEntry(space, page, frames[page - start], flags)
  /\ \A page \in DOMAIN space :
       page \notin Span(start, size) => new[page] = space[page]

LEMMA MapRangeEffect ==
  ASSUME NEW space, NEW start, NEW size, NEW frames, NEW flags
  PROVE  Maps(space, MapRange(space, start, size, frames, flags), start, size, frames, flags)
<1> DEFINE new == MapRange(space, start, size, frames, flags)
<1>1. DOMAIN new = DOMAIN space \union Span(start, size)
  BY DEF MapRange
<1>2. \A page \in Span(start, size) :
        new[page] = NewEntry(space, page, frames[page - start], flags)
  BY DEF MapRange, NewEntry
<1>3. \A page \in DOMAIN space : page \notin Span(start, size) => new[page] = space[page]
  BY DEF MapRange
<1> HIDE DEF new
<1>4. Maps(space, new, start, size, frames, flags)
  BY <1>1, <1>2, <1>3 DEF Maps
<1> QED BY <1>4 DEF new

(* A mapping that writes right entries keeps all of them right.            *)
LEMMA MapKeepsEntries ==
  ASSUME NEW space, EntriesOK(space), NEW start, NEW size, NEW frames, NEW flags,
         \A page \in Span(start, size) :
           page \in Nat /\ EntryOK(NewEntry(space, page, frames[page - start], flags), page)
  PROVE  EntriesOK(MapRange(space, start, size, frames, flags))
<1> DEFINE new == MapRange(space, start, size, frames, flags)
<1>1. /\ DOMAIN new = DOMAIN space \union Span(start, size)
      /\ \A page \in Span(start, size) :
           new[page] = NewEntry(space, page, frames[page - start], flags)
      /\ \A page \in DOMAIN space :
           page \notin Span(start, size) => new[page] = space[page]
  <2>1. Maps(space, new, start, size, frames, flags)
    BY MapRangeEffect
  <2> HIDE DEF new
  <2> QED BY <2>1 DEF Maps
<1> HIDE DEF new
<1>2. \A page \in DOMAIN new : page \in Nat /\ EntryOK(new[page], page)
  <2> TAKE page \in DOMAIN new
  <2>1. CASE page \in Span(start, size)
    BY <1>1, <2>1
  <2>2. CASE page \notin Span(start, size)
    <3>1. page \in DOMAIN space /\ new[page] = space[page]
      BY <1>1, <2>2
    <3> QED BY <3>1 DEF EntriesOK
  <2> QED BY <2>1, <2>2
<1> QED BY <1>2 DEF EntriesOK, new

LEMMA NewEntryType ==
  ASSUME NEW space, EntriesOK(space), NEW page, NEW frame \in Nat, NEW flags \in SUBSET Flags
  PROVE  /\ NewEntry(space, page, frame, flags) \in Entries
         /\ NewEntry(space, page, frame, flags).frame = frame
         /\ flags \subseteq NewEntry(space, page, frame, flags).flags
<1>1. FlagsOf(space, page) \in SUBSET Flags
  BY DEF FlagsOf, EntriesOK, EntryOK, Entries
<1>2. "Present" \in Flags
  BY DEF Flags
<1> QED BY <1>1, <1>2 DEF NewEntry, Entries

(* Pages of the heap, the stack, the GDT and the IDT may lead anywhere.    *)
LEMMA OwnEntry ==
  ASSUME BootOK, NEW page \in OwnRegions, NEW entry \in Entries
  PROVE  EntryOK(entry, page)
BY Layout DEF EntryOK

(* A mapping to requested frames, on its own pages.                        *)
LEMMA MapsRequested ==
  ASSUME BootOK, NEW space, EntriesOK(space), NEW p, NEW but, FramesOK(p, space, but),
         NEW start \in Nat, NEW size \in Nat, Span(start, size) \subseteq OwnRegions,
         NEW frames, NEW q, TakesAll(p, mMap, but, size, frames, q), NEW flags \in SUBSET Flags
  PROVE  LET new == MapRange(space, start, size, frames, flags)
         IN  EntriesOK(new) /\ FramesOK(q, new, but)
<1> DEFINE new == MapRange(space, start, size, frames, flags)
<1>0. mMap \in Seq(Descriptors)
  BY SizesType
<1>1. /\ DOMAIN new = DOMAIN space \union Span(start, size)
      /\ \A page \in Span(start, size) :
           new[page] = NewEntry(space, page, frames[page - start], flags)
      /\ \A page \in DOMAIN space :
           page \notin Span(start, size) => new[page] = space[page]
  <2>1. Maps(space, new, start, size, frames, flags)
    BY MapRangeEffect
  <2> HIDE DEF new
  <2> QED BY <2>1 DEF Maps
<1>2. /\ p \in Allocators(mMap) /\ WordsBut(p, mMap, but)
      /\ \A i \in BitmapIndices(mMap) :
           i \in Span(0, kernelSizePages) => p.bitmap[i] \/ i \in but
  BY DEF FramesOK
<1>3. /\ q \in Allocators(mMap) /\ WordsBut(q, mMap, but) /\ q.bitmap = p.bitmap /\ Pool(q) \subseteq Pool(p)
      /\ \A i \in 0 .. size - 1 :
           /\ frames[i] \in Pool(p) /\ (frames[i] \notin Pool(q) \/ frames[i] \in but)
           /\ \A j \in 0 .. size - 1 : frames[i] = frames[j] => i = j \/ frames[i] \in but
  BY DEF TakesAll
<1>4. \A f \in Pool(p) : /\ f \in BitmapIndices(mMap) /\ ~p.bitmap[f]
                         /\ f \in Nat /\ f < memorySize
  <2> TAKE f \in Pool(p)
  <2>1. f \in BitmapIndices(mMap) /\ ~p.bitmap[f] /\ f \in 0 .. memorySize - 1
    BY <1>0, <1>2, PoolPagesBut DEF memorySize
  <2> QED BY <2>1, SizesType
<1>5. \A page \in Span(start, size) : page - start \in 0 .. size - 1 /\ page \in Nat
  BY DEF Span
<1>6. \A page \in Span(start, size) : frames[page - start] \in Nat
  BY <1>3, <1>4, <1>5
<1> HIDE DEF new
<1>7. \A page \in Span(start, size) : new[page].frame = frames[page - start]
  BY <1>1 DEF NewEntry
<1>8. EntriesOK(new)
  <2>1. \A page \in Span(start, size) :
          page \in Nat /\ EntryOK(NewEntry(space, page, frames[page - start], flags), page)
    BY <1>5, <1>6, NewEntryType, OwnEntry
  <2> QED BY <2>1, MapKeepsEntries DEF new
<1>9. ASSUME NEW page \in OwnRegions \intersect DOMAIN new
      PROVE  LET frame == new[page].frame
             IN  /\ frame \in BitmapIndices(mMap) /\ frame < memorySize
                 /\ ~q.bitmap[frame] /\ (frame \notin Pool(q) \/ frame \in but)
                 /\ \A other \in OwnRegions \intersect DOMAIN new :
                      new[other].frame = frame => other = page \/ frame \in but
  <2>1. \A old \in OwnRegions \intersect DOMAIN space :
          LET frame == space[old].frame
          IN  /\ frame \in BitmapIndices(mMap) /\ frame < memorySize
              /\ ~p.bitmap[frame] /\ (frame \notin Pool(p) \/ frame \in but)
              /\ \A other \in OwnRegions \intersect DOMAIN space :
                   space[other].frame = frame => other = old \/ frame \in but
    BY DEF FramesOK
  <2>2. \A old \in OwnRegions \intersect DOMAIN new : old \notin Span(start, size) =>
          /\ old \in OwnRegions \intersect DOMAIN space /\ new[old].frame = space[old].frame
          /\ new[old].frame \notin Pool(p) \/ new[old].frame \in but
    BY <1>1, <2>1
  <2>3. \A a \in Span(start, size), b \in Span(start, size) :
          new[a].frame = new[b].frame => a = b \/ new[a].frame \in but
    <3> SUFFICES ASSUME NEW a \in Span(start, size), NEW b \in Span(start, size),
                        new[a].frame = new[b].frame
                 PROVE  a = b \/ new[a].frame \in but
      OBVIOUS
    <3>1. frames[a - start] = frames[b - start]
      BY <1>7
    <3>2. a - start = b - start \/ new[a].frame \in but
      BY <1>3, <1>5, <1>7, <3>1
    <3> QED BY <1>5, <3>2
  <2>4. CASE page \in Span(start, size)
    <3>1. /\ new[page].frame \in Pool(p)
          /\ new[page].frame \notin Pool(q) \/ new[page].frame \in but
      BY <1>3, <1>5, <1>7, <2>4
    <3>2. \A other \in OwnRegions \intersect DOMAIN new :
            new[other].frame = new[page].frame => other = page \/ new[page].frame \in but
      BY <2>2, <2>3, <2>4, <3>1
    <3> QED BY <1>3, <1>4, <3>1, <3>2
  <2>5. CASE page \notin Span(start, size)
    <3>1. /\ page \in OwnRegions \intersect DOMAIN space
          /\ new[page].frame = space[page].frame
          /\ new[page].frame \notin Pool(p) \/ new[page].frame \in but
      BY <2>2, <2>5
    <3>2. \A other \in OwnRegions \intersect DOMAIN new :
            new[other].frame = new[page].frame => other = page \/ new[page].frame \in but
      <4> SUFFICES ASSUME NEW other \in OwnRegions \intersect DOMAIN new,
                          new[other].frame = new[page].frame, new[page].frame \notin but
                   PROVE  other = page
        OBVIOUS
      <4>1. other \notin Span(start, size)
        <5>1. other \in Span(start, size) => new[other].frame \in Pool(p)
          BY <1>3, <1>5, <1>7
        <5> QED BY <3>1, <5>1
      <4>2. other \in OwnRegions \intersect DOMAIN space /\ space[other].frame = space[page].frame
        BY <2>2, <3>1, <4>1
      <4> QED BY <2>1, <3>1, <4>2
    <3> QED BY <1>3, <2>1, <3>1, <3>2
  <2> QED BY <2>4, <2>5
<1>10. FramesOK(q, new, but)
  BY <1>2, <1>3, <1>9 DEF FramesOK
<1> QED BY <1>8, <1>10 DEF new

(* The tables of the heap are none of those frames.                        *)
LEMMA MapsApartFromTables ==
  ASSUME NEW p, NEW space, NEW h, NEW held, NEW but, TablesOK(p, space, h, held, but),
         NEW start \in Nat, NEW size \in Nat,
         NEW frames, NEW q, TakesAll(p, mMap, but, size, frames, q), NEW flags
  PROVE  TablesOK(q, MapRange(space, start, size, frames, flags), h, held, but)
<1> DEFINE new == MapRange(space, start, size, frames, flags)
<1>1. /\ DOMAIN new = DOMAIN space \union Span(start, size)
      /\ \A page \in Span(start, size) :
           new[page] = NewEntry(space, page, frames[page - start], flags)
      /\ \A page \in DOMAIN space :
           page \notin Span(start, size) => new[page] = space[page]
  <2>1. Maps(space, new, start, size, frames, flags)
    BY MapRangeEffect
  <2> HIDE DEF new
  <2> QED BY <2>1 DEF Maps
<1> HIDE DEF new
<1>2. /\ q.bitmap = p.bitmap /\ Pool(q) \subseteq Pool(p)
      /\ \A i \in 0 .. size - 1 : frames[i] \in Pool(p)
  BY DEF TakesAll
<1>3. \A page \in Span(start, size) : page - start \in 0 .. size - 1
  BY DEF Span
<1>4. \A page \in Span(start, size) : new[page].frame \in Pool(p)
  BY <1>1, <1>2, <1>3 DEF NewEntry
<1>5. ASSUME NEW table \in DOMAIN held, NEW page \in OwnRegions \intersect DOMAIN new
      PROVE  new[page].frame # held[table]
  <2>1. CASE page \in Span(start, size)
    BY <1>4, <2>1 DEF TablesOK
  <2>2. CASE page \notin Span(start, size)
    BY <1>1, <2>2 DEF TablesOK
  <2> QED BY <2>1, <2>2
<1>6. TablesOK(q, new, h, held, but)
  BY <1>2, <1>5 DEF TablesOK
<1> QED BY <1>6 DEF new

(* Whatever leaves the pages of those regions alone, or removes some.      *)
LEMMA FramesStay ==
  ASSUME NEW p, NEW space, NEW but, FramesOK(p, space, but), NEW new,
         \A page \in OwnRegions \intersect DOMAIN new :
           page \in DOMAIN space /\ new[page] = space[page]
  PROVE  FramesOK(p, new, but)
BY DEF FramesOK

LEMMA TablesStay ==
  ASSUME NEW p, NEW space, NEW h, NEW held, NEW but, TablesOK(p, space, h, held, but), NEW new,
         \A page \in OwnRegions \intersect DOMAIN new :
           page \in DOMAIN space /\ new[page] = space[page]
  PROVE  TablesOK(p, new, h, held, but)
BY DEF TablesOK

(* A mapping to given frames, outside of those regions.                    *)
LEMMA MapsGiven ==
  ASSUME BootOK, NEW space, EntriesOK(space), NEW p, NEW but, FramesOK(p, space, but),
         NEW h, NEW held, TablesOK(p, space, h, held, but),
         NEW start \in Nat, NEW size \in Nat, Span(start, size) \intersect OwnRegions = {},
         NEW frame \in Nat, NEW flags,
         \A page \in Span(start, size) :
           EntryOK(NewEntry(space, page, frame + (page - start), flags), page)
  PROVE  LET new == MapRange(space, start, size, Linear(frame, size), flags)
         IN  EntriesOK(new) /\ FramesOK(p, new, but) /\ TablesOK(p, new, h, held, but)
<1> DEFINE new == MapRange(space, start, size, Linear(frame, size), flags)
<1>1. \A page \in Span(start, size) :
        page \in Nat /\ Linear(frame, size)[page - start] = frame + (page - start)
  BY DEF Span, Linear
<1>2. EntriesOK(new)
  BY <1>1, MapKeepsEntries
<1>3. \A page \in OwnRegions \intersect DOMAIN new :
        page \in DOMAIN space /\ new[page] = space[page]
  <2>1. Maps(space, new, start, size, Linear(frame, size), flags)
    BY MapRangeEffect
  <2> HIDE DEF new
  <2> QED BY <2>1 DEF Maps
<1> HIDE DEF new
<1>4. FramesOK(p, new, but) /\ TablesOK(p, new, h, held, but)
  BY <1>3, FramesStay, TablesStay
<1> QED BY <1>2, <1>4 DEF new

-------------------------------------------------------------------------------
(* The order of the statements.                                            *)

LEMMA StatementsDiffer ==
  /\ Len(BootSteps) = 10
  /\ \A i, j \in 1 .. 10 : BootSteps[i] = BootSteps[j] => i = j
BY DEF BootSteps

LEMMA RunAt ==
  ASSUME step \in 0 .. 10, NEW k \in 1 .. 10, Run(BootSteps[k])
  PROVE  step = k - 1 /\ step' = k /\ boot' = boot
<1>1. step + 1 \in 1 .. 10 /\ BootSteps[step + 1] = BootSteps[k] /\ step' = step + 1 /\ boot' = boot
  BY StatementsDiffer DEF Run, boot
<1>2. step + 1 = k
  BY <1>1, StatementsDiffer
<1> QED BY <1>1, <1>2

LEMMA DoneAt ==
  ASSUME step \in 0 .. 10, NEW k \in 1 .. 10
  PROVE  Done(BootSteps[k]) <=> step >= k
<1>1. \A j \in 1 .. step : j \in 1 .. 10
  OBVIOUS
<1>2. ASSUME Done(BootSteps[k]) PROVE step >= k
  <2>1. PICK j \in 1 .. step : BootSteps[j] = BootSteps[k]
    BY <1>2 DEF Done
  <2>2. j = k
    BY <1>1, <2>1, StatementsDiffer
  <2> QED BY <2>1, <2>2
<1>3. step >= k => k \in 1 .. step
  OBVIOUS
<1> QED BY <1>2, <1>3 DEF Done

LEMMA Statements ==
  /\ BootSteps[1] = "InitHeap" /\ BootSteps[2] = "AddHeapMapping"
  /\ BootSteps[3] = "MapKernelCode" /\ BootSteps[4] = "MapKernelData"
  /\ BootSteps[5] = "IdentityMapPhysicalMemory" /\ BootSteps[6] = "MapFramebuffer"
  /\ BootSteps[7] = "MapStack" /\ BootSteps[8] = "LoadPLM4"
  /\ BootSteps[9] = "SetupGDT" /\ BootSteps[10] = "SetupIDT"
BY DEF BootSteps

(* What was fixed at boot stays.                                           *)
LEMMA StateNext ==
  ASSUME BootOK, boot' = boot,
         State(step', pmm', old_vmm', vmm', mappings', heapSize', heapTables', unlocked')
  PROVE  Inv'
<1>1. mMap' = mMap /\ image' = image /\ framebuffer' = framebuffer
  BY DEF boot
<1>2. BootOK'
  BY <1>1 DEF BootOK
<1>3. /\ kernelSizePages' = kernelSizePages /\ kernelROSizePages' = kernelROSizePages
      /\ memorySize' = memorySize /\ LoadedPages' = LoadedPages
      /\ DescribedPages' = DescribedPages
  BY <1>1 DEF kernelSizePages, kernelROSizePages, memorySize, LoadedPages, DescribedPages
<1>4. /\ CodePages' = CodePages /\ DataPages' = DataPages /\ LowPages' = LowPages
  BY <1>1, <1>3 DEF CodePages, DataPages, LowPages, FramebufferPages
<1>5. Planned(heapSize)' = Planned(heapSize')
  BY <1>1, <1>3 DEF Planned
<1>6. Regions(heapSize, InTables(step))' = Regions(heapSize', InTables(step'))
  BY <1>5 DEF Regions, Region, InTables
<1>7. EntriesOK(vmm)'
  BY <1>4 DEF State, EntriesOK, EntryOK
<1>8. FramesOK(pmm, vmm, unlocked)' /\ TablesOK(pmm, vmm, heapSize, heapTables, unlocked)'
  BY <1>1, <1>3 DEF State, FramesOK, TablesOK
<1>9. OldOK(old_vmm, vmm, step)'
  BY <1>1, <1>3 DEF State, OldOK
<1>10. ListOK(mappings, heapSize, InList(step))'
  BY <1>5 DEF State, ListOK, InList
<1> QED BY <1>2, <1>6, <1>7, <1>8, <1>9, <1>10 DEF Inv, State, HeapSizeOK

-------------------------------------------------------------------------------
(* Parts of the invariant that most steps keep.                            *)

LEMMA OldStays ==
  ASSUME NEW old, NEW space, NEW s \in Nat, OldOK(old, space, s),
         NEW new, NEW t \in Nat, s <= t,
         \A page \in Span(HEAP_START, INIT_HEAP_SIZE) :
           page \in DOMAIN space => page \in DOMAIN new /\ new[page] = space[page]
  PROVE  OldOK(old, new, t)
BY DEF OldOK

LEMMA ListGrows ==
  ASSUME BootOK, NEW h \in Nat, NEW n \in 0 .. 7, NEW list, ListOK(list, h, n)
  PROVE  ListOK(Append(list, Planned(h)[n + 1]), h, n + 1)
<1> DEFINE new == Append(list, Planned(h)[n + 1])
<1>1. Planned(h)[n + 1] \in Mappings
  <2>1. /\ memorySize \in Nat /\ kernelROSizePages \in Nat /\ kernelSizePages \in Nat
        /\ kernelSizePages - kernelROSizePages \in Nat
        /\ framebuffer.page \in Nat /\ framebuffer.BufferSize \div PageSize \in Nat
    BY SizesType
  <2>2. /\ {KERNEL_IMAGE_START, HEAP_START, STACK_START,
            GDT_VIRTUAL_MEMORY_POS, IDT_VIRTUAL_MEMORY_POS} \subseteq Nat
        /\ STACK_SIZE \in Nat
    BY LayoutAssumption
  <2>3. \A i \in 1 .. 8 : Planned(h)[i] \in Mappings
    <3> TAKE i \in 1 .. 8
    <3>1. /\ Planned(h)[1] \in Mappings /\ Planned(h)[2] \in Mappings
          /\ Planned(h)[3] \in Mappings /\ Planned(h)[4] \in Mappings
      BY <2>1, <2>2 DEF Planned, MappingOf, Mappings
    <3>2. /\ Planned(h)[5] \in Mappings /\ Planned(h)[6] \in Mappings
          /\ Planned(h)[7] \in Mappings /\ Planned(h)[8] \in Mappings
      BY <2>1, <2>2 DEF Planned, MappingOf, Mappings
    <3>3. i = 1 \/ i = 2 \/ i = 3 \/ i = 4 \/ i = 5 \/ i = 6 \/ i = 7 \/ i = 8
      OBVIOUS
    <3> QED BY <3>1, <3>2, <3>3
  <2>4. n + 1 \in 1 .. 8
    OBVIOUS
  <2> QED BY <2>3, <2>4
<1>2. list \in Seq(Mappings) /\ Len(list) = n
  BY DEF ListOK
<1>3. /\ new \in Seq(Mappings) /\ Len(new) = n + 1
      /\ \A i \in 1 .. n : new[i] = list[i]
      /\ new[n + 1] = Planned(h)[n + 1]
  BY <1>1, <1>2, AppendProperties
<1> HIDE DEF new
<1>4. \A i \in 1 .. n + 1 : i \in 1 .. n \/ i = n + 1
  OBVIOUS
<1>5. \A i \in 1 .. n + 1 : new[i] = Planned(h)[i]
  BY <1>3, <1>4 DEF ListOK
<1>6. ListOK(new, h, n + 1)
  BY <1>3, <1>5 DEF ListOK
<1> QED BY <1>6 DEF new

(* The heap's Mapping is the first of the list.                            *)
LEMMA HeapMappingIsFirst ==
  ASSUME NEW n \in 1 .. 8, heapSize \in Nat \ {0}, ListOK(mappings, heapSize, n)
  PROVE  /\ HeapMapping = 1 /\ mappings[1] = MappingOf(HEAP_START, heapSize, "ProcessData")
         /\ DOMAIN mappings = 1 .. n
<1>1. DOMAIN mappings = 1 .. n /\ 1 \in DOMAIN mappings
  BY LenProperties DEF ListOK
<1>2. mappings[1] = MappingOf(HEAP_START, heapSize, "ProcessData")
  BY DEF ListOK, Planned
<1>3. Contains(mappings[1], HEAP_START)
  BY <1>2, LayoutAssumption DEF Contains, Span, MappingOf
<1>4. HeapMapping = CHOOSE i \in DOMAIN mappings :
        /\ Contains(mappings[i], HEAP_START)
        /\ \A j \in DOMAIN mappings : Contains(mappings[j], HEAP_START) => i <= j
  BY DEF HeapMapping, mappingForAddressIndex
<1>5. \A j \in DOMAIN mappings : 1 <= j
  BY <1>1
<1>6. \E i \in DOMAIN mappings :
        /\ Contains(mappings[i], HEAP_START)
        /\ \A j \in DOMAIN mappings : Contains(mappings[j], HEAP_START) => i <= j
  BY <1>1, <1>3, <1>5
<1>7. HeapMapping \in DOMAIN mappings /\ HeapMapping <= 1
  BY <1>1, <1>3, <1>4, <1>6
<1>8. HeapMapping = 1
  BY <1>1, <1>5, <1>7
<1> QED BY <1>1, <1>2, <1>8

(* When the heap changes its size, so does the first Mapping only.         *)
LEMMA ListResized ==
  ASSUME NEW h \in Nat, NEW k \in Nat, NEW n \in 1 .. 8, NEW list, ListOK(list, h, n),
         NEW new, new = [list EXCEPT ![1] = MappingOf(HEAP_START, k, "ProcessData")]
  PROVE  ListOK(new, k, n)
<1>1. list \in Seq(Mappings) /\ Len(list) = n /\ DOMAIN list = 1 .. n
  BY LenProperties DEF ListOK
<1>2. MappingOf(HEAP_START, k, "ProcessData") \in Mappings
  BY LayoutAssumption DEF MappingOf, Mappings
<1>3. new \in Seq(Mappings) /\ Len(new) = n
  BY <1>1, <1>2, ExceptSeq
<1>4. \A i \in 2 .. 8 : Planned(k)[i] = Planned(h)[i]
  BY DEF Planned
<1>5. Planned(k)[1] = MappingOf(HEAP_START, k, "ProcessData")
  BY DEF Planned
<1>6. \A i \in 1 .. n : i = 1 \/ (i \in 2 .. 8 /\ i # 1)
  OBVIOUS
<1>7. \A i \in 1 .. n : list[i] = Planned(h)[i]
  BY DEF ListOK
<1>8. \A i \in 1 .. n : new[i] = Planned(k)[i]
  BY <1>1, <1>4, <1>5, <1>6, <1>7
<1> QED BY <1>3, <1>8 DEF ListOK

-------------------------------------------------------------------------------
(* Every step keeps the invariant.                                         *)

LEMMA HeapSizeFacts ==
  /\ INIT_HEAP_SIZE \in Nat /\ INIT_HEAP_SIZE > 0 /\ HEAP_STEP \in Nat /\ HEAP_STEP > 0
  /\ MaxHeapSize \in Nat /\ INIT_HEAP_SIZE <= MaxHeapSize /\ INIT_HEAP_SIZE <= 2 * HEAP_STEP
  /\ HEAP_START \in Nat /\ STACK_START \in Nat /\ STACK_SIZE \in Nat
  /\ GDT_VIRTUAL_MEMORY_POS \in Nat /\ IDT_VIRTUAL_MEMORY_POS \in Nat
  /\ KERNEL_IMAGE_START \in Nat
BY KernelAddressSpaceAssumption, LayoutAssumption

LEMMA HeapInRegions ==
  ASSUME NEW a \in Nat, NEW n \in Nat, a + n <= MaxHeapSize
  PROVE  Span(HEAP_START + a, n) \subseteq OwnRegions
BY HeapSizeFacts DEF OwnRegions, Span

(* The heap is mapped, and the tables its pages needed are there.          *)
LEMMA HeapMaps ==
  ASSUME BootOK, NEW space, EntriesOK(space), NEW p, NEW but, FramesOK(p, space, but),
         NEW h, NEW held, TablesOK(p, space, h, held, but),
         NEW start \in Nat, NEW size \in Nat, Span(start, size) \subseteq OwnRegions,
         NEW r, HeapTakes(p, mMap, but, start, size, held, r),
         \A table \in DOMAIN r.tables : r.tables[table] \notin but,
         NEW k, Span(HEAP_START, k) \subseteq Span(HEAP_START, h) \union Span(start, size),
         NEW flags \in SUBSET Flags
  PROVE  LET new == MapRange(space, start, size, r.frames, flags)
         IN  /\ EntriesOK(new) /\ FramesOK(r.pmm, new, but)
             /\ TablesOK(r.pmm, new, k, r.tables, but)
<1> DEFINE frames == r.frames
           q == r.pmm
           more == r.tables
           new == MapRange(space, start, size, frames, flags)
<1>1. /\ TakesAll(p, mMap, but, size, frames, q)
      /\ DOMAIN held \subseteq DOMAIN more
      /\ \A table \in DOMAIN held : more[table] = held[table]
      /\ \A page \in Span(start, size) : TableOf(page) \in DOMAIN more
      /\ \A table \in DOMAIN more \ DOMAIN held :
           /\ more[table] \in Pool(p)
           /\ more[table] \notin Pool(q) \/ more[table] \in but
           /\ \A i \in 0 .. size - 1 : frames[i] # more[table] \/ more[table] \in but
      /\ \A table \in DOMAIN more : more[table] \notin but
  BY DEF HeapTakes
<1>2. /\ DOMAIN new = DOMAIN space \union Span(start, size)
      /\ \A page \in Span(start, size) :
           new[page] = NewEntry(space, page, frames[page - start], flags)
      /\ \A page \in DOMAIN space :
           page \notin Span(start, size) => new[page] = space[page]
  <2>1. Maps(space, new, start, size, frames, flags)
    BY MapRangeEffect
  <2> HIDE DEF new
  <2> QED BY <2>1 DEF Maps
<1>3. /\ EntriesOK(new) /\ FramesOK(q, new, but) /\ TablesOK(q, new, h, held, but)
  <2> HIDE DEF frames, q
  <2> QED BY <1>1, MapsRequested, MapsApartFromTables
<1> HIDE DEF frames, q, more, new
<1>4. q.bitmap = p.bitmap
  BY <1>1 DEF TakesAll
<1>5. ASSUME NEW table \in DOMAIN more \ DOMAIN held
      PROVE  LET frame == more[table]
             IN  /\ frame \in BitmapIndices(mMap) /\ frame \in 0 .. memorySize - 1
                 /\ ~q.bitmap[frame] /\ frame \notin Pool(q) /\ frame \notin but
                 /\ \A page \in OwnRegions \intersect DOMAIN new : new[page].frame # frame
  <2> DEFINE frame == more[table]
  <2>1. /\ frame \in Pool(p) /\ frame \notin Pool(q) /\ frame \notin but
        /\ \A i \in 0 .. size - 1 : frames[i] # frame
    BY <1>1
  <2> HIDE DEF frame
  <2>2. frame \in BitmapIndices(mMap) /\ ~p.bitmap[frame] /\ frame \in 0 .. memorySize - 1
    BY <2>1, SizesType, PoolPagesBut DEF FramesOK, memorySize
  <2>3. ASSUME NEW page \in OwnRegions \intersect DOMAIN new
        PROVE  new[page].frame # frame
    <3>1. CASE page \in Span(start, size)
      <4>1. page - start \in 0 .. size - 1
        BY <3>1 DEF Span
      <4> QED BY <1>2, <2>1, <3>1, <4>1 DEF NewEntry
    <3>2. CASE page \notin Span(start, size)
      <4>1. page \in OwnRegions \intersect DOMAIN space /\ new[page] = space[page]
        BY <1>2, <3>2
      <4> QED BY <2>1, <4>1 DEF FramesOK
    <3> QED BY <3>1, <3>2
  <2> QED BY <1>4, <2>1, <2>2, <2>3 DEF frame
<1>6. \A page \in Span(HEAP_START, k) : TableOf(page) \in DOMAIN more
  BY <1>1 DEF TablesOK
<1>7. TablesOK(q, new, k, more, but)
  BY <1>1, <1>3, <1>5, <1>6 DEF TablesOK
<1> QED BY <1>3, <1>7 DEF new, q, more, frames

LEMMA InitHeapKeeps ==
  ASSUME Inv, InitHeap
  PROVE  Inv'
<1> DEFINE r == RequestedForHeap(HEAP_START, INIT_HEAP_SIZE)
<1>1. BootOK /\ State(step, pmm, old_vmm, vmm, mappings, heapSize, heapTables, unlocked)
  BY DEF Inv
<1>2. step = 0 /\ step' = 1 /\ boot' = boot
  <2>1. step \in 0 .. 10
    BY <1>1 DEF State
  <2>2. Run(BootSteps[1])
    BY Statements DEF InitHeap
  <2> QED BY <2>1, <2>2, RunAt
<1>3. /\ CanRequestForHeap(HEAP_START, INIT_HEAP_SIZE) /\ pmm' = r.pmm
      /\ vmm' = MapRange(vmm, HEAP_START, INIT_HEAP_SIZE, r.frames, HeapFlags)
      /\ old_vmm' = MapRange(old_vmm, HEAP_START, INIT_HEAP_SIZE, r.frames, HeapFlags)
      /\ heapSize' = INIT_HEAP_SIZE /\ mappings' = mappings
      /\ heapTables' = r.tables /\ unlocked' = unlocked
  BY DEF InitHeap
<1>4. FramesOK(pmm, vmm, unlocked) /\ TablesOK(pmm, vmm, heapSize, heapTables, unlocked)
      /\ EntriesOK(vmm) /\ DOMAIN vmm = Regions(heapSize, 0)
      /\ OldOK(old_vmm, vmm, 0) /\ ListOK(mappings, heapSize, 0)
  BY <1>1, <1>2 DEF State, InTables, InList
<1>5. /\ HeapTakes(pmm, mMap, unlocked, HEAP_START, INIT_HEAP_SIZE, heapTables, r)
      /\ \A table \in DOMAIN r.tables : r.tables[table] \notin unlocked
  BY <1>1, <1>3, <1>4, RequestedForHeapEffect, SizesType, HeapSizeFacts
     DEF FramesOK, CanRequestForHeap
<1> HIDE DEF r
<1>6. HeapFlags \in SUBSET Flags
  BY DEF HeapFlags, Flags
<1>7. Span(HEAP_START, INIT_HEAP_SIZE) \subseteq OwnRegions
  <2>1. Span(HEAP_START + 0, INIT_HEAP_SIZE) \subseteq OwnRegions
    BY HeapInRegions, HeapSizeFacts, 0 \in Nat, 0 + INIT_HEAP_SIZE = INIT_HEAP_SIZE
  <2> QED BY <2>1, HeapSizeFacts, HEAP_START + 0 = HEAP_START
<1>8. /\ EntriesOK(vmm') /\ FramesOK(pmm', vmm', unlocked)
      /\ TablesOK(pmm', vmm', heapSize', heapTables', unlocked)
  <2>1. INIT_HEAP_SIZE \in Nat /\ HEAP_START \in Nat
    BY HeapSizeFacts
  <2>2. heapSize = 0 \/ heapSize \in Nat
    BY <1>1 DEF State, HeapSizeOK
  <2>3. Span(HEAP_START, heapSize') \subseteq
          Span(HEAP_START, heapSize) \union Span(HEAP_START, INIT_HEAP_SIZE)
    BY <1>3
  <2> QED BY <1>1, <1>3, <1>4, <1>5, <1>6, <1>7, <2>1, <2>3, HeapMaps
<1>9. Maps(vmm, vmm', HEAP_START, INIT_HEAP_SIZE, r.frames, HeapFlags)
      /\ Maps(old_vmm, old_vmm', HEAP_START, INIT_HEAP_SIZE, r.frames, HeapFlags)
  BY <1>3, MapRangeEffect
<1>10. DOMAIN vmm' = Regions(heapSize', InTables(step'))
  <2>1. Regions(heapSize, 0) = {}
    BY DEF Regions
  <2>2. Regions(INIT_HEAP_SIZE, 1) = Span(HEAP_START, INIT_HEAP_SIZE)
    <3>1. 1 .. 1 = {1}
      OBVIOUS
    <3>2. Regions(INIT_HEAP_SIZE, 1) = Region(INIT_HEAP_SIZE, 1)
      BY <3>1 DEF Regions
    <3> QED BY <1>1, <3>2, RegionPages, HeapSizeFacts
  <2> QED BY <1>2, <1>3, <1>4, <1>9, <2>1, <2>2 DEF InTables, Maps
<1>11. OldOK(old_vmm', vmm', 1)
  <2> SUFFICES ASSUME NEW page \in DOMAIN old_vmm'
               PROVE  /\ page \in Nat /\ old_vmm'[page] \in Entries
                      /\ \/ /\ \/ page \in DescribedPages
                               \/ page \in Span(framebuffer.page,
                                                (framebuffer.BufferSize + PageSize - 1) \div PageSize)
                            /\ old_vmm'[page].frame = page
                         \/ page \in Span(KERNEL_IMAGE_START, LoadedPages)
                            /\ old_vmm'[page].frame = page - KERNEL_IMAGE_START
                         \/ /\ page \in Span(HEAP_START, INIT_HEAP_SIZE)
                            /\ page \in DOMAIN vmm' /\ old_vmm'[page].frame = vmm'[page].frame
    BY DEF OldOK
  <2>1. CASE page \in Span(HEAP_START, INIT_HEAP_SIZE)
    <3>1. /\ page \in DOMAIN vmm' /\ page \in Nat
          /\ vmm'[page] = NewEntry(vmm, page, r.frames[page - HEAP_START], HeapFlags)
          /\ old_vmm'[page] = NewEntry(old_vmm, page, r.frames[page - HEAP_START], HeapFlags)
      BY <1>9, <2>1, HeapSizeFacts DEF Maps, Span
    <3>2. old_vmm'[page].frame = vmm'[page].frame
      BY <3>1 DEF NewEntry
    <3>3. vmm'[page] \in Entries
      BY <1>8, <3>1 DEF EntriesOK, EntryOK
    <3>4. FlagsOf(old_vmm, page) \in SUBSET Flags
      BY <1>4 DEF FlagsOf, OldOK, Entries
    <3>5. old_vmm'[page] \in Entries
      BY <1>6, <3>1, <3>3, <3>4 DEF NewEntry, Entries, Flags
    <3> QED BY <2>1, <3>1, <3>2, <3>5
  <2>2. CASE page \notin Span(HEAP_START, INIT_HEAP_SIZE)
    <3>1. page \in DOMAIN old_vmm /\ old_vmm'[page] = old_vmm[page]
      BY <1>9, <2>2 DEF Maps
    <3> QED BY <1>4, <3>1 DEF OldOK
  <2> QED BY <2>1, <2>2
<1>12. ListOK(mappings', heapSize', InList(step'))
  BY <1>2, <1>3, <1>4 DEF ListOK, InList
<1>13. HeapSizeOK(heapSize', step')
  <2>1. INIT_HEAP_SIZE = INIT_HEAP_SIZE + 0 * HEAP_STEP
    BY HeapSizeFacts
  <2> QED BY <1>2, <1>3, <2>1, HeapSizeFacts DEF HeapSizeOK
<1>14. State(step', pmm', old_vmm', vmm', mappings', heapSize', heapTables', unlocked')
  <2>1. FramesOK(pmm', vmm', unlocked') /\ TablesOK(pmm', vmm', heapSize', heapTables', unlocked')
    BY <1>3, <1>8
  <2>2. step' \in 0 .. 10 /\ EntriesOK(vmm')
    BY <1>2, <1>8
  <2> QED BY <1>2, <1>10, <1>11, <1>12, <1>13, <2>1, <2>2 DEF State
<1> QED BY <1>1, <1>2, <1>14, StateNext

LEMMA AddHeapMappingKeeps ==
  ASSUME Inv, AddHeapMapping
  PROVE  Inv'
<1>1. BootOK /\ State(step, pmm, old_vmm, vmm, mappings, heapSize, heapTables, unlocked)
  BY DEF Inv
<1>2. step = 1 /\ step' = 2 /\ boot' = boot
  <2>1. step \in 0 .. 10
    BY <1>1 DEF State
  <2>2. Run(BootSteps[2])
    BY Statements DEF AddHeapMapping
  <2> QED BY <2>1, <2>2, RunAt
<1>3. /\ pmm' = pmm /\ old_vmm' = old_vmm /\ vmm' = vmm /\ heapSize' = heapSize
      /\ heapTables' = heapTables /\ unlocked' = unlocked
      /\ mappings' = Append(mappings, MappingOf(HEAP_START, INIT_HEAP_SIZE, "ProcessData"))
  BY DEF AddHeapMapping
<1>4. heapSize = INIT_HEAP_SIZE /\ heapSize \in Nat /\ ListOK(mappings, heapSize, 0)
      /\ HeapSizeOK(heapSize, 1)
  BY <1>1, <1>2 DEF State, HeapSizeOK, InList
<1>5. Planned(heapSize)[0 + 1] = MappingOf(HEAP_START, INIT_HEAP_SIZE, "ProcessData")
  BY <1>4 DEF Planned
<1>6. ListOK(mappings', heapSize, 0 + 1)
  BY <1>1, <1>3, <1>4, <1>5, ListGrows, 0 \in 0 .. 7
<1>7. HeapSizeOK(heapSize, 2) /\ OldOK(old_vmm, vmm, 2)
  BY <1>1, <1>2, <1>4 DEF HeapSizeOK, State, OldOK
<1>8. State(step', pmm', old_vmm', vmm', mappings', heapSize', heapTables', unlocked')
  BY <1>1, <1>2, <1>3, <1>6, <1>7 DEF State, InTables, InList
<1> QED BY <1>1, <1>2, <1>8, StateNext

(* A statement that maps the next Mapping of the plan.                     *)
LEMMA MappedNext ==
  ASSUME Inv, boot' = boot, step \in 2 .. 9, step' = step + 1,
         NEW n \in 1 .. 7, InTables(step) = n, InList(step) = n,
         InTables(step') = n + 1, InList(step') = n + 1,
         heapSize' = heapSize, old_vmm' = old_vmm,
         heapTables' = heapTables, unlocked' = unlocked,
         NEW mapping, mapping = Planned(heapSize)[n + 1], mappings' = Append(mappings, mapping),
         NEW frames, NEW flags,
         vmm' = MapRange(vmm, mapping.start, mapping.size, frames, flags),
         EntriesOK(vmm'), FramesOK(pmm', vmm', unlocked),
         TablesOK(pmm', vmm', heapSize, heapTables, unlocked)
  PROVE  Inv'
<1>1. BootOK /\ State(step, pmm, old_vmm, vmm, mappings, heapSize, heapTables, unlocked)
  BY DEF Inv
<1>2. /\ HeapSizeOK(heapSize, step) /\ heapSize \in Nat /\ DOMAIN vmm = Regions(heapSize, n)
      /\ OldOK(old_vmm, vmm, step) /\ ListOK(mappings, heapSize, n)
  BY <1>1 DEF State, HeapSizeOK
<1>3. HeapSizeOK(heapSize, step')
  BY <1>2 DEF HeapSizeOK
<1>4. Maps(vmm, vmm', mapping.start, mapping.size, frames, flags)
  BY MapRangeEffect
<1>5. Span(mapping.start, mapping.size) = Region(heapSize, n + 1)
  BY DEF Region
<1>6. DOMAIN vmm' = Regions(heapSize', InTables(step'))
  <2>1. n \in Nat
    OBVIOUS
  <2>2. Regions(heapSize, n + 1) = Regions(heapSize, n) \union Region(heapSize, n + 1)
    BY <2>1, RegionsNext
  <2> QED BY <1>2, <1>4, <1>5, <2>2 DEF Maps
<1>7. OldOK(old_vmm', vmm', step')
  <2>1. Region(heapSize, n + 1) = Region(0, n + 1)
    <3>1. n + 1 \in 2 .. 8
      OBVIOUS
    <3>2. \A i \in 2 .. 8 :
            i = 2 \/ i = 3 \/ i = 4 \/ i = 5 \/ i = 6 \/ i = 7 \/ i = 8
      OBVIOUS
    <3>3. \A i \in 2 .. 8 : Region(heapSize, i) = Region(0, i)
      BY <1>1, <1>2, <3>2, RegionPages, 0 \in Nat
    <3> QED BY <3>1, <3>3
  <2>2. Span(HEAP_START, MaxHeapSize) \intersect (UNION {Region(0, i) : i \in 2 .. 8}) = {}
    BY <1>1, HeapApart, 8 \in 1 .. 8
  <2>3. n + 1 \in 2 .. 8
    OBVIOUS
  <2>4. Span(HEAP_START, INIT_HEAP_SIZE) \subseteq Span(HEAP_START, MaxHeapSize)
    BY HeapSizeFacts DEF Span
  <2>5. Span(HEAP_START, INIT_HEAP_SIZE) \intersect Region(0, n + 1) = {}
    BY <2>2, <2>3, <2>4
  <2>6. \A page \in Span(HEAP_START, INIT_HEAP_SIZE) :
          page \in DOMAIN vmm => page \in DOMAIN vmm' /\ vmm'[page] = vmm[page]
    BY <1>4, <1>5, <2>1, <2>5 DEF Maps
  <2>7. step \in Nat /\ step' \in Nat /\ step <= step'
    OBVIOUS
  <2> QED BY <1>2, <2>6, <2>7, OldStays
<1>8. ListOK(mappings', heapSize', InList(step'))
  BY <1>1, <1>2, ListGrows, n \in 0 .. 7
<1>9. step' \in 0 .. 10
  OBVIOUS
<1>10. State(step', pmm', old_vmm', vmm', mappings', heapSize', heapTables', unlocked')
  BY <1>3, <1>6, <1>7, <1>8, <1>9 DEF State
<1> QED BY <1>1, <1>10, StateNext

LEMMA MapFlagsType ==
  /\ MapFlags("ProcessCode") = KernelFlags /\ KernelFlags \in SUBSET Flags
  /\ "ReadWrite" \in MapFlags("ProcessData") /\ MapFlags("ProcessData") \in SUBSET Flags
  /\ MapFlags("Device") \in SUBSET Flags
  /\ MapFlags("ProcessStack") \in SUBSET Flags
  /\ MapFlags("Special") \in SUBSET Flags
<1>1. KernelFlags \in SUBSET Flags
  BY DEF KernelFlags, Flags
<1>2. MapFlags("ProcessCode") = KernelFlags
  BY DEF MapFlags
<1>3. MapFlags("ProcessData") = {"ReadWrite"} \union KernelFlags
  BY DEF MapFlags
<1>4. MapFlags("ProcessStack") = {"ReadWrite"} \union KernelFlags
  BY DEF MapFlags
<1>5. MapFlags("Device") = {"CachedDisabled", "ReadWrite"} \union KernelFlags
  BY DEF MapFlags
<1>6. MapFlags("Special") = {"ReadWrite", "CachedDisabled", "UserSupper"}
  BY DEF MapFlags
<1>7. {"ReadWrite", "CachedDisabled", "UserSupper"} \subseteq Flags
  BY DEF Flags
<1> QED BY <1>1, <1>2, <1>3, <1>4, <1>5, <1>6, <1>7

(* A statement that maps a Mapping to given frames.                        *)
LEMMA MapToKeeps ==
  ASSUME Inv, boot' = boot, step \in 2 .. 9, step' = step + 1,
         NEW n \in 1 .. 7, InTables(step) = n, InList(step) = n,
         InTables(step') = n + 1, InList(step') = n + 1,
         NEW mapping, mapping = Planned(heapSize)[n + 1],
         NEW frame \in Nat, MapTo(mapping, frame),
         mapping.start \in Nat, mapping.size \in Nat,
         Region(heapSize, n + 1) \intersect OwnRegions = {},
         \A page \in Region(heapSize, n + 1) :
           EntryOK(NewEntry(vmm, page, frame + (page - mapping.start), MapFlags(mapping.type)),
                   page)
  PROVE  Inv'
<1>1. BootOK /\ EntriesOK(vmm) /\ FramesOK(pmm, vmm, unlocked)
      /\ TablesOK(pmm, vmm, heapSize, heapTables, unlocked)
  BY DEF Inv, State
<1>2. /\ vmm' = MapRange(vmm, mapping.start, mapping.size, Linear(frame, mapping.size),
                         MapFlags(mapping.type))
      /\ mappings' = Append(mappings, mapping)
      /\ pmm' = pmm /\ old_vmm' = old_vmm /\ heapSize' = heapSize
      /\ heapTables' = heapTables /\ unlocked' = unlocked
  BY DEF MapTo
<1>3. Span(mapping.start, mapping.size) = Region(heapSize, n + 1)
  BY DEF Region
<1>4. EntriesOK(vmm') /\ FramesOK(pmm', vmm', unlocked)
      /\ TablesOK(pmm', vmm', heapSize, heapTables, unlocked)
  <2> DEFINE start == mapping.start
             size == mapping.size
             flags == MapFlags(mapping.type)
  <2>1. /\ start \in Nat /\ size \in Nat /\ Span(start, size) \intersect OwnRegions = {}
        /\ \A page \in Span(start, size) :
             EntryOK(NewEntry(vmm, page, frame + (page - start), flags), page)
    BY <1>3
  <2>2. vmm' = MapRange(vmm, start, size, Linear(frame, size), flags)
    BY <1>2
  <2> HIDE DEF start, size, flags
  <2> QED BY <1>1, <1>2, <2>1, <2>2, MapsGiven
<1> QED BY <1>2, <1>4, MappedNext

(* ... and one that maps it to frames of its own.                          *)
LEMMA MapOwnKeeps ==
  ASSUME Inv, boot' = boot, step \in 2 .. 9, step' = step + 1,
         NEW n \in 1 .. 7, InTables(step) = n, InList(step) = n,
         InTables(step') = n + 1, InList(step') = n + 1,
         NEW mapping, mapping = Planned(heapSize)[n + 1], MapOwn(mapping),
         mapping.start \in Nat, mapping.size \in Nat,
         Region(heapSize, n + 1) \subseteq OwnRegions,
         MapFlags(mapping.type) \in SUBSET Flags
  PROVE  Inv'
<1> DEFINE r == Requested(mapping.size)
<1>1. BootOK /\ EntriesOK(vmm) /\ FramesOK(pmm, vmm, unlocked)
      /\ TablesOK(pmm, vmm, heapSize, heapTables, unlocked)
  BY DEF Inv, State
<1>2. /\ CanRequest(mapping.size) /\ pmm' = r.pmm
      /\ vmm' = MapRange(vmm, mapping.start, mapping.size, r.frames, MapFlags(mapping.type))
      /\ mappings' = Append(mappings, mapping)
      /\ old_vmm' = old_vmm /\ heapSize' = heapSize
      /\ heapTables' = heapTables /\ unlocked' = unlocked
  BY DEF MapOwn
<1>3. Span(mapping.start, mapping.size) = Region(heapSize, n + 1)
  BY DEF Region
<1>4. TakesAll(pmm, mMap, unlocked, mapping.size, r.frames, r.pmm)
  BY <1>1, <1>2, RequestedEffect, SizesType DEF FramesOK
<1> HIDE DEF r
<1>5. EntriesOK(vmm') /\ FramesOK(pmm', vmm', unlocked)
      /\ TablesOK(pmm', vmm', heapSize, heapTables, unlocked)
  <2> DEFINE start == mapping.start
             size == mapping.size
             flags == MapFlags(mapping.type)
             frames == r.frames
             q == r.pmm
  <2>1. /\ start \in Nat /\ size \in Nat /\ Span(start, size) \subseteq OwnRegions
        /\ flags \in SUBSET Flags /\ TakesAll(pmm, mMap, unlocked, size, frames, q)
    BY <1>3, <1>4
  <2>2. vmm' = MapRange(vmm, start, size, frames, flags) /\ pmm' = q
    BY <1>2
  <2> HIDE DEF start, size, flags, frames, q
  <2> QED BY <1>1, <2>1, <2>2, MapsRequested, MapsApartFromTables
<1> QED BY <1>2, <1>5, MappedNext

LEMMA MapKernelCodeKeeps ==
  ASSUME Inv, MapKernelCode
  PROVE  Inv'
<1> DEFINE mapping == MappingOf(KERNEL_IMAGE_START, kernelROSizePages, "ProcessCode")
<1>1. BootOK /\ State(step, pmm, old_vmm, vmm, mappings, heapSize, heapTables, unlocked) /\ heapSize \in Nat
  BY DEF Inv, State, HeapSizeOK
<1>2. step = 2 /\ step' = 3 /\ boot' = boot
  <2>1. step \in 0 .. 10
    BY <1>1 DEF State
  <2>2. Run(BootSteps[3])
    BY Statements DEF MapKernelCode
  <2> QED BY <2>1, <2>2, RunAt
<1>3. mapping = Planned(heapSize)[1 + 1] /\ Region(heapSize, 1 + 1) = CodePages
  BY <1>1, RegionPages DEF Planned
<1>4. mapping.start = KERNEL_IMAGE_START /\ mapping.size \in Nat
      /\ MapFlags(mapping.type) = KernelFlags
  BY <1>1, SizesType, MapFlagsType DEF MappingOf
<1>5. MapTo(mapping, 0)
  BY DEF MapKernelCode
<1>6. CodePages \intersect DOMAIN vmm = {}
  <2>1. DOMAIN vmm = Regions(heapSize, 1)
    BY <1>1, <1>2 DEF State, InTables
  <2>2. Regions(heapSize, 1) = Span(HEAP_START, heapSize)
    <3>1. 1 .. 1 = {1}
      OBVIOUS
    <3> QED BY <1>1, <3>1, RegionPages DEF Regions
  <2>3. Span(HEAP_START + 0, heapSize) \subseteq OwnRegions
    BY <1>1, HeapInRegions, HeapSizeFacts DEF State, HeapSizeOK
  <2>4. HEAP_START + 0 = HEAP_START
    BY HeapSizeFacts
  <2> QED BY <1>1, <2>1, <2>2, <2>3, <2>4, Layout
<1>7. \A page \in CodePages :
        EntryOK(NewEntry(vmm, page, 0 + (page - KERNEL_IMAGE_START), KernelFlags), page)
  <2> TAKE page \in CodePages
  <2> DEFINE frame == 0 + (page - KERNEL_IMAGE_START)
  <2>1. frame \in Nat /\ frame = page - KERNEL_IMAGE_START
    BY <1>1, HeapSizeFacts, SizesType DEF CodePages, Span
  <2> HIDE DEF frame
  <2>2. NewEntry(vmm, page, frame, KernelFlags)
          = [frame |-> page - KERNEL_IMAGE_START, flags |-> KernelFlags \union {"Present"}]
    BY <1>6, <2>1 DEF NewEntry, FlagsOf
  <2>3. NewEntry(vmm, page, frame, KernelFlags) \in Entries
    BY <1>1, <2>1, MapFlagsType, NewEntryType DEF State
  <2>4. page \notin DataPages /\ page \notin LowPages
    BY <1>1, Layout
  <2>5. EntryOK(NewEntry(vmm, page, frame, KernelFlags), page)
    BY <2>2, <2>3, <2>4 DEF EntryOK
  <2> QED BY <2>5 DEF frame
<1>8. CodePages \intersect OwnRegions = {}
  BY <1>1, Layout
<1>9. InTables(2) = 1 /\ InList(2) = 1 /\ InTables(3) = 1 + 1 /\ InList(3) = 1 + 1
  BY DEF InTables, InList
<1> HIDE DEF mapping
<1> QED BY <1>2, <1>3, <1>4, <1>5, <1>7, <1>8, <1>9, HeapSizeFacts, MapToKeeps,
           1 \in 1 .. 7, 2 \in 2 .. 9, 3 = 2 + 1, 0 \in Nat

LEMMA MapKernelDataKeeps ==
  ASSUME Inv, MapKernelData
  PROVE  Inv'
<1> DEFINE start == KERNEL_IMAGE_START + kernelROSizePages
           mapping == MappingOf(start, kernelSizePages - kernelROSizePages, "ProcessData")
           flags == MapFlags("ProcessData")
<1>1. BootOK /\ State(step, pmm, old_vmm, vmm, mappings, heapSize, heapTables, unlocked) /\ heapSize \in Nat
  BY DEF Inv, State, HeapSizeOK
<1>2. step = 3 /\ step' = 4 /\ boot' = boot
  <2>1. step \in 0 .. 10
    BY <1>1 DEF State
  <2>2. Run(BootSteps[4])
    BY Statements DEF MapKernelData
  <2> QED BY <2>1, <2>2, RunAt
<1>3. mapping = Planned(heapSize)[2 + 1] /\ Region(heapSize, 2 + 1) = DataPages
  BY <1>1, RegionPages DEF Planned
<1>4. mapping.start = start /\ start \in Nat /\ mapping.size \in Nat
      /\ MapFlags(mapping.type) = flags
  BY <1>1, SizesType, HeapSizeFacts DEF MappingOf
<1>5. MapTo(mapping, kernelROSizePages) /\ kernelROSizePages \in Nat
  BY <1>1, SizesType DEF MapKernelData
<1>7. \A page \in DataPages :
        EntryOK(NewEntry(vmm, page, kernelROSizePages + (page - start), flags), page)
  <2> TAKE page \in DataPages
  <2> DEFINE frame == kernelROSizePages + (page - start)
  <2>1. frame \in Nat /\ frame = page - KERNEL_IMAGE_START
    <3>1. KERNEL_IMAGE_START \in Nat /\ kernelROSizePages \in Nat /\ kernelSizePages \in Nat
      BY <1>1, HeapSizeFacts, SizesType
    <3>2. page \in Nat /\ page >= KERNEL_IMAGE_START + kernelROSizePages
      BY <3>1 DEF DataPages, Span
    <3> QED BY <3>1, <3>2
  <2>2. page \notin CodePages /\ page \notin LowPages
    BY <1>1, Layout
  <2>a. /\ EntriesOK(vmm) /\ frame \in Nat
        /\ flags \in SUBSET Flags /\ "ReadWrite" \in flags
    BY <1>1, <2>1, MapFlagsType DEF State
  <2> HIDE DEF frame, start, flags
  <2>3. /\ NewEntry(vmm, page, frame, flags) \in Entries
        /\ NewEntry(vmm, page, frame, flags).frame = frame
        /\ "ReadWrite" \in NewEntry(vmm, page, frame, flags).flags
    BY <2>a, NewEntryType
  <2>4. EntryOK(NewEntry(vmm, page, frame, flags), page)
    BY <2>1, <2>2, <2>3 DEF EntryOK
  <2> QED BY <2>4 DEF frame
<1>8. DataPages \intersect OwnRegions = {}
  BY <1>1, Layout
<1>9. InTables(3) = 2 /\ InList(3) = 2 /\ InTables(4) = 2 + 1 /\ InList(4) = 2 + 1
  BY DEF InTables, InList
<1> HIDE DEF mapping, start, flags
<1> QED BY <1>2, <1>3, <1>4, <1>5, <1>7, <1>8, <1>9, MapToKeeps,
           2 \in 1 .. 7, 3 \in 2 .. 9, 4 = 3 + 1

(* An identity mapping writes right entries.                               *)
LEMMA IdentityEntry ==
  ASSUME BootOK, NEW space, EntriesOK(space), NEW start \in Nat, NEW page \in LowPages,
         page >= start
  PROVE  EntryOK(NewEntry(space, page, start + (page - start), MapFlags("Device")), page)
<1>1. page \in Nat
  BY Layout
<1> DEFINE frame == start + (page - start)
           flags == MapFlags("Device")
<1>2. frame \in Nat /\ frame = page
  BY <1>1
<1>3. page \notin CodePages /\ page \notin DataPages /\ flags \in SUBSET Flags
  BY Layout, MapFlagsType
<1> HIDE DEF frame, flags
<1>4. /\ NewEntry(space, page, frame, flags) \in Entries
      /\ NewEntry(space, page, frame, flags).frame = frame
  BY <1>2, <1>3, NewEntryType
<1>5. EntryOK(NewEntry(space, page, frame, flags), page)
  BY <1>2, <1>3, <1>4 DEF EntryOK
<1> QED BY <1>5 DEF frame, flags

LEMMA IdentityMapPhysicalMemoryKeeps ==
  ASSUME Inv, IdentityMapPhysicalMemory
  PROVE  Inv'
<1> DEFINE mapping == MappingOf(0, memorySize, "Device")
           region == Region(heapSize, 3 + 1)
<1>1. BootOK /\ State(step, pmm, old_vmm, vmm, mappings, heapSize, heapTables, unlocked) /\ heapSize \in Nat
  BY DEF Inv, State, HeapSizeOK
<1>2. step = 4 /\ step' = 5 /\ boot' = boot
  <2>1. step \in 0 .. 10
    BY <1>1 DEF State
  <2>2. Run(BootSteps[5])
    BY Statements DEF IdentityMapPhysicalMemory
  <2> QED BY <2>1, <2>2, RunAt
<1>3. mapping = Planned(heapSize)[3 + 1] /\ region = Span(0, memorySize)
  BY <1>1, RegionPages DEF Planned
<1>4. mapping.start = 0 /\ mapping.size \in Nat /\ mapping.type = "Device"
  BY <1>1, SizesType DEF MappingOf
<1>5. MapTo(mapping, 0)
  BY DEF IdentityMapPhysicalMemory
<1> HIDE DEF region
<1>6. \A page \in region : page \in LowPages /\ page >= 0
  BY <1>1, <1>3, SizesType DEF LowPages, Span
<1>7. \A page \in region : EntryOK(NewEntry(vmm, page, 0 + (page - 0), MapFlags("Device")), page)
  BY <1>1, <1>6, IdentityEntry, 0 \in Nat DEF State
<1>8. region \intersect OwnRegions = {}
  BY <1>1, <1>6, Layout
<1>9. InTables(4) = 3 /\ InList(4) = 3 /\ InTables(5) = 3 + 1 /\ InList(5) = 3 + 1
  BY DEF InTables, InList
<1> HIDE DEF mapping
<1> QED BY <1>2, <1>3, <1>4, <1>5, <1>7, <1>8, <1>9, MapToKeeps,
           3 \in 1 .. 7, 4 \in 2 .. 9, 5 = 4 + 1, 0 \in Nat DEF region

LEMMA MapFramebufferKeeps ==
  ASSUME Inv, MapFramebuffer
  PROVE  Inv'
<1> DEFINE start == framebuffer.page
           mapping == MappingOf(start, framebuffer.BufferSize \div PageSize, "Device")
           region == Region(heapSize, 4 + 1)
<1>1. BootOK /\ State(step, pmm, old_vmm, vmm, mappings, heapSize, heapTables, unlocked) /\ heapSize \in Nat
  BY DEF Inv, State, HeapSizeOK
<1>2. step = 5 /\ step' = 6 /\ boot' = boot
  <2>1. step \in 0 .. 10
    BY <1>1 DEF State
  <2>2. Run(BootSteps[6])
    BY Statements DEF MapFramebuffer
  <2> QED BY <2>1, <2>2, RunAt
<1>3. mapping = Planned(heapSize)[4 + 1] /\ region = FramebufferPages
  BY <1>1, RegionPages DEF Planned
<1>4. mapping.start = start /\ start \in Nat /\ mapping.size \in Nat /\ mapping.type = "Device"
  BY <1>1, SizesType DEF MappingOf
<1>5. MapTo(mapping, start)
  BY DEF MapFramebuffer
<1> HIDE DEF region
<1>6. \A page \in region : page \in LowPages /\ page >= start
  BY <1>1, <1>3, SizesType DEF LowPages, FramebufferPages, Span
<1> HIDE DEF start
<1>7. \A page \in region :
        EntryOK(NewEntry(vmm, page, start + (page - start), MapFlags("Device")), page)
  BY <1>1, <1>4, <1>6, IdentityEntry DEF State
<1>8. region \intersect OwnRegions = {}
  BY <1>1, <1>6, Layout
<1>9. InTables(5) = 4 /\ InList(5) = 4 /\ InTables(6) = 4 + 1 /\ InList(6) = 4 + 1
  BY DEF InTables, InList
<1> HIDE DEF mapping
<1> QED BY <1>2, <1>3, <1>4, <1>5, <1>7, <1>8, <1>9, MapToKeeps,
           4 \in 1 .. 7, 5 \in 2 .. 9, 6 = 5 + 1 DEF region

LEMMA MapStackKeeps ==
  ASSUME Inv, MapStack
  PROVE  Inv'
<1> DEFINE mapping == MappingOf(STACK_START, STACK_SIZE, "ProcessStack")
<1>1. BootOK /\ State(step, pmm, old_vmm, vmm, mappings, heapSize, heapTables, unlocked) /\ heapSize \in Nat
  BY DEF Inv, State, HeapSizeOK
<1>2. step = 6 /\ step' = 7 /\ boot' = boot
  <2>1. step \in 0 .. 10
    BY <1>1 DEF State
  <2>2. Run(BootSteps[7])
    BY Statements DEF MapStack
  <2> QED BY <2>1, <2>2, RunAt
<1>3. mapping = Planned(heapSize)[5 + 1] /\ Region(heapSize, 5 + 1) \subseteq OwnRegions
  BY <1>1, RegionPages DEF Planned, OwnRegions
<1>4. mapping.start \in Nat /\ mapping.size \in Nat /\ MapFlags(mapping.type) \in SUBSET Flags
  BY HeapSizeFacts, MapFlagsType DEF MappingOf
<1>5. MapOwn(mapping)
  BY DEF MapStack
<1>9. InTables(6) = 5 /\ InList(6) = 5 /\ InTables(7) = 5 + 1 /\ InList(7) = 5 + 1
  BY DEF InTables, InList
<1> HIDE DEF mapping
<1> QED BY <1>2, <1>3, <1>4, <1>5, <1>9, MapOwnKeeps, 5 \in 1 .. 7, 6 \in 2 .. 9, 7 = 6 + 1

LEMMA LoadPLM4Keeps ==
  ASSUME Inv, LoadPLM4
  PROVE  Inv'
<1>1. BootOK /\ State(step, pmm, old_vmm, vmm, mappings, heapSize, heapTables, unlocked)
  BY DEF Inv
<1>2. step = 7 /\ step' = 8 /\ boot' = boot
  <2>1. step \in 0 .. 10
    BY <1>1 DEF State
  <2>2. Run(BootSteps[8])
    BY Statements DEF LoadPLM4
  <2> QED BY <2>1, <2>2, RunAt
<1>3. /\ pmm' = pmm /\ old_vmm' = old_vmm /\ vmm' = vmm /\ heapSize' = heapSize
      /\ mappings' = mappings /\ heapTables' = heapTables /\ unlocked' = unlocked
  BY DEF LoadPLM4
<1>4. InTables(7) = 6 /\ InTables(8) = 6 /\ InList(7) = 6 /\ InList(8) = 6
  BY DEF InTables, InList
<1>5. HeapSizeOK(heapSize, 8) /\ OldOK(old_vmm, vmm, 8)
  BY <1>1, <1>2 DEF HeapSizeOK, State, OldOK
<1>6. State(step', pmm', old_vmm', vmm', mappings', heapSize', heapTables', unlocked')
  BY <1>1, <1>2, <1>3, <1>4, <1>5 DEF State
<1> QED BY <1>1, <1>2, <1>6, StateNext

LEMMA SetupGDTKeeps ==
  ASSUME Inv, SetupGDT
  PROVE  Inv'
<1> DEFINE mapping == MappingOf(GDT_VIRTUAL_MEMORY_POS, 1, "Special")
<1>1. BootOK /\ State(step, pmm, old_vmm, vmm, mappings, heapSize, heapTables, unlocked) /\ heapSize \in Nat
  BY DEF Inv, State, HeapSizeOK
<1>2. step = 8 /\ step' = 9 /\ boot' = boot
  <2>1. step \in 0 .. 10
    BY <1>1 DEF State
  <2>2. Run(BootSteps[9])
    BY Statements DEF SetupGDT
  <2> QED BY <2>1, <2>2, RunAt
<1>3. mapping = Planned(heapSize)[6 + 1] /\ Region(heapSize, 6 + 1) \subseteq OwnRegions
  BY <1>1, RegionPages DEF Planned, OwnRegions
<1>4. mapping.start \in Nat /\ mapping.size \in Nat /\ MapFlags(mapping.type) \in SUBSET Flags
  BY HeapSizeFacts, MapFlagsType DEF MappingOf
<1>5. MapOwn(mapping)
  BY DEF SetupGDT
<1>9. InTables(8) = 6 /\ InList(8) = 6 /\ InTables(9) = 6 + 1 /\ InList(9) = 6 + 1
  BY DEF InTables, InList
<1> HIDE DEF mapping
<1> QED BY <1>2, <1>3, <1>4, <1>5, <1>9, MapOwnKeeps, 6 \in 1 .. 7, 8 \in 2 .. 9, 9 = 8 + 1

LEMMA SetupIDTKeeps ==
  ASSUME Inv, SetupIDT
  PROVE  Inv'
<1> DEFINE mapping == MappingOf(IDT_VIRTUAL_MEMORY_POS, 1, "Special")
<1>1. BootOK /\ State(step, pmm, old_vmm, vmm, mappings, heapSize, heapTables, unlocked) /\ heapSize \in Nat
  BY DEF Inv, State, HeapSizeOK
<1>2. step = 9 /\ step' = 10 /\ boot' = boot
  <2>1. step \in 0 .. 10
    BY <1>1 DEF State
  <2>2. Run(BootSteps[10])
    BY Statements DEF SetupIDT
  <2> QED BY <2>1, <2>2, RunAt
<1>3. mapping = Planned(heapSize)[7 + 1] /\ Region(heapSize, 7 + 1) \subseteq OwnRegions
  BY <1>1, RegionPages DEF Planned, OwnRegions
<1>4. mapping.start \in Nat /\ mapping.size \in Nat /\ MapFlags(mapping.type) \in SUBSET Flags
  BY HeapSizeFacts, MapFlagsType DEF MappingOf
<1>5. MapOwn(mapping)
  BY DEF SetupIDT
<1>9. InTables(9) = 7 /\ InList(9) = 7 /\ InTables(10) = 7 + 1 /\ InList(10) = 7 + 1
  BY DEF InTables, InList
<1> HIDE DEF mapping
<1> QED BY <1>2, <1>3, <1>4, <1>5, <1>9, MapOwnKeeps, 7 \in 1 .. 7, 9 \in 2 .. 9, 10 = 9 + 1

(* The heap grows and shrinks once the new tables are loaded.              *)
LEMMA HeapSteps ==
  ASSUME Inv, Done("LoadPLM4")
  PROVE  /\ step \in 8 .. 10 /\ InTables(step) \in 1 .. 8 /\ InList(step) = InTables(step)
         /\ heapSize \in Nat /\ heapSize >= INIT_HEAP_SIZE /\ heapSize <= MaxHeapSize
         /\ \E k \in Nat : heapSize = INIT_HEAP_SIZE + k * HEAP_STEP
<1>1. step \in 0 .. 10 /\ HeapSizeOK(heapSize, step)
  BY DEF Inv, State
<1>2. step \in 8 .. 10
  BY <1>1, DoneAt, Statements, 8 \in 1 .. 10
<1>3. InTables(step) \in 1 .. 8 /\ InList(step) = InTables(step)
  BY <1>2 DEF InTables, InList
<1>4. PICK k \in Nat : heapSize = INIT_HEAP_SIZE + k * HEAP_STEP
  BY <1>1, <1>2 DEF HeapSizeOK
<1>5. k * HEAP_STEP \in Nat
  BY HeapSizeFacts
<1>6. heapSize >= INIT_HEAP_SIZE
  BY <1>4, <1>5, HeapSizeFacts
<1> QED BY <1>1, <1>2, <1>3, <1>4, <1>6 DEF HeapSizeOK

LEMMA growHeapKeeps ==
  ASSUME Inv, growHeap
  PROVE  Inv'
<1> DEFINE r == RequestedForHeap(HEAP_START + heapSize, HEAP_STEP)
           n == InTables(step)
           start == HEAP_START + heapSize
<1>1. BootOK /\ State(step, pmm, old_vmm, vmm, mappings, heapSize, heapTables, unlocked)
  BY DEF Inv
<1>2. /\ Done("LoadPLM4") /\ heapSize + HEAP_STEP <= MaxHeapSize
      /\ CanRequestForHeap(start, HEAP_STEP)
      /\ vmm' = MapRange(vmm, start, HEAP_STEP, r.frames, {})
      /\ pmm' = r.pmm /\ heapSize' = heapSize + HEAP_STEP
      /\ boot' = boot /\ step' = step /\ old_vmm' = old_vmm
      /\ heapTables' = r.tables /\ unlocked' = unlocked
      /\ mappings' = [mappings EXCEPT ![HeapMapping].size = @ + HEAP_STEP]
  BY DEF growHeap, growHeapPages, boot
<1>3. /\ step \in 8 .. 10 /\ n \in 1 .. 8 /\ InList(step) = n
      /\ heapSize \in Nat /\ heapSize >= INIT_HEAP_SIZE
  BY <1>2, HeapSteps
<1>4. PICK k \in Nat : heapSize = INIT_HEAP_SIZE + k * HEAP_STEP
  BY <1>2, HeapSteps
<1>5. /\ FramesOK(pmm, vmm, unlocked) /\ TablesOK(pmm, vmm, heapSize, heapTables, unlocked)
      /\ EntriesOK(vmm) /\ DOMAIN vmm = Regions(heapSize, n)
      /\ OldOK(old_vmm, vmm, step) /\ ListOK(mappings, heapSize, n)
  BY <1>1, <1>3 DEF State
<1>6. start \in Nat /\ Span(start, HEAP_STEP) \subseteq OwnRegions
  BY <1>2, <1>3, HeapInRegions, HeapSizeFacts
<1>7. /\ HeapTakes(pmm, mMap, unlocked, start, HEAP_STEP, heapTables, r)
      /\ \A table \in DOMAIN r.tables : r.tables[table] \notin unlocked
  <2>1. r = RequestedForHeap(start, HEAP_STEP)
    OBVIOUS
  <2> HIDE DEF start, r
  <2> QED BY <1>1, <1>2, <1>5, <1>6, <2>1, RequestedForHeapEffect, SizesType, HeapSizeFacts
             DEF FramesOK, CanRequestForHeap
<1> HIDE DEF r, n, start
<1>8. /\ EntriesOK(vmm') /\ FramesOK(pmm', vmm', unlocked)
      /\ TablesOK(pmm', vmm', heapSize', heapTables', unlocked)
  <2>1. {} \in SUBSET Flags
    OBVIOUS
  <2>2. Span(HEAP_START, heapSize') \subseteq
          Span(HEAP_START, heapSize) \union Span(start, HEAP_STEP)
    BY <1>2, <1>3, HeapSizeFacts DEF Span, start
  <2>3. PICK k2 : k2 = heapSize'
    OBVIOUS
  <2> QED BY <1>1, <1>2, <1>5, <1>6, <1>7, <2>1, <2>2, <2>3, HeapSizeFacts, HeapMaps
<1>9. Maps(vmm, vmm', start, HEAP_STEP, r.frames, {})
  BY <1>2, MapRangeEffect
<1>10. DOMAIN vmm' = Regions(heapSize', n)
  <2>1. Span(HEAP_START, heapSize') = Span(HEAP_START, heapSize) \union Span(start, HEAP_STEP)
    BY <1>2, <1>3, HeapSizeFacts DEF Span, start
  <2>2. heapSize' \in Nat
    BY <1>2, <1>3, HeapSizeFacts
  <2>3. /\ Regions(heapSize, n)
             = Span(HEAP_START, heapSize) \union (UNION {Region(0, i) : i \in 2 .. n})
        /\ Regions(heapSize', n)
             = Span(HEAP_START, heapSize') \union (UNION {Region(0, i) : i \in 2 .. n})
    BY <1>1, <1>3, <2>2, HeapRegion
  <2> QED BY <1>5, <1>9, <2>1, <2>3 DEF Maps
<1>11. OldOK(old_vmm', vmm', step')
  <2>1. Span(HEAP_START, INIT_HEAP_SIZE) \intersect Span(start, HEAP_STEP) = {}
    BY <1>3, HeapSizeFacts DEF Span, start
  <2>2. \A page \in Span(HEAP_START, INIT_HEAP_SIZE) :
          page \in DOMAIN vmm => page \in DOMAIN vmm' /\ vmm'[page] = vmm[page]
    BY <1>9, <2>1 DEF Maps
  <2>3. step \in Nat /\ step <= step
    BY <1>3
  <2> QED BY <1>2, <1>5, <2>2, <2>3, OldStays
<1>12. ListOK(mappings', heapSize', n)
  <2>1. heapSize \in Nat \ {0} /\ heapSize' \in Nat
    BY <1>2, <1>3, HeapSizeFacts
  <2>2. /\ HeapMapping = 1 /\ mappings[1] = MappingOf(HEAP_START, heapSize, "ProcessData")
        /\ DOMAIN mappings = 1 .. n
    BY <1>3, <1>5, <2>1, HeapMappingIsFirst
  <2>3. mappings' = [mappings EXCEPT ![1] = MappingOf(HEAP_START, heapSize', "ProcessData")]
    <3>1. [mappings[1] EXCEPT !.size = @ + HEAP_STEP]
            = MappingOf(HEAP_START, heapSize', "ProcessData")
      BY <1>2, <2>2 DEF MappingOf
    <3>2. mappings' = [mappings EXCEPT ![1] = [mappings[1] EXCEPT !.size = @ + HEAP_STEP]]
      BY <1>2, <2>2
    <3> QED BY <3>1, <3>2
  <2> QED BY <1>3, <1>5, <2>1, <2>3, ListResized
<1>13. HeapSizeOK(heapSize', step')
  <2>1. heapSize' = INIT_HEAP_SIZE + (k + 1) * HEAP_STEP
    <3>1. (k + 1) * HEAP_STEP = k * HEAP_STEP + HEAP_STEP /\ k * HEAP_STEP \in Nat
      BY HeapSizeFacts
    <3> QED BY <1>2, <1>4, <3>1, HeapSizeFacts
  <2>2. heapSize' \in Nat /\ heapSize' <= MaxHeapSize
    BY <1>2, <1>3, HeapSizeFacts
  <2>3. ~(step' \in 1 .. 7) /\ k + 1 \in Nat
    BY <1>2, <1>3
  <2> QED BY <2>1, <2>2, <2>3 DEF HeapSizeOK
<1>14. State(step', pmm', old_vmm', vmm', mappings', heapSize', heapTables', unlocked')
  <2>1. InTables(step') = n /\ InList(step') = n /\ step' \in 0 .. 10
    BY <1>2, <1>3 DEF n
  <2>2. FramesOK(pmm', vmm', unlocked') /\ TablesOK(pmm', vmm', heapSize', heapTables', unlocked')
    BY <1>2, <1>8
  <2> QED BY <1>8, <1>10, <1>11, <1>12, <1>13, <2>1, <2>2 DEF State
<1> QED BY <1>1, <1>2, <1>14, StateNext

(* The frees leave the frames of the pages that stay, and of the tables.   *)
LEMMA FramesFreed ==
  ASSUME NEW p, NEW space, NEW but, FramesOK(p, space, but),
         NEW new, \A page \in OwnRegions \intersect DOMAIN new :
                    page \in DOMAIN space /\ new[page] = space[page],
         NEW more, NEW q, Freed(p, mMap, but \union more, q)
  PROVE  FramesOK(q, new, but \union more)
<1> DEFINE all == but \union more
<1>1. /\ q \in Allocators(mMap) /\ WordsBut(q, mMap, all)
      /\ \A i \in BitmapIndices(mMap) : q.bitmap[i] => p.bitmap[i]
      /\ \A i \in BitmapIndices(mMap) : i \notin all => q.bitmap[i] = p.bitmap[i]
      /\ Pool(q) \subseteq Pool(p) \union all
  BY DEF Freed
<1>2. but \subseteq all
  OBVIOUS
<1> HIDE DEF all
<1>3. ASSUME NEW i \in BitmapIndices(mMap), i \in Span(0, kernelSizePages)
      PROVE  q.bitmap[i] \/ i \in all
  <2>1. p.bitmap[i] \/ i \in but
    BY <1>3 DEF FramesOK
  <2>2. i \notin all => q.bitmap[i] = p.bitmap[i]
    BY <1>1
  <2> QED BY <1>2, <2>1, <2>2
<1>4. ASSUME NEW page \in OwnRegions \intersect DOMAIN new
      PROVE  LET frame == new[page].frame
             IN  /\ frame \in BitmapIndices(mMap) /\ frame < memorySize
                 /\ ~q.bitmap[frame] /\ (frame \notin Pool(q) \/ frame \in all)
                 /\ \A other \in OwnRegions \intersect DOMAIN new :
                      new[other].frame = frame => other = page \/ frame \in all
  <2>1. page \in OwnRegions \intersect DOMAIN space /\ new[page] = space[page]
    BY <1>4
  <2>2. LET frame == space[page].frame
        IN  /\ frame \in BitmapIndices(mMap) /\ frame < memorySize
            /\ ~p.bitmap[frame] /\ (frame \notin Pool(p) \/ frame \in but)
            /\ \A other \in OwnRegions \intersect DOMAIN space :
                 space[other].frame = frame => other = page \/ frame \in but
    BY <2>1 DEF FramesOK
  <2>3. PICK frame : frame = space[page].frame
    OBVIOUS
  <2>4. frame \in BitmapIndices(mMap) /\ frame < memorySize /\ ~q.bitmap[frame]
    BY <1>1, <2>2, <2>3
  <2>5. frame \notin Pool(q) \/ frame \in all
    BY <1>1, <1>2, <2>2, <2>3
  <2>6. \A other \in OwnRegions \intersect DOMAIN new :
          new[other].frame = frame => other = page \/ frame \in all
    BY <1>2, <2>2, <2>3
  <2> QED BY <2>1, <2>3, <2>4, <2>5, <2>6
<1>5. FramesOK(q, new, all)
  BY <1>1, <1>3, <1>4 DEF FramesOK
<1> QED BY <1>5 DEF all

LEMMA TablesFreed ==
  ASSUME NEW p, NEW space, NEW h, NEW held, NEW but, TablesOK(p, space, h, held, but),
         NEW new, \A page \in OwnRegions \intersect DOMAIN new :
                    page \in DOMAIN space /\ new[page] = space[page],
         NEW k, Span(HEAP_START, k) \subseteq Span(HEAP_START, h),
         NEW more, more \subseteq {i \in BitmapIndices(mMap) : p.bitmap[i]},
         NEW q, Freed(p, mMap, but \union more, q)
  PROVE  TablesOK(q, new, k, held, but \union more)
<1> DEFINE all == but \union more
<1>1. /\ \A i \in BitmapIndices(mMap) : q.bitmap[i] => p.bitmap[i]
      /\ Pool(q) \subseteq Pool(p) \union all
  BY DEF Freed
<1>2. all \subseteq BitmapIndices(mMap)
  BY DEF TablesOK
<1>3. \A page \in Span(HEAP_START, k) : TableOf(page) \in DOMAIN held
  BY DEF TablesOK
<1>4. ASSUME NEW table \in DOMAIN held
      PROVE  LET frame == held[table]
             IN  /\ frame \in BitmapIndices(mMap) /\ frame \in 0 .. memorySize - 1
                 /\ ~q.bitmap[frame] /\ frame \notin Pool(q) /\ frame \notin all
                 /\ \A page \in OwnRegions \intersect DOMAIN new : new[page].frame # frame
  <2>1. PICK frame : frame = held[table]
    OBVIOUS
  <2>2. /\ frame \in BitmapIndices(mMap) /\ frame \in 0 .. memorySize - 1
        /\ ~p.bitmap[frame] /\ frame \notin Pool(p) /\ frame \notin but
        /\ \A page \in OwnRegions \intersect DOMAIN space : space[page].frame # frame
    BY <2>1 DEF TablesOK
  <2>3. frame \notin all
    BY <2>2
  <2> HIDE DEF all
  <2>4. ~q.bitmap[frame] /\ frame \notin Pool(q)
    BY <1>1, <2>2, <2>3
  <2>5. \A page \in OwnRegions \intersect DOMAIN new : new[page].frame # frame
    BY <2>2
  <2> QED BY <2>1, <2>2, <2>3, <2>4, <2>5
<1> HIDE DEF all
<1>5. TablesOK(q, new, k, held, all)
  BY <1>2, <1>3, <1>4 DEF TablesOK
<1> QED BY <1>5 DEF all

(* What shrinkHeap finds in the tables and gives to FreePage.              *)
LEMMA ShrinkFrees ==
  ASSUME Inv, Done("LoadPLM4"), heapSize > 2 * HEAP_STEP
  PROVE  /\ Freed(pmm, mMap, unlocked \union Unlocking, FreeFrames)
         /\ Unlocking \subseteq {i \in BitmapIndices(mMap) : pmm.bitmap[i]}
<1> DEFINE n == InTables(step)
<1>1. BootOK /\ State(step, pmm, old_vmm, vmm, mappings, heapSize, heapTables, unlocked)
  BY DEF Inv
<1>2. /\ step \in 8 .. 10 /\ n \in 1 .. 8
      /\ heapSize \in Nat /\ heapSize <= MaxHeapSize
  BY HeapSteps
<1>3. /\ FramesOK(pmm, vmm, unlocked) /\ TablesOK(pmm, vmm, heapSize, heapTables, unlocked)
      /\ EntriesOK(vmm) /\ DOMAIN vmm = Regions(heapSize, n)
  BY <1>1, <1>2 DEF State
<1> HIDE DEF n
<1>4. Span(HEAP_START, heapSize) \subseteq Regions(heapSize, n)
  BY <1>1, <1>2, HeapRegion
<1>5. memorySize \in Nat /\ memorySize = MemoryPages(mMap) /\ mMap \in Seq(Descriptors)
  BY <1>1, SizesType DEF memorySize
<1>6. ASSUME NEW i \in 1 .. HEAP_STEP
      PROVE  /\ vmm[Leaving(i)].frame \in 0 .. MemoryPages(mMap) - 1
             /\ ~InUse(pmm, vmm[Leaving(i)].frame)
             /\ TableNumber(i) \in 0 .. MemoryPages(mMap) - 1
             /\ TableNumber(i) \in BitmapIndices(mMap)
  <2> DEFINE page == Leaving(i)
             frame == vmm[page].frame
             number == TableNumber(i)
  <2>1. page \in Span(HEAP_START, heapSize)
    BY <1>2, HeapSizeFacts DEF Span, Leaving
  <2>2. Span(HEAP_START, heapSize) \subseteq Span(HEAP_START, MaxHeapSize)
    BY <1>2, HeapSizeFacts DEF Span
  <2>3. number = heapTables[TableOf(page)]
    BY DEF TableNumber
  <2> HIDE DEF page, number
  <2>4. page \in OwnRegions \intersect DOMAIN vmm
    BY <1>3, <1>4, <2>1, <2>2 DEF OwnRegions
  <2>5. frame \in Nat
    BY <1>3, <2>4 DEF EntriesOK, EntryOK, Entries
  <2>6. frame < memorySize /\ ~pmm.bitmap[frame]
    BY <1>3, <2>4 DEF FramesOK
  <2>7. TableOf(page) \in DOMAIN heapTables
    BY <1>3, <2>1 DEF TablesOK
  <2>8. number \in BitmapIndices(mMap) /\ number \in 0 .. memorySize - 1
    BY <1>3, <2>3, <2>7 DEF TablesOK
  <2> HIDE DEF frame
  <2>9. frame \in 0 .. memorySize - 1
    BY <1>5, <2>5, <2>6
  <2>10. ~InUse(pmm, frame)
    BY <2>6 DEF InUse
  <2>11. frame \in 0 .. MemoryPages(mMap) - 1 /\ number \in 0 .. MemoryPages(mMap) - 1
    BY <1>5, <2>8, <2>9
  <2> QED BY <2>8, <2>10, <2>11 DEF page, frame, number
<1>7. LeavesFrames
  BY <1>6 DEF LeavesFrames
<1>8. Freed(pmm, mMap, unlocked \union Unlocking, FreeFrames)
  BY <1>3, <1>5, <1>7, FreeFramesEffect DEF FramesOK
<1>9. DOMAIN pmm.bitmap = BitmapIndices(mMap)
  BY <1>3 DEF FramesOK, Allocators
<1>10. Unlocking \subseteq {i \in BitmapIndices(mMap) : pmm.bitmap[i]}
  BY <1>9 DEF Unlocking, InUse
<1> QED BY <1>8, <1>10

LEMMA shrinkHeapKeeps ==
  ASSUME Inv, shrinkHeap
  PROVE  Inv'
<1> DEFINE n == InTables(step)
           h == heapSize - HEAP_STEP
           gone == Span(HEAP_START + heapSize - HEAP_STEP, HEAP_STEP)
<1>1. BootOK /\ State(step, pmm, old_vmm, vmm, mappings, heapSize, heapTables, unlocked)
  BY DEF Inv
<1>2. /\ Done("LoadPLM4") /\ heapSize > 2 * HEAP_STEP
      /\ vmm' = [page \in DOMAIN vmm \ gone |-> vmm[page]]
      /\ pmm' = FreeFrames /\ heapSize' = h
      /\ heapTables' = heapTables /\ unlocked' = unlocked \union Unlocking
      /\ boot' = boot /\ step' = step /\ old_vmm' = old_vmm
      /\ mappings' = [mappings EXCEPT ![HeapMapping].size = @ - HEAP_STEP]
  BY DEF shrinkHeap, shrinkHeapPages, MayShrink, boot
<1>3. /\ step \in 8 .. 10 /\ n \in 1 .. 8 /\ InList(step) = n
      /\ heapSize \in Nat /\ heapSize >= INIT_HEAP_SIZE /\ heapSize <= MaxHeapSize
  BY <1>2, HeapSteps
<1>4. PICK k \in Nat : heapSize = INIT_HEAP_SIZE + k * HEAP_STEP
  BY <1>2, HeapSteps
<1>5. /\ FramesOK(pmm, vmm, unlocked) /\ TablesOK(pmm, vmm, heapSize, heapTables, unlocked)
      /\ EntriesOK(vmm) /\ DOMAIN vmm = Regions(heapSize, n)
      /\ OldOK(old_vmm, vmm, step) /\ ListOK(mappings, heapSize, n)
  BY <1>1, <1>3 DEF State
<1> HIDE DEF n
<1>6. k - 1 \in Nat /\ h = INIT_HEAP_SIZE + (k - 1) * HEAP_STEP
      /\ h \in Nat /\ h >= INIT_HEAP_SIZE /\ h <= MaxHeapSize
  <2>1. k # 0
    <3>1. 0 * HEAP_STEP = 0
      BY HeapSizeFacts
    <3> QED BY <1>2, <1>4, <3>1, HeapSizeFacts
  <2>2. k - 1 \in Nat
    BY <2>1
  <2>3. (k - 1) * HEAP_STEP = k * HEAP_STEP - HEAP_STEP /\ (k - 1) * HEAP_STEP \in Nat
        /\ k * HEAP_STEP \in Nat
    BY <2>2, HeapSizeFacts
  <2> QED BY <1>3, <1>4, <2>2, <2>3, HeapSizeFacts
<1>7. /\ Regions(heapSize, n)
           = Span(HEAP_START, heapSize) \union (UNION {Region(0, i) : i \in 2 .. n})
      /\ Regions(h, n) = Span(HEAP_START, h) \union (UNION {Region(0, i) : i \in 2 .. n})
      /\ Span(HEAP_START, MaxHeapSize) \intersect (UNION {Region(0, i) : i \in 2 .. n}) = {}
  BY <1>1, <1>3, <1>6, HeapRegion, HeapApart
<1>8. gone \subseteq Span(HEAP_START, MaxHeapSize)
      /\ Span(HEAP_START, heapSize) \ gone = Span(HEAP_START, h)
      /\ gone \intersect Span(HEAP_START, INIT_HEAP_SIZE) = {}
  BY <1>3, <1>6, HeapSizeFacts DEF Span
<1>9. /\ Freed(pmm, mMap, unlocked \union Unlocking, pmm')
      /\ Unlocking \subseteq {i \in BitmapIndices(mMap) : pmm.bitmap[i]}
  BY <1>2, ShrinkFrees
<1> HIDE DEF gone, h
<1>10. /\ DOMAIN vmm' = DOMAIN vmm \ gone
       /\ \A page \in DOMAIN vmm' : page \in DOMAIN vmm /\ vmm'[page] = vmm[page]
  BY <1>2
<1>11. DOMAIN vmm' = Regions(heapSize', n)
  BY <1>2, <1>5, <1>7, <1>8, <1>10
<1>12. /\ EntriesOK(vmm') /\ FramesOK(pmm', vmm', unlocked')
       /\ TablesOK(pmm', vmm', heapSize', heapTables', unlocked')
  <2>1. EntriesOK(vmm')
    BY <1>5, <1>10 DEF EntriesOK
  <2>2. \A page \in OwnRegions \intersect DOMAIN vmm' :
          page \in DOMAIN vmm /\ vmm'[page] = vmm[page]
    BY <1>10
  <2>3. PICK q, new, more : q = pmm' /\ new = vmm' /\ more = Unlocking
    OBVIOUS
  <2>4. FramesOK(q, new, unlocked \union more)
    BY <1>5, <1>9, <2>2, <2>3, FramesFreed
  <2>5. Span(HEAP_START, h) \subseteq Span(HEAP_START, heapSize)
    BY <1>8
  <2>6. TablesOK(q, new, h, heapTables, unlocked \union more)
    BY <1>5, <1>9, <2>2, <2>3, <2>5, TablesFreed
  <2> QED BY <1>2, <2>1, <2>3, <2>4, <2>6
<1>13. OldOK(old_vmm', vmm', step')
  <2>1. \A page \in Span(HEAP_START, INIT_HEAP_SIZE) :
          page \in DOMAIN vmm => page \in DOMAIN vmm' /\ vmm'[page] = vmm[page]
    BY <1>8, <1>10
  <2>2. step \in Nat /\ step <= step
    BY <1>3
  <2> QED BY <1>2, <1>5, <2>1, <2>2, OldStays
<1>14. ListOK(mappings', heapSize', n)
  <2>1. heapSize \in Nat \ {0} /\ heapSize' \in Nat
    BY <1>2, <1>3, <1>6, HeapSizeFacts
  <2>2. /\ HeapMapping = 1 /\ mappings[1] = MappingOf(HEAP_START, heapSize, "ProcessData")
        /\ DOMAIN mappings = 1 .. n
    BY <1>3, <1>5, <2>1, HeapMappingIsFirst
  <2>3. mappings' = [mappings EXCEPT ![1] = MappingOf(HEAP_START, heapSize', "ProcessData")]
    <3>1. [mappings[1] EXCEPT !.size = @ - HEAP_STEP]
            = MappingOf(HEAP_START, heapSize', "ProcessData")
      BY <1>2, <2>2 DEF MappingOf, h
    <3>2. mappings' = [mappings EXCEPT ![1] = [mappings[1] EXCEPT !.size = @ - HEAP_STEP]]
      BY <1>2, <2>2
    <3> QED BY <3>1, <3>2
  <2> QED BY <1>3, <1>5, <2>1, <2>3, ListResized
<1>15. HeapSizeOK(heapSize', step')
  BY <1>2, <1>3, <1>6 DEF HeapSizeOK
<1>16. State(step', pmm', old_vmm', vmm', mappings', heapSize', heapTables', unlocked')
  <2>1. InTables(step') = n /\ InList(step') = n /\ step' \in 0 .. 10
    BY <1>2, <1>3 DEF n
  <2> QED BY <1>11, <1>12, <1>13, <1>14, <1>15, <2>1 DEF State
<1> QED BY <1>1, <1>2, <1>16, StateNext

(* unmap panics, and a stuttering step does nothing.                       *)
LEMMA RestKeeps ==
  ASSUME Inv,
         UNCHANGED <<boot, step, pmm, old_vmm, vmm, mappings, heapSize, heapTables, unlocked>>
  PROVE  Inv'
<1>1. BootOK /\ State(step, pmm, old_vmm, vmm, mappings, heapSize, heapTables, unlocked)
  BY DEF Inv
<1>2. State(step', pmm', old_vmm', vmm', mappings', heapSize', heapTables', unlocked')
  BY <1>1
<1> QED BY <1>1, <1>2, StateNext

(* What the bootloader mapped leads to itself or to the loaded image.      *)
LEMMA BootloaderEntries ==
  ASSUME BootOK
  PROVE  OldOK(BootloaderTables, << >>, 0)
<1> DEFINE identity ==
             DescribedPages
               \union Span(framebuffer.page,
                           (framebuffer.BufferSize + PageSize - 1) \div PageSize)
           first == [page \in identity |->
                       [frame |-> page, flags |-> {"Present", "ReadWrite"}]]
           old == BootloaderTables
<1>1. Maps(first, old, KERNEL_IMAGE_START, LoadedPages, Linear(0, LoadedPages), {"ReadWrite"})
  BY MapRangeEffect DEF BootloaderTables
<1>2. identity \subseteq Nat
  <2>1. DescribedPages \subseteq Nat /\ framebuffer.page \in Nat /\ framebuffer.BufferSize \in Nat
    BY SizesType
  <2> DEFINE up == (framebuffer.BufferSize + PageSize - 1) \div PageSize
             fb == framebuffer.page
  <2>2. up \in Nat /\ fb \in Nat
    BY <2>1, RoundedUp
  <2> HIDE DEF up, fb
  <2>3. Span(fb, up) \subseteq Nat
    BY <2>2 DEF Span
  <2> QED BY <2>1, <2>3 DEF up, fb
<1> HIDE DEF old
<1> SUFFICES ASSUME NEW page \in DOMAIN old
             PROVE  /\ page \in Nat /\ old[page] \in Entries
                    /\ \/ page \in identity /\ old[page].frame = page
                       \/ page \in Span(KERNEL_IMAGE_START, LoadedPages)
                          /\ old[page].frame = page - KERNEL_IMAGE_START
  BY DEF OldOK, old
<1> HIDE DEF identity
<1>3. "Present" \in Flags /\ "ReadWrite" \in Flags
  BY DEF Flags
<1>4. DOMAIN first = identity
      /\ \A p \in identity : first[p] = [frame |-> p, flags |-> {"Present", "ReadWrite"}]
  OBVIOUS
<1> HIDE DEF first
<1>5. CASE page \in Span(KERNEL_IMAGE_START, LoadedPages)
  <2> DEFINE frame == Linear(0, LoadedPages)[page - KERNEL_IMAGE_START]
  <2>1. KERNEL_IMAGE_START \in Nat /\ LoadedPages \in Nat
    BY SizesType, HeapSizeFacts
  <2>2. page \in Nat /\ page - KERNEL_IMAGE_START \in 0 .. LoadedPages - 1
    BY <1>5, <2>1 DEF Span
  <2>3. frame = 0 + (page - KERNEL_IMAGE_START)
    BY <2>2 DEF Linear
  <2>4. frame = page - KERNEL_IMAGE_START /\ frame \in Nat
    BY <2>1, <2>2, <2>3
  <2>5. old[page] = NewEntry(first, page, frame, {"ReadWrite"})
    BY <1>1, <1>5 DEF Maps
  <2> HIDE DEF frame
  <2>6. FlagsOf(first, page) \subseteq Flags
    BY <1>3, <1>4 DEF FlagsOf
  <2>7. old[page] = [frame |-> frame,
                     flags |-> FlagsOf(first, page) \union {"ReadWrite"} \union {"Present"}]
    BY <2>5 DEF NewEntry
  <2>8. old[page] \in Entries /\ old[page].frame = frame
    BY <1>3, <2>4, <2>6, <2>7 DEF Entries
  <2> QED BY <1>5, <2>2, <2>4, <2>8
<1>6. CASE page \notin Span(KERNEL_IMAGE_START, LoadedPages)
  <2>1. page \in DOMAIN first /\ old[page] = first[page]
    BY <1>1, <1>6 DEF Maps
  <2>2. page \in identity /\ page \in Nat
        /\ old[page] = [frame |-> page, flags |-> {"Present", "ReadWrite"}]
    BY <1>2, <1>4, <2>1
  <2> QED BY <1>3, <2>2 DEF Entries
<1> QED BY <1>5, <1>6

LEMMA InitKeeps ==
  ASSUME Init
  PROVE  Inv
<1>1. BootOK /\ step = 0 /\ vmm = << >> /\ mappings = << >> /\ heapSize = 0
      /\ pmm = LockPages(Constructed(mMap, FALSE), 0, kernelSizePages)
      /\ old_vmm = BootloaderTables /\ heapTables = << >> /\ unlocked = {}
  BY DEF Init, BootOK
<1>2. DOMAIN vmm = {}
  BY <1>1
<1>3. HeapSizeOK(heapSize, step)
  BY <1>1, HeapSizeFacts DEF HeapSizeOK
<1>4. DOMAIN vmm = Regions(heapSize, InTables(step)) /\ EntriesOK(vmm)
  BY <1>1, <1>2 DEF Regions, InTables, EntriesOK
<1>5. FramesOK(pmm, vmm, unlocked) /\ TablesOK(pmm, vmm, heapSize, heapTables, unlocked)
  <2>1. mMap \in Seq(Descriptors) /\ MemoryPages(mMap) > 0
    BY <1>1, SizesType DEF memorySize
  <2>2. /\ pmm \in Allocators(mMap) /\ Words(pmm, mMap)
        /\ \A i \in BitmapIndices(mMap) : i \in Span(0, kernelSizePages) => pmm.bitmap[i]
    BY <1>1, <2>1, LockedStart
  <2>3. WordsBut(pmm, mMap, unlocked)
    BY <2>2 DEF Words, WordsBut
  <2>4. DOMAIN heapTables = {} /\ Span(HEAP_START, 0) = {}
    BY <1>1, HeapSizeFacts DEF Span
  <2> QED BY <1>1, <1>2, <2>2, <2>3, <2>4 DEF FramesOK, TablesOK
<1>6. OldOK(old_vmm, vmm, step)
  BY <1>1, BootloaderEntries
<1>7. ListOK(mappings, heapSize, InList(step))
  <2>1. << >> \in Seq(Mappings) /\ Len(<< >>) = 0
    OBVIOUS
  <2>2. InList(step) = 0
    BY <1>1 DEF InList
  <2>3. mappings \in Seq(Mappings) /\ Len(mappings) = 0
    BY <1>1, <2>1
  <2>4. 1 .. 0 = {}
    OBVIOUS
  <2> QED BY <2>2, <2>3, <2>4 DEF ListOK
<1>8. step \in 0 .. 10
  BY <1>1
<1>9. State(step, pmm, old_vmm, vmm, mappings, heapSize, heapTables, unlocked)
  BY <1>3, <1>4, <1>5, <1>6, <1>7, <1>8 DEF State
<1> QED BY <1>1, <1>9 DEF Inv

LEMMA NextKeeps ==
  ASSUME Inv, Next
  PROVE  Inv'
<1>1. CASE InitHeap
  BY <1>1, InitHeapKeeps
<1>2. CASE AddHeapMapping
  BY <1>2, AddHeapMappingKeeps
<1>3. CASE MapKernelCode
  BY <1>3, MapKernelCodeKeeps
<1>4. CASE MapKernelData
  BY <1>4, MapKernelDataKeeps
<1>5. CASE IdentityMapPhysicalMemory
  BY <1>5, IdentityMapPhysicalMemoryKeeps
<1>6. CASE MapFramebuffer
  BY <1>6, MapFramebufferKeeps
<1>7. CASE MapStack
  BY <1>7, MapStackKeeps
<1>8. CASE LoadPLM4
  BY <1>8, LoadPLM4Keeps
<1>9. CASE SetupGDT
  BY <1>9, SetupGDTKeeps
<1>10. CASE SetupIDT
  BY <1>10, SetupIDTKeeps
<1>11. CASE growHeap
  BY <1>11, growHeapKeeps
<1>12. CASE shrinkHeap
  BY <1>12, shrinkHeapKeeps
<1>13. ASSUME NEW i \in DOMAIN mappings, unmap(mappings[i])
       PROVE  Inv'
  BY <1>13, RestKeeps DEF unmap
<1> QED BY <1>1, <1>2, <1>3, <1>4, <1>5, <1>6, <1>7, <1>8, <1>9, <1>10, <1>11, <1>12, <1>13
        DEF Next

(* From the bootloader's tables on, through every statement of the start   *)
(* and whatever the heap grows and shrinks afterwards: tables, list of     *)
(* mappings, size of the heap and allocator agree.                         *)
THEOREM Invariance == Spec => []Inv
<1>1. Init => Inv
  BY InitKeeps
<1>2. Inv /\ [Next]_vars => Inv'
  BY NextKeeps, RestKeeps DEF vars
<1> QED BY <1>1, <1>2, PTL DEF Spec

-------------------------------------------------------------------------------
(* What the runs check follows from it.                                    *)

LEMMA ReachableFromInv ==
  ASSUME Inv
  PROVE  RequestableIsReachable
<1>1. BootOK /\ FramesOK(pmm, vmm, unlocked) /\ memorySize \in Nat
  BY SizesType DEF Inv, State
<1>2. \A k \in Usable(pmm) : PageOf(pmm.stack[k]) < memorySize
  <2> TAKE k \in Usable(pmm)
  <2>1. PageOf(pmm.stack[k]) \in 0 .. memorySize - 1
    BY <1>1 DEF FramesOK, WordsBut, Usable, memorySize
  <2> QED BY <1>1, <2>1
<1>3. \A p \in OwnPages : vmm[p].frame < memorySize
  BY <1>1 DEF FramesOK, OwnPages
<1> QED BY <1>2, <1>3 DEF RequestableIsReachable

LEMMA DisjointFromInv ==
  ASSUME Inv
  PROVE  OwnFramesDisjoint
<1>1. FramesOK(pmm, vmm, unlocked) /\ TablesOK(pmm, vmm, heapSize, heapTables, unlocked)
  BY DEF Inv, State
<1>2. \A p \in OwnPages :
        /\ vmm[p].frame \in BitmapIndices(mMap) /\ ~pmm.bitmap[vmm[p].frame]
        /\ \A q \in OwnPages :
             vmm[q].frame = vmm[p].frame => q = p \/ vmm[p].frame \in unlocked
  BY <1>1 DEF FramesOK, OwnPages
<1>3. \A p \in OwnPages :
        vmm[p].frame \in Span(0, kernelSizePages) => vmm[p].frame \in unlocked
  BY <1>1, <1>2 DEF FramesOK
<1>4. \A p \in OwnPages, table \in DOMAIN heapTables : vmm[p].frame # heapTables[table]
  BY <1>1 DEF TablesOK, OwnPages
<1> QED BY <1>2, <1>3, <1>4 DEF OwnFramesDisjoint

LEMMA TypesFromInv ==
  ASSUME Inv
  PROVE  TypeOK
<1>1. BootOK /\ State(step, pmm, old_vmm, vmm, mappings, heapSize, heapTables, unlocked)
  BY DEF Inv
<1>2. /\ step \in 0 .. Len(BootSteps) /\ heapSize \in 0 .. MaxHeapSize
      /\ pmm \in Allocators(mMap)
  BY <1>1, StatementsDiffer, HeapSizeFacts DEF State, HeapSizeOK, FramesOK
<1>3. \A page \in DOMAIN vmm : page \in Nat /\ vmm[page] \in Entries
  BY <1>1 DEF State, EntriesOK, EntryOK
<1>4. \A page \in DOMAIN old_vmm : page \in Nat /\ old_vmm[page] \in Entries
  BY <1>1 DEF State, OldOK
<1>5. \A i \in DOMAIN mappings : mappings[i].start \in Nat /\ mappings[i].size \in Nat
  <2> TAKE i \in DOMAIN mappings
  <2>1. mappings[i] \in Mappings
    BY <1>1, ElementOfSeq, LenProperties DEF State, ListOK
  <2> QED BY <2>1 DEF Mappings
<1>6. /\ \A table \in DOMAIN heapTables : heapTables[table] \in Nat
      /\ unlocked \subseteq BitmapIndices(mMap)
  <2>1. TablesOK(pmm, vmm, heapSize, heapTables, unlocked) /\ memorySize \in Nat
    BY <1>1, SizesType DEF State
  <2>2. \A frame \in 0 .. memorySize - 1 : frame \in Nat
    BY <2>1
  <2> QED BY <2>1, <2>2 DEF TablesOK
<1> QED BY <1>1, <1>2, <1>3, <1>4, <1>5, <1>6 DEF TypeOK, BootOK

LEMMA TrueMappingsFromInv ==
  ASSUME Inv
  PROVE  MappingsAreTrue
<1> DEFINE n == InList(step)
<1>1. BootOK /\ State(step, pmm, old_vmm, vmm, mappings, heapSize, heapTables, unlocked)
      /\ step \in 0 .. 10 /\ HeapSizeOK(heapSize, step)
  BY DEF Inv, State
<1>2. CASE Done("AddHeapMapping")
  <2>1. step \in 2 .. 10
    BY <1>1, <1>2, DoneAt, Statements, 2 \in 1 .. 10
  <2>2. n \in 1 .. 8 /\ InTables(step) = n
    BY <2>1 DEF InTables, InList
  <2> HIDE DEF n
  <2>3. ListOK(mappings, heapSize, n) /\ DOMAIN vmm = Regions(heapSize, n)
    BY <1>1, <2>2 DEF State, n
  <2>4. heapSize \in Nat \ {0}
    <3>1. PICK k \in Nat : heapSize = INIT_HEAP_SIZE + k * HEAP_STEP
      BY <1>1, <2>1 DEF HeapSizeOK
    <3>2. k * HEAP_STEP \in Nat
      BY HeapSizeFacts
    <3> QED BY <1>1, <3>1, <3>2, HeapSizeFacts
  <2>5. /\ mappings[HeapMapping] = MappingOf(HEAP_START, heapSize, "ProcessData")
        /\ DOMAIN mappings = 1 .. n
    BY <2>2, <2>3, <2>4, HeapMappingIsFirst
  <2>6. \A i \in 1 .. n : Span(mappings[i].start, mappings[i].size) = Region(heapSize, i)
    BY <2>3 DEF ListOK, Region
  <2>7. DOMAIN vmm = UNION {Span(mappings[i].start, mappings[i].size) : i \in DOMAIN mappings}
    BY <2>3, <2>5, <2>6 DEF Regions
  <2> QED BY <2>5, <2>7, TypesFromInv DEF MappingsAreTrue, MappingsMatchTables,
             HeapMappingIsKernelHeap
<1>3. CASE ~Done("AddHeapMapping")
  BY <1>3, TypesFromInv DEF MappingsAreTrue, MappingsMatchTables, HeapMappingIsKernelHeap
<1> QED BY <1>2, <1>3

(* Once the tables are loaded, all of the image and of the identity map is *)
(* in them.                                                                *)
LEMMA LoadedTables ==
  ASSUME Inv, Done("LoadPLM4")
  PROVE  CodePages \union DataPages \union LowPages \subseteq DOMAIN vmm
<1>1. /\ BootOK /\ step \in 8 .. 10 /\ InTables(step) \in 1 .. 8 /\ heapSize \in Nat
      /\ DOMAIN vmm = Regions(heapSize, InTables(step))
  BY HeapSteps DEF Inv, State
<1>2. 2 \in 1 .. InTables(step) /\ 3 \in 1 .. InTables(step)
      /\ 4 \in 1 .. InTables(step) /\ 5 \in 1 .. InTables(step)
  BY <1>1 DEF InTables
<1>3. /\ Region(heapSize, 2) \subseteq DOMAIN vmm /\ Region(heapSize, 3) \subseteq DOMAIN vmm
      /\ Region(heapSize, 4) \subseteq DOMAIN vmm /\ Region(heapSize, 5) \subseteq DOMAIN vmm
  BY <1>1, <1>2 DEF Regions
<1> QED BY <1>1, <1>3, RegionPages DEF LowPages

LEMMA ProtectedFromInv ==
  ASSUME Inv
  PROVE  ImageIsProtected
<1> DEFINE up == (image.ro + PageSize - 1) \div PageSize
<1>1. BootOK /\ EntriesOK(vmm)
  BY DEF Inv, State
<1>2. /\ up \in Nat /\ image.ro \div PageSize <= up /\ up <= image.ro \div PageSize + 1
      /\ (up = image.ro \div PageSize => image.ro % PageSize = 0)
      /\ image.ro \div PageSize \in Nat
      /\ kernelROSizePages = image.ro \div PageSize + 1
  BY <1>1, SizesType, RoundedUp, DivFacts DEF kernelROSizePages
<1>3. KERNEL_IMAGE_START \in Nat /\ kernelSizePages \in Nat /\ kernelROSizePages <= kernelSizePages
      /\ LoadedPages \in Nat /\ LoadedPages <= kernelSizePages
  BY <1>1, SizesType, HeapSizeFacts
<1> DEFINE q == image.ro \div PageSize
<1> HIDE DEF up, q
<1>4. up \in Nat /\ q \in Nat /\ q <= up /\ up <= q + 1 /\ kernelROSizePages = q + 1
      /\ (up = q => image.ro % PageSize = 0)
  BY <1>2 DEF q
<1>5. CodeIsReadOnly
  <2>1. Span(KERNEL_IMAGE_START, up) \subseteq CodePages
    BY <1>3, <1>4 DEF CodePages, Span
  <2>2. "ReadWrite" \notin KernelFlags \union {"Present"}
    BY DEF KernelFlags
  <2>3. \A page \in DOMAIN vmm : page \in CodePages =>
          vmm[page].flags = KernelFlags \union {"Present"}
    BY <1>1 DEF EntriesOK, EntryOK
  <2> QED BY <2>1, <2>2, <2>3 DEF CodeIsReadOnly, up
<1>6. DataIsWritable
  <2> DEFINE data == KERNEL_IMAGE_START + up
  <2> SUFFICES ASSUME Done("LoadPLM4"),
                      NEW page \in data .. KERNEL_IMAGE_START + LoadedPages - 1
               PROVE  "ReadWrite" \in FlagsOf(vmm, page) \/ (page = data /\ image.ro % PageSize = 0)
    BY DEF DataIsWritable, up
  <2>1. CASE page >= KERNEL_IMAGE_START + kernelROSizePages
    <3>1. page \in DataPages
      BY <1>3, <1>4, <2>1 DEF DataPages, Span
    <3>2. page \in DOMAIN vmm
      BY <3>1, LoadedTables
    <3> QED BY <1>1, <3>1, <3>2 DEF EntriesOK, EntryOK, FlagsOf
  <2>2. CASE page < KERNEL_IMAGE_START + kernelROSizePages
    <3>1. page = data /\ up = q
      BY <1>3, <1>4, <2>2
    <3> QED BY <1>4, <3>1
  <2> QED BY <1>3, <1>4, <2>1, <2>2
<1> QED BY <1>5, <1>6 DEF ImageIsProtected

LEMMA SwitchFromInv ==
  ASSUME Inv
  PROVE  SwitchKeepsTranslations
<1> SUFFICES ASSUME Done("LoadPLM4"), NEW page \in DOMAIN old_vmm
             PROVE  \/ page \in DOMAIN vmm /\ vmm[page].frame = old_vmm[page].frame
                    \/ page \in DescribedPages /\ page >= memorySize
                    \/ page = framebuffer.page + framebuffer.BufferSize \div PageSize
  BY DEF SwitchKeepsTranslations
<1> DEFINE old == old_vmm[page]
           fb == framebuffer.page
           up == (framebuffer.BufferSize + PageSize - 1) \div PageSize
           down == framebuffer.BufferSize \div PageSize
<1>1. BootOK /\ EntriesOK(vmm) /\ OldOK(old_vmm, vmm, step)
  BY DEF Inv, State
<1>2. CodePages \union DataPages \union LowPages \subseteq DOMAIN vmm
  BY LoadedTables
<1>3. /\ fb \in Nat /\ down \in Nat /\ up \in Nat /\ up <= down + 1 /\ memorySize \in Nat
      /\ LoadedPages \in Nat /\ LoadedPages <= kernelSizePages /\ kernelSizePages \in Nat
      /\ KERNEL_IMAGE_START \in Nat
  BY <1>1, SizesType, RoundedUp, HeapSizeFacts
<1>4. /\ page \in Nat
      /\ \/ page \in DescribedPages /\ old.frame = page
         \/ page \in Span(fb, up) /\ old.frame = page
         \/ page \in Span(KERNEL_IMAGE_START, LoadedPages)
            /\ old.frame = page - KERNEL_IMAGE_START
         \/ page \in DOMAIN vmm /\ old.frame = vmm[page].frame
  BY <1>1 DEF OldOK
<1>5. LowPages = Span(0, memorySize) \union Span(fb, down)
  BY DEF LowPages, FramebufferPages
<1> HIDE DEF old, fb, up, down
<1>6. \A p \in LowPages : p \in DOMAIN vmm /\ vmm[p].frame = p
  BY <1>1, <1>2 DEF EntriesOK, EntryOK
<1>7. CASE page \in DescribedPages /\ old.frame = page
  <2>1. page < memorySize => page \in LowPages
    BY <1>3, <1>4, <1>5 DEF Span
  <2> QED BY <1>3, <1>4, <1>6, <1>7, <2>1 DEF old
<1>8. CASE page \in Span(fb, up) /\ old.frame = page
  <2>1. page = fb + down \/ page \in LowPages
    BY <1>3, <1>5, <1>8 DEF Span
  <2> QED BY <1>6, <1>8, <2>1 DEF old, fb, down
<1>9. CASE page \in Span(KERNEL_IMAGE_START, LoadedPages)
           /\ old.frame = page - KERNEL_IMAGE_START
  <2>1. page \in CodePages \union DataPages
    <3>1. page \in Span(KERNEL_IMAGE_START, kernelSizePages)
      BY <1>3, <1>9 DEF Span
    <3> QED BY <1>1, <3>1, Layout
  <2>2. page \in DOMAIN vmm
    BY <1>2, <2>1
  <2>3. EntryOK(vmm[page], page)
    BY <1>1, <2>2 DEF EntriesOK
  <2>4. vmm[page].frame = page - KERNEL_IMAGE_START
    BY <2>1, <2>3 DEF EntryOK
  <2> QED BY <1>9, <2>2, <2>4 DEF old
<1> QED BY <1>4, <1>7, <1>8, <1>9 DEF old

(* The code that loads CR3 runs on: what the bootloader's tables reached   *)
(* is where it was, for any memory map, image and framebuffer, except for  *)
(* what SwitchKeepsTranslations names.                                     *)
THEOREM SwitchKeepsAll == Spec => []SwitchKeepsTranslations
<1>1. Inv => SwitchKeepsTranslations
  BY SwitchFromInv
<1> QED BY <1>1, Invariance, PTL

(* .text and .rodata are never writable, .data and .bss are (_start.cpp).  *)
THEOREM ImageStaysProtected == Spec => []ImageIsProtected
<1>1. Inv => ImageIsProtected
  BY ProtectedFromInv
<1> QED BY <1>1, Invariance, PTL

(* The list of mappings tells what is mapped, and growHeap and shrinkHeap  *)
(* find the Mapping of the heap in it.                                     *)
THEOREM MappingsStayTrue == Spec => []MappingsAreTrue
<1>1. Inv => MappingsAreTrue
  BY TrueMappingsFromInv
<1> QED BY <1>1, Invariance, PTL

(* Heap, stack, GDT and IDT share no frame, neither with each other nor    *)
(* with the image, whatever was grown, shrunk and grown again, unless      *)
(* UnmapMemory unlocked it while the heap was shrunk; and none of them is  *)
(* that of a table of the heap.                                            *)
THEOREM OwnFramesStayDisjoint == Spec => []OwnFramesDisjoint
<1>1. Inv => OwnFramesDisjoint
  BY DisjointFromInv
<1> QED BY <1>1, Invariance, PTL

(* Whatever RequestPage hands out is in the identity map.                  *)
THEOREM RequestsStayReachable == Spec => []RequestableIsReachable
<1>1. Inv => RequestableIsReachable
  BY ReachableFromInv
<1> QED BY <1>1, Invariance, PTL

-------------------------------------------------------------------------------
(* The bootloader.  Pages of the kernel's segments and their indices.      *)
EntryIndices == 0 .. Radix - 1

PageNumbers(k) == 0 .. PageCount(k) - 1

VPage(k, n) == Segments[k].p_vaddr + n

VPages == UNION {{VPage(k, n) : n \in PageNumbers(k)} : k \in DOMAIN Segments}

LEMMA SegmentType ==
  ASSUME NEW k \in DOMAIN Segments
  PROVE  /\ Segments[k].p_paddr \in Nat /\ Segments[k].p_vaddr \in Nat
         /\ Segments[k].p_memsz \in Nat \ {0}
         /\ DOMAIN Segments = 1 .. Len(Segments) /\ Len(Segments) \in Nat \ {0} /\ k \in Nat
<1>1. Segments \in Seq([p_paddr : Nat, p_vaddr : Nat, p_memsz : Nat \ {0}])
  BY SegmentsAssumption
<1>2. DOMAIN Segments = 1 .. Len(Segments) /\ Len(Segments) \in Nat
  BY <1>1
<1>3. k \in 1 .. Len(Segments)
  BY <1>2
<1>4. Segments[k] \in [p_paddr : Nat, p_vaddr : Nat, p_memsz : Nat \ {0}]
  BY <1>1, <1>3, ElementOfSeq
<1> QED
  BY <1>2, <1>3, <1>4

(* Every byte of a segment is on one of its pages, and there is one.       *)
LEMMA PageCountType ==
  ASSUME NEW k \in DOMAIN Segments
  PROVE  /\ PageCount(k) \in Nat \ {0}
         /\ \A byte \in 0 .. Segments[k].p_memsz - 1 : byte \div PageBytes \in PageNumbers(k)
<1> DEFINE B == PageBytes
           s == Segments[k].p_memsz
           c == PageCount(k)
<1>1. B \in Nat \ {0} /\ s \in Nat \ {0} /\ c = (s + B - 1) \div B
  BY FirmwareAssumption, SegmentType DEF PageCount
<1> HIDE DEF B, s, c
<1>2. c \in Int /\ s + B - 1 \in Nat
  BY <1>1
<1>3. /\ s + B - 1 = B * c + ((s + B - 1) % B)
      /\ ((s + B - 1) % B) \in 0 .. B - 1
  BY <1>1, <1>2
<1>4. s <= B * c
  BY <1>1, <1>2, <1>3
<1>5. c > 0
  <2>1. SUFFICES ASSUME c <= 0 PROVE FALSE
    BY <1>2
  <2>2. B * c <= 0
    BY <1>1, <1>2, <2>1
  <2> QED
    BY <1>1, <1>4, <2>2, <1>2
<1>6. ASSUME NEW byte \in 0 .. s - 1 PROVE byte \div B \in 0 .. c - 1
  <2> DEFINE q == byte \div B
  <2>1. q \in Nat /\ byte = B * q + (byte % B) /\ (byte % B) \in 0 .. B - 1
    BY <1>1
  <2> HIDE DEF q
  <2>2. B * q < B * c
    BY <1>1, <1>2, <1>4, <2>1
  <2>3. q < c
    <3>1. SUFFICES ASSUME q >= c PROVE FALSE
      BY <1>2, <2>1
    <3>2. B * q >= B * c
      BY <1>1, <1>2, <2>1, <3>1
    <3> QED
      BY <1>1, <1>2, <2>1, <2>2, <3>2
  <2> QED
    BY <1>2, <2>1, <2>3 DEF q
<1> QED
  BY <1>2, <1>5, <1>6 DEF B, s, c, PageNumbers

LEMMA VPagesType ==
  /\ VPages \subseteq Nat
  /\ \A v \in VPages : v < Radix * (Radix * (Radix * Radix)) /\ getIndizes(v)[1] # 0
  /\ \A k \in DOMAIN Segments : \A n \in PageNumbers(k) : VPage(k, n) \in VPages
<1>1. ASSUME NEW v \in VPages
      PROVE  v \in Nat /\ v < Radix * (Radix * (Radix * Radix)) /\ getIndizes(v)[1] # 0
  <2>1. PICK k \in DOMAIN Segments : v \in {VPage(k, n) : n \in PageNumbers(k)}
    BY DEF VPages
  <2>2. PICK n \in PageNumbers(k) : v = VPage(k, n)
    BY <2>1
  <2>3. n \in 0 .. PageCount(k) - 1 /\ n \in Nat
    BY PageCountType DEF PageNumbers
  <2> QED
    BY <2>2, <2>3, SegmentsAssumption, SegmentType DEF VPage
<1>2. ASSUME NEW k \in DOMAIN Segments, NEW n \in PageNumbers(k) PROVE VPage(k, n) \in VPages
  BY DEF VPages
<1> QED
  BY <1>1, <1>2

LEMMA EachPageOnce ==
  ASSUME NEW k \in DOMAIN Segments, NEW n \in PageNumbers(k),
         NEW l \in DOMAIN Segments, NEW m \in PageNumbers(l), VPage(l, m) = VPage(k, n)
  PROVE  l = k /\ m = n
<1> QED
  BY SegmentsAssumption DEF VPage, PageNumbers

LEMMA ShiftMask ==
  ASSUME NEW a \in Nat
  PROVE  /\ a \div Radix \in Nat /\ (a % Radix) \in EntryIndices
         /\ a = Radix * (a \div Radix) + (a % Radix)
<1> DEFINE R == Radix
<1>1. R \in Nat /\ R > 0
  BY FirmwareAssumption
<1> HIDE DEF R
<1>2. /\ a \div R \in Nat /\ (a % R) \in 0 .. R - 1
      /\ a = R * (a \div R) + (a % R)
  BY <1>1
<1> QED
  BY <1>2 DEF R, EntryIndices

LEMMA ShiftSmaller ==
  ASSUME NEW a \in Nat, NEW b \in Nat, a < Radix * b
  PROVE  a \div Radix < b
<1> DEFINE q == a \div Radix
<1>1. q \in Nat /\ (a % Radix) \in Nat /\ a = Radix * q + (a % Radix)
  BY ShiftMask, FirmwareAssumption DEF EntryIndices
<1>2. Radix \in Nat /\ Radix > 0
  BY FirmwareAssumption
<1> HIDE DEF q
<1>3. SUFFICES ASSUME q >= b PROVE FALSE
  BY <1>1 DEF q
<1>4. Radix * q >= Radix * b
  BY <1>1, <1>2, <1>3
<1>5. Radix * q \in Nat /\ Radix * b \in Nat
  BY <1>1, <1>2
<1> QED
  BY <1>1, <1>4, <1>5

LEMMA IndizesType ==
  ASSUME NEW v \in VPages
  PROVE  \A l \in 1 .. 4 : getIndizes(v)[l] \in EntryIndices
<1> DEFINE a == v \div Radix
           b == a \div Radix
           c == b \div Radix
<1>1. v \in Nat /\ a \in Nat /\ b \in Nat /\ c \in Nat
  BY ShiftMask, VPagesType
<1>2. /\ (v % Radix) \in EntryIndices /\ (a % Radix) \in EntryIndices
      /\ (b % Radix) \in EntryIndices /\ (c % Radix) \in EntryIndices
  BY <1>1, ShiftMask
<1>3. getIndizes(v) = <<c % Radix, b % Radix, a % Radix, v % Radix>>
  BY DEF getIndizes
<1> HIDE DEF a, b, c
<1> DEFINE g == <<c % Radix, b % Radix, a % Radix, v % Radix>>
<1>4. /\ g[1] = (c % Radix) /\ g[2] = (b % Radix)
      /\ g[3] = (a % Radix) /\ g[4] = (v % Radix)
  OBVIOUS
<1>5. \A l \in 1 .. 4 : l = 1 \/ l = 2 \/ l = 3 \/ l = 4
  OBVIOUS
<1> QED
  BY <1>2, <1>3, <1>4, <1>5

(* Pages have the same indices down to, but without, a level.              *)
Agree(v, w, level) == \A l \in 1 .. level - 1 : getIndizes(v)[l] = getIndizes(w)[l]

LEMMA IndizesDiffer ==
  ASSUME NEW v \in VPages, NEW w \in VPages, Agree(v, w, 5)
  PROVE  v = w
<1> DEFINE a(x) == x \div Radix
           b(x) == a(x) \div Radix
           c(x) == b(x) \div Radix
<1>1. \A x \in VPages : x \in Nat /\ a(x) \in Nat /\ b(x) \in Nat /\ c(x) \in Nat
  BY ShiftMask, VPagesType
<1>2. \A x \in VPages : c(x) < Radix
  <2> SUFFICES ASSUME NEW x \in VPages PROVE c(x) < Radix
    OBVIOUS
  <2>1. Radix \in Nat /\ Radix * Radix \in Nat /\ Radix * (Radix * Radix) \in Nat
    BY FirmwareAssumption
  <2>2. x \in Nat /\ x < Radix * (Radix * (Radix * Radix))
    BY VPagesType
  <2>3. a(x) < Radix * (Radix * Radix)
    BY <2>1, <2>2, ShiftSmaller
  <2>4. b(x) < Radix * Radix
    BY <1>1, <2>1, <2>3, ShiftSmaller
  <2> QED
    BY <1>1, <2>1, <2>4, ShiftSmaller
<1>3. \A x \in VPages : getIndizes(x) = <<c(x) % Radix, b(x) % Radix, a(x) % Radix, x % Radix>>
  BY DEF getIndizes
<1>4. \A x, y \in Nat : x \div Radix = y \div Radix /\ (x % Radix) = (y % Radix) => x = y
  <2> TAKE x, y \in Nat
  <2>1. x = Radix * (x \div Radix) + (x % Radix) /\ y = Radix * (y \div Radix) + (y % Radix)
    BY ShiftMask
  <2> QED
    BY <2>1
<1>5. \A x \in Nat : x < Radix => (x % Radix) = x
  BY FirmwareAssumption
<1>6. 1 \in 1 .. 5 - 1 /\ 2 \in 1 .. 5 - 1 /\ 3 \in 1 .. 5 - 1 /\ 4 \in 1 .. 5 - 1
  OBVIOUS
<1>7. /\ getIndizes(v)[1] = getIndizes(w)[1] /\ getIndizes(v)[2] = getIndizes(w)[2]
      /\ getIndizes(v)[3] = getIndizes(w)[3] /\ getIndizes(v)[4] = getIndizes(w)[4]
  BY <1>6 DEF Agree
<1>8. /\ (c(v) % Radix) = (c(w) % Radix) /\ (b(v) % Radix) = (b(w) % Radix)
      /\ (a(v) % Radix) = (a(w) % Radix) /\ (v % Radix) = (w % Radix)
  BY <1>3, <1>7
<1>9. c(v) = c(w)
  BY <1>1, <1>2, <1>5, <1>8
<1>10. b(v) = b(w)
  BY <1>1, <1>4, <1>8, <1>9
<1>11. a(v) = a(w)
  BY <1>1, <1>4, <1>8, <1>10
<1> QED
  BY <1>1, <1>4, <1>8, <1>11
-------------------------------------------------------------------------------
(* Paths.                                                                  *)
LEMMA PathSteps ==
  ASSUME NEW T, NEW root, NEW v
  PROVE  /\ Path(T, root, v)[1] = root
         /\ \A l \in 1 .. 4 :
              Path(T, root, v)[l + 1] = Lead(T, Path(T, root, v)[l], getIndizes(v)[l])
<1> DEFINE index == getIndizes(v)
           pdp == Lead(T, root, index[1])
           pd == Lead(T, pdp, index[2])
           pt == Lead(T, pd, index[3])
           e == Lead(T, pt, index[4])
           s == <<root, pdp, pd, pt, e>>
<1>1. Path(T, root, v) = s
  BY DEF Path
<1>2. /\ s[1] = root /\ s[2] = Lead(T, s[1], index[1]) /\ s[3] = Lead(T, s[2], index[2])
      /\ s[4] = Lead(T, s[3], index[3]) /\ s[5] = Lead(T, s[4], index[4])
  OBVIOUS
<1>3. \A l \in 1 .. 4 : l = 1 \/ l = 2 \/ l = 3 \/ l = 4
  OBVIOUS
<1>4. 1 + 1 = 2 /\ 2 + 1 = 3 /\ 3 + 1 = 4 /\ 4 + 1 = 5
  OBVIOUS
<1> HIDE DEF s, index
<1>5. \A l \in 1 .. 4 : s[l + 1] = Lead(T, s[l], index[l])
  BY <1>2, <1>3, <1>4
<1> QED
  BY <1>1, <1>2, <1>5 DEF index

(* What holds of all five levels if it holds of the first, and of each     *)
(* other one if it holds of the one before.                                *)
LEMMA DownTheLevels ==
  ASSUME NEW S, 1 \in S, \A l \in 1 .. 4 : l \in S => l + 1 \in S
  PROVE  \A l \in 1 .. 5 : l \in S
<1>1. 1 \in 1 .. 4 /\ 2 \in 1 .. 4 /\ 3 \in 1 .. 4 /\ 4 \in 1 .. 4
  OBVIOUS
<1>2. 1 + 1 = 2 /\ 2 + 1 = 3 /\ 3 + 1 = 4 /\ 4 + 1 = 5
  OBVIOUS
<1>3. 2 \in S
  BY <1>1, <1>2
<1>4. 3 \in S
  BY <1>1, <1>2, <1>3
<1>5. 4 \in S
  BY <1>1, <1>2, <1>4
<1>6. 5 \in S
  BY <1>1, <1>2, <1>5
<1>7. \A l \in 1 .. 5 : l = 1 \/ l = 2 \/ l = 3 \/ l = 4 \/ l = 5
  OBVIOUS
<1> QED
  BY <1>3, <1>4, <1>5, <1>6, <1>7

LEMMA AgreeSteps ==
  ASSUME NEW v, NEW w
  PROVE  /\ Agree(v, w, 1)
         /\ \A l \in 1 .. 4 :
              Agree(v, w, l + 1) <=> Agree(v, w, l) /\ getIndizes(v)[l] = getIndizes(w)[l]
<1>1. Agree(v, w, 1)
  BY DEF Agree
<1>2. ASSUME NEW l \in 1 .. 4
      PROVE  Agree(v, w, l + 1) <=> Agree(v, w, l) /\ getIndizes(v)[l] = getIndizes(w)[l]
  <2>1. 1 .. (l + 1) - 1 = (1 .. l - 1) \union {l}
    OBVIOUS
  <2> QED
    BY <2>1 DEF Agree
<1> QED
  BY <1>1, <1>2

LEMMA AgreeingPaths ==
  ASSUME NEW T, NEW root, NEW v, NEW w
  PROVE  \A l \in 1 .. 5 : Agree(v, w, l) => Path(T, root, v)[l] = Path(T, root, w)[l]
<1> DEFINE S == {l \in 1 .. 5 : Agree(v, w, l) => Path(T, root, v)[l] = Path(T, root, w)[l]}
<1>1. 1 \in S
  BY PathSteps
<1>2. ASSUME NEW l \in 1 .. 4, l \in S PROVE l + 1 \in S
  <2>1. l + 1 \in 1 .. 5
    OBVIOUS
  <2>2. SUFFICES ASSUME Agree(v, w, l + 1)
                 PROVE  Path(T, root, v)[l + 1] = Path(T, root, w)[l + 1]
    BY <2>1
  <2>3. Agree(v, w, l) /\ getIndizes(v)[l] = getIndizes(w)[l]
    BY <2>2, AgreeSteps
  <2>4. Path(T, root, v)[l] = Path(T, root, w)[l]
    BY <1>2, <2>3
  <2> QED
    BY <2>3, <2>4, PathSteps
<1> HIDE DEF S
<1>3. \A l \in 1 .. 5 : l \in S
  BY <1>1, <1>2, DownTheLevels
<1> QED
  BY <1>3 DEF S

(* The paths to the kernel's pages stay inside of a set of tables, and no  *)
(* two of them reach a table but by the same indices.                      *)
Inside(T, root, own) ==
  /\ root \in own /\ root # Zero
  /\ \A v \in VPages : \A l \in 1 .. 4 :
       Path(T, root, v)[l] = Zero \/ Path(T, root, v)[l] \in own

Apart(T, root) ==
  \A v, w \in VPages : \A l, m \in 1 .. 4 :
    /\ Path(T, root, v)[l] # Zero
    /\ Path(T, root, v)[l] = Path(T, root, w)[m]
    => l = m /\ Agree(v, w, l)

(* A table for each level.                                                 *)
Apiece(way) == \A l, m \in 1 .. 4 : way[l] = way[m] => l = m

(* The path to a page, and new tables of their own where it ends early.    *)
Way(T, root, way, w) ==
  /\ \A l \in 1 .. 4 :
       \/ Path(T, root, w)[l] # Zero /\ way[l] = Path(T, root, w)[l]
       \/ Path(T, root, w)[l] = Zero /\ way[l] # Zero /\ way[l] \notin DOMAIN T
  /\ Apiece(way)

(* What is at index n of each table afterwards.                            *)
Enters(T, E, way, w, n) ==
  /\ \A l \in 1 .. 4 :
       E[way[l]][n] = IF getIndizes(w)[l] = n THEN way[l + 1]
                      ELSE IF way[l] \in DOMAIN T THEN T[way[l]][n] ELSE Zero
  /\ \A f \in DOMAIN T : (\A l \in 1 .. 4 : way[l] # f) => E[f][n] = T[f][n]

LEMMA EnteredEntries ==
  ASSUME NEW T, NEW way, NEW w, NEW n \in EntryIndices, Apiece(way)
  PROVE  Enters(T, Entered(T, way, w), way, w, n)
<1> DEFINE index == getIndizes(w)
           at(f, i) == {level \in 1 .. 4 : way[level] = f /\ index[level] = i}
           entry(f, i) == IF at(f, i) # {} THEN way[1 + CHOOSE level \in at(f, i) : TRUE]
                          ELSE IF f \in DOMAIN T THEN T[f][i] ELSE Zero
           frames == DOMAIN T \union {way[level] : level \in 1 .. 4}
<1>1. Entered(T, way, w) = [f \in frames |-> [i \in EntryIndices |-> entry(f, i)]]
  BY DEF Entered, EntryIndices
<1>2. \A f \in frames : Entered(T, way, w)[f][n] = entry(f, n)
  BY <1>1
<1>0. \A l, m \in 1 .. 4 : way[l] = way[m] => l = m
  BY DEF Apiece
<1>3. ASSUME NEW l \in 1 .. 4
      PROVE  Entered(T, way, w)[way[l]][n] =
               IF index[l] = n THEN way[l + 1]
               ELSE IF way[l] \in DOMAIN T THEN T[way[l]][n] ELSE Zero
  <2>1. way[l] \in frames
    OBVIOUS
  <2>2. CASE index[l] = n
    <3>1. at(way[l], n) = {l}
      BY <1>0, <2>2
    <3>2. (CHOOSE level \in {l} : TRUE) = l
      OBVIOUS
    <3>3. entry(way[l], n) = way[1 + l]
      BY <3>1, <3>2
    <3>4. 1 + l = l + 1
      OBVIOUS
    <3> QED
      BY <1>2, <2>1, <2>2, <3>3, <3>4
  <2>3. CASE index[l] # n
    <3>1. at(way[l], n) = {}
      BY <1>0, <2>3
    <3> QED
      BY <1>2, <2>1, <2>3, <3>1
  <2> QED
    BY <2>2, <2>3
<1>4. ASSUME NEW f \in DOMAIN T, \A l \in 1 .. 4 : way[l] # f
      PROVE  Entered(T, way, w)[f][n] = T[f][n]
  <2>1. at(f, n) = {}
    BY <1>4
  <2> QED
    BY <1>2, <2>1
<1> QED
  BY <1>3, <1>4 DEF Enters

(* Entering a page changes the paths of the others only by the tables that *)
(* are new, as far as their indices agree.                                 *)
LEMMA EnteredPaths ==
  ASSUME NEW T, NEW root, NEW own, own \subseteq DOMAIN T, Inside(T, root, own), Apart(T, root),
         NEW w \in VPages, NEW way, Way(T, root, way, w), NEW v \in VPages
  PROVE  \A l \in 1 .. 5 : Path(Entered(T, way, w), root, v)[l] =
           IF Agree(v, w, l) THEN way[l] ELSE Path(T, root, v)[l]
<1> DEFINE E == Entered(T, way, w)
           P(l) == Path(T, root, v)[l]
           Q(l) == Path(T, root, w)[l]
           N(l) == Path(E, root, v)[l]
           i(l) == getIndizes(v)[l]
           S == {l \in 1 .. 5 : N(l) = IF Agree(v, w, l) THEN way[l] ELSE P(l)}
<1>1. Apiece(way)
  BY DEF Way
<1>2. \A l \in 1 .. 4 : way[l] # Zero
  BY DEF Way
<1>3. 1 \in S
  <2>1. Q(1) = root /\ N(1) = root
    BY PathSteps
  <2>2. root # Zero
    BY DEF Inside
  <2>3. 1 \in 1 .. 4
    OBVIOUS
  <2>4. way[1] = root
    BY <2>1, <2>2, <2>3 DEF Way
  <2> QED
    BY <2>1, <2>4, AgreeSteps
<1>4. ASSUME NEW l \in 1 .. 4, l \in S PROVE l + 1 \in S
  <2>1. l + 1 \in 1 .. 5 /\ l \in 1 .. 5
    OBVIOUS
  <2>2. N(l) = IF Agree(v, w, l) THEN way[l] ELSE P(l)
    BY <1>4
  <2>3. i(l) \in EntryIndices
    BY IndizesType
  <2>4. N(l + 1) = Lead(E, N(l), i(l)) /\ P(l + 1) = Lead(T, P(l), i(l))
    BY PathSteps
  <2>5. Agree(v, w, l + 1) <=> Agree(v, w, l) /\ getIndizes(v)[l] = getIndizes(w)[l]
    BY AgreeSteps
  <2>6. Agree(v, w, l) => P(l) = Q(l)
    BY <2>1, AgreeingPaths
  <2>7. /\ E[way[l]][i(l)] = IF getIndizes(w)[l] = i(l) THEN way[l + 1]
                             ELSE IF way[l] \in DOMAIN T THEN T[way[l]][i(l)] ELSE Zero
        /\ \A f \in DOMAIN T : (\A m \in 1 .. 4 : way[m] # f) => E[f][i(l)] = T[f][i(l)]
    <3>1. Enters(T, E, way, w, i(l))
      BY <1>1, <2>3, EnteredEntries
    <3> HIDE DEF E, i
    <3> QED
      BY <3>1 DEF Enters
  <2>8. \/ Q(l) # Zero /\ way[l] = Q(l) /\ Q(l) \in DOMAIN T
        \/ Q(l) = Zero /\ way[l] # Zero /\ way[l] \notin DOMAIN T
    BY DEF Way, Inside
  <2> HIDE DEF E, P, Q, N, i
  <2>9. N(l + 1) = IF Agree(v, w, l + 1) THEN way[l + 1] ELSE P(l + 1)
    <3>1. CASE Agree(v, w, l)
      <4>1. N(l) = way[l] /\ way[l] # Zero /\ N(l + 1) = E[way[l]][i(l)]
        BY <1>2, <2>2, <2>4, <3>1 DEF Lead
      <4>2. CASE getIndizes(w)[l] = i(l)
        BY <2>5, <2>7, <3>1, <4>1, <4>2 DEF i
      <4>3. CASE getIndizes(w)[l] # i(l)
        <5>1. ~Agree(v, w, l + 1)
          BY <2>5, <4>3 DEF i
        <5>2. N(l + 1) = IF way[l] \in DOMAIN T THEN T[way[l]][i(l)] ELSE Zero
          BY <2>7, <4>1, <4>3
        <5>3. P(l + 1) = IF way[l] \in DOMAIN T THEN T[way[l]][i(l)] ELSE Zero
          BY <2>4, <2>6, <2>8, <3>1 DEF Lead
        <5> QED
          BY <5>1, <5>2, <5>3
      <4> QED
        BY <4>2, <4>3
    <3>2. CASE ~Agree(v, w, l)
      <4>1. ~Agree(v, w, l + 1) /\ N(l) = P(l)
        BY <2>2, <2>5, <3>2
      <4>2. CASE P(l) = Zero
        BY <2>4, <4>1, <4>2 DEF Lead
      <4>3. CASE P(l) # Zero
        <5>1. P(l) \in DOMAIN T
          BY <4>3 DEF Inside, P
        <5>2. \A m \in 1 .. 4 : way[m] # P(l)
          <6> SUFFICES ASSUME NEW m \in 1 .. 4, way[m] = P(l) PROVE FALSE
            OBVIOUS
          <6>1. Q(m) = P(l)
            BY <5>1 DEF Way, Q
          <6>2. Agree(v, w, l)
            BY <4>3, <6>1 DEF Apart, P, Q
          <6> QED
            BY <3>2, <6>2
        <5> QED
          BY <2>4, <2>7, <4>1, <4>3, <5>1, <5>2 DEF Lead
      <4> QED
        BY <4>2, <4>3
    <3> QED
      BY <3>1, <3>2
  <2> QED
    BY <2>1, <2>9
<1> HIDE DEF S
<1>5. \A l \in 1 .. 5 : l \in S
  BY <1>3, <1>4, DownTheLevels
<1> QED
  BY <1>5 DEF S

LEMMA AgreeSymmetric ==
  ASSUME NEW u, NEW v, NEW w, NEW l
  PROVE  /\ Agree(v, w, l) /\ Agree(u, w, l) => Agree(v, u, l)
         /\ Agree(v, w, l) /\ Agree(v, u, l) => Agree(u, w, l)
<1> QED
  BY DEF Agree

LEMMA EnteredApart ==
  ASSUME NEW T, NEW root, NEW own, own \subseteq DOMAIN T, Inside(T, root, own), Apart(T, root),
         NEW w \in VPages, NEW way, Way(T, root, way, w)
  PROVE  /\ Inside(Entered(T, way, w), root, own \union {way[l] : l \in 1 .. 4})
         /\ Apart(Entered(T, way, w), root)
         /\ Path(Entered(T, way, w), root, w)[5] = way[5]
         /\ \A v \in VPages : v # w =>
              Path(Entered(T, way, w), root, v)[5] = Path(T, root, v)[5]
<1> DEFINE E == Entered(T, way, w)
           P(v, l) == Path(T, root, v)[l]
           N(v, l) == Path(E, root, v)[l]
<1>1. \A v \in VPages : \A l \in 1 .. 5 :
        N(v, l) = IF Agree(v, w, l) THEN way[l] ELSE P(v, l)
  BY EnteredPaths
<1>2. \A l \in 1 .. 4 : l \in 1 .. 5
  OBVIOUS
<1>3. root \in own /\ root # Zero
      /\ \A v \in VPages : \A l \in 1 .. 4 : P(v, l) = Zero \/ P(v, l) \in own
  BY DEF Inside
<1>4. \A l \in 1 .. 4 : \/ P(w, l) # Zero /\ way[l] = P(w, l)
                        \/ P(w, l) = Zero /\ way[l] # Zero /\ way[l] \notin DOMAIN T
  BY DEF Way
<1>5. \A l, m \in 1 .. 4 : way[l] = way[m] => l = m
  BY DEF Way, Apiece
<1>6. \A v, u \in VPages : \A l, m \in 1 .. 4 :
        P(v, l) # Zero /\ P(v, l) = P(u, m) => l = m /\ Agree(v, u, l)
  BY DEF Apart
<1> HIDE DEF E, P, N
<1>7. Inside(E, root, own \union {way[l] : l \in 1 .. 4})
  <2>1. \A v \in VPages : \A l \in 1 .. 4 :
          N(v, l) = Zero \/ N(v, l) \in own \union {way[k] : k \in 1 .. 4}
    BY <1>1, <1>2, <1>3
  <2> QED
    BY <1>3, <2>1 DEF Inside, N
<1>8. Apart(E, root)
  <2> SUFFICES ASSUME NEW v \in VPages, NEW u \in VPages, NEW l \in 1 .. 4, NEW m \in 1 .. 4,
                      N(v, l) # Zero, N(v, l) = N(u, m)
               PROVE  l = m /\ Agree(v, u, l)
    BY DEF Apart, N
  <2>1. /\ N(v, l) = IF Agree(v, w, l) THEN way[l] ELSE P(v, l)
        /\ N(u, m) = IF Agree(u, w, m) THEN way[m] ELSE P(u, m)
    BY <1>1, <1>2
  <2>2. \A x \in VPages : \A k, j \in 1 .. 4 : P(x, k) # Zero /\ P(x, k) = way[j] =>
          j = k /\ Agree(x, w, k)
    <3> SUFFICES ASSUME NEW x \in VPages, NEW k \in 1 .. 4, NEW j \in 1 .. 4,
                        P(x, k) # Zero, P(x, k) = way[j]
                 PROVE  j = k /\ Agree(x, w, k)
      OBVIOUS
    <3>1. P(x, k) \in DOMAIN T
      BY <1>3
    <3>2. P(w, j) = P(x, k)
      BY <1>4, <3>1
    <3> QED
      BY <1>6, <3>2
  <2>3. CASE Agree(v, w, l) /\ Agree(u, w, m)
    <3>1. l = m
      BY <1>5, <2>1, <2>3
    <3>2. Agree(v, w, l) /\ Agree(u, w, l)
      BY <2>3, <3>1
    <3>3. Agree(v, u, l)
      BY <3>2, AgreeSymmetric
    <3> QED
      BY <3>1, <3>3
  <2>4. CASE Agree(v, w, l) /\ ~Agree(u, w, m)
    BY <2>1, <2>2, <2>4
  <2>5. CASE ~Agree(v, w, l) /\ Agree(u, w, m)
    BY <2>1, <2>2, <2>5
  <2>6. CASE ~Agree(v, w, l) /\ ~Agree(u, w, m)
    BY <1>6, <2>1, <2>6
  <2> QED
    BY <2>3, <2>4, <2>5, <2>6
<1>9. 5 \in 1 .. 5
  OBVIOUS
<1>10. N(w, 5) = way[5]
  <2>1. Agree(w, w, 5)
    BY DEF Agree
  <2> QED
    BY <1>1, <1>9, <2>1
<1>11. ASSUME NEW v \in VPages, v # w PROVE N(v, 5) = P(v, 5)
  <2>1. ~Agree(v, w, 5)
    BY <1>11, IndizesDiffer
  <2> QED
    BY <1>1, <1>9, <2>1
<1> QED
  BY <1>7, <1>8, <1>10, <1>11 DEF E, P, N

(* Entered as tables: the entries are frames, and what is not on the way   *)
(* stays.                                                                  *)
AreTables(T) == \A f \in DOMAIN T : T[f] \in [EntryIndices -> Pages \union {Zero}]

LEMMA EnteredType ==
  ASSUME NEW T, NEW way, NEW w \in VPages,
         AreTables(T), \A l \in 1 .. 5 : way[l] \in Pages
  PROVE  /\ DOMAIN Entered(T, way, w) = DOMAIN T \union {way[l] : l \in 1 .. 4}
         /\ AreTables(Entered(T, way, w))
         /\ \A f \in DOMAIN T : (\A l \in 1 .. 4 : way[l] # f) => Entered(T, way, w)[f] = T[f]
<1>0. \A f \in DOMAIN T : T[f] \in [EntryIndices -> Pages \union {Zero}]
  BY DEF AreTables
<1> DEFINE index == getIndizes(w)
           at(f, i) == {level \in 1 .. 4 : way[level] = f /\ index[level] = i}
           entry(f, i) == IF at(f, i) # {} THEN way[1 + CHOOSE level \in at(f, i) : TRUE]
                          ELSE IF f \in DOMAIN T THEN T[f][i] ELSE Zero
           frames == DOMAIN T \union {way[level] : level \in 1 .. 4}
<1>1. Entered(T, way, w) = [f \in frames |-> [i \in EntryIndices |-> entry(f, i)]]
  BY DEF Entered, EntryIndices
<1>2. ASSUME NEW f \in frames, NEW i \in EntryIndices PROVE entry(f, i) \in Pages \union {Zero}
  <2>1. CASE at(f, i) # {}
    <3> DEFINE c == CHOOSE level \in at(f, i) : TRUE
    <3>1. c \in at(f, i)
      BY <2>1
    <3>2. c \in 1 .. 4
      BY <3>1
    <3> HIDE DEF c
    <3>3. 1 + c \in 1 .. 5
      BY <3>2
    <3>4. way[1 + c] \in Pages
      BY <3>3
    <3> QED
      BY <2>1, <3>4 DEF c
  <2>2. CASE at(f, i) = {}
    BY <1>0, <2>2
  <2> QED
    BY <2>1, <2>2
<1>3. ASSUME NEW f \in DOMAIN T, \A l \in 1 .. 4 : way[l] # f
      PROVE  Entered(T, way, w)[f] = T[f]
  <2>1. \A i \in EntryIndices : at(f, i) = {}
    BY <1>3
  <2>2. \A i \in EntryIndices : entry(f, i) = T[f][i]
    BY <2>1
  <2>3. T[f] = [i \in EntryIndices |-> T[f][i]]
    BY <1>0
  <2>4. Entered(T, way, w)[f] = [i \in EntryIndices |-> entry(f, i)]
    BY <1>1
  <2> HIDE DEF entry
  <2> QED
    BY <2>2, <2>3, <2>4
<1> HIDE DEF entry
<1> QED
  BY <1>1, <1>2, <1>3 DEF AreTables

-------------------------------------------------------------------------------
(* What efi_main has done before each of its calls.                        *)
Early == {"LoadFile", "GetInfo", "AllocateHeaders", "LoadSegment", "LoadPSF1Font", "CopyPLM4"}

Loaded(k) ==
  /\ statement \notin {"LoadFile", "GetInfo", "AllocateHeaders"}
  /\ statement = "LoadSegment" => k < phdr

PageMapped(k, n) ==
  /\ statement \notin Early
  /\ statement = "MapMemory" => k < phdr \/ (k = phdr /\ n < mapped)

LoopsRest ==
  /\ statement \notin {"LoadSegment", "MapMemory"} => phdr = 1
  /\ statement # "MapMemory" => mapped = 0

SegmentsLoaded ==
  \A k \in DOMAIN Segments : \A n \in PageNumbers(k) :
    Loaded(k) => /\ Segments[k].p_paddr + n \in Pages
                 /\ memory[Segments[k].p_paddr + n] = "loader"

PagesMapped ==
  \A k \in DOMAIN Segments : \A n \in PageNumbers(k) :
    PageMapped(k, n) => Path(tables, PLM4, VPage(k, n))[5] = Segments[k].p_paddr + n

(* The tables under efi_main's PML4 are its own.                           *)
TablesBuilt ==
  statement \notin Early =>
    /\ Inside(tables, PLM4, DOMAIN tables \ {RootFrame}) /\ Apart(tables, PLM4)
    /\ tables[PLM4][0] = IdentityFrame

FirmwareStays ==
  /\ memory[RootFrame] = "firmware" /\ memory[IdentityFrame] = "firmware"
  /\ RootFrame \in DOMAIN tables

MapTold ==
  /\ Map # << >> => statement \in {"ExitBootServices", "KernelStart", "hlt"}
  /\ ~services => statement \in {"KernelStart", "hlt"}
  /\ Map # << >> /\ (MapKey \/ ~services) => Map = memory

Ending ==
  /\ status = "halted" => statement = "KernelStart"
  /\ status = "kernel" => statement = "hlt" /\ cr3 = PLM4

(* With a pointer that leads anywhere, or memory that was overwritten,     *)
(* nothing is known of what comes.                                         *)
Sane == status \notin {"astray", "overwrites"}

EfiInv ==
  /\ EfiTypeOK /\ FirmwareStays /\ FirmwareTablesUntouched /\ MapTold
  /\ Sane => LoopsRest /\ SegmentsLoaded /\ PagesMapped /\ TablesBuilt /\ Ending

Kinds == {"free", "loader", "firmware"}

MemoryKept ==
  /\ memory' \in [Pages -> Kinds]
  /\ \A p \in Pages : memory[p] = "loader" => memory'[p] = "loader"
  /\ memory'[RootFrame] = "firmware" /\ memory'[IdentityFrame] = "firmware"

LEMMA TakeKeeps ==
  ASSUME EfiInv, NEW pages, pages \subseteq Free, Take(pages)
  PROVE  /\ MemoryKept /\ MapKey' \in BOOLEAN
         /\ \A p \in pages : p \in Pages /\ memory'[p] = "loader"
<1>1. /\ memory \in [Pages -> Kinds] /\ MapKey \in BOOLEAN
      /\ memory[RootFrame] = "firmware" /\ memory[IdentityFrame] = "firmware"
      /\ RootFrame \in Pages /\ IdentityFrame \in Pages
  BY FirmwareAssumption DEF EfiInv, EfiTypeOK, FirmwareStays, Kinds
<1>2. /\ memory' = [p \in Pages |-> IF p \in pages THEN "loader" ELSE memory[p]]
      /\ MapKey' = (MapKey /\ pages = {})
  BY DEF Take
<1>3. \A p \in pages : p \in Pages /\ memory[p] = "free"
  BY DEF Free
<1>4. MemoryKept
  <2>1. RootFrame \notin pages /\ IdentityFrame \notin pages
    BY <1>1, <1>3
  <2> QED
    BY <1>1, <1>2, <2>1 DEF MemoryKept, Kinds
<1> QED
  BY <1>1, <1>2, <1>3, <1>4

LEMMA TakePoolKeeps ==
  ASSUME EfiInv, status = "running", TakePool
  PROVE  MemoryKept /\ MapKey' \in BOOLEAN /\ status' \in {"running", "astray"}
<1>1. ASSUME Take({}), status' \in {"running", "astray"}
      PROVE  MemoryKept /\ MapKey' \in BOOLEAN /\ status' \in {"running", "astray"}
  BY <1>1, TakeKeeps
<1>2. ASSUME NEW p \in Free, Take({p}), status' = status
      PROVE  MemoryKept /\ MapKey' \in BOOLEAN /\ status' \in {"running", "astray"}
  BY <1>2, TakeKeeps
<1> QED
  BY <1>1, <1>2 DEF TakePool

LEMMA UnchangedKeeps ==
  ASSUME EfiInv, UNCHANGED <<memory, MapKey>>
  PROVE  MemoryKept /\ MapKey' \in BOOLEAN
<1> QED
  BY DEF EfiInv, EfiTypeOK, FirmwareStays, MemoryKept, Kinds

LEMMA FirmwareKept ==
  ASSUME EfiInv, MemoryKept, UNCHANGED tables
  PROVE  FirmwareStays' /\ FirmwareTablesUntouched'
<1>1. DOMAIN tables \subseteq Pages
  BY DEF EfiInv, EfiTypeOK
<1> QED
  BY <1>1 DEF EfiInv, FirmwareStays, FirmwareTablesUntouched, MemoryKept

(* A call that changes neither tables nor what is known of them.           *)
Straight(s, t) ==
  /\ status = "running" /\ statement = s /\ statement' = t /\ UNCHANGED loops
  /\ MemoryKept /\ MapKey' \in BOOLEAN /\ status' \in {"running", "astray"}
  /\ MapSize' \in 0 .. Cardinality(Pages)
  /\ UNCHANGED <<tables, PLM4, cr3, Map, services>>

LEMMA StraightInv ==
  ASSUME EfiInv, NEW s, NEW t, Straight(s, t),
         \/ s = "LoadFile" /\ t = "GetInfo"
         \/ s = "GetInfo" /\ t = "AllocateHeaders"
         \/ s = "AllocateHeaders" /\ t = "LoadSegment"
         \/ s = "LoadPSF1Font" /\ t = "CopyPLM4"
         \/ s = "AskMapSize" /\ t = "AllocateMap"
         \/ s = "AllocateMap" /\ t = "GetMemoryMap"
  PROVE  EfiInv'
<1>1. /\ statement = s /\ statement' = t /\ phdr' = phdr /\ mapped' = mapped
      /\ status = "running" /\ status' \in {"running", "astray"}
      /\ tables' = tables /\ PLM4' = PLM4 /\ cr3' = cr3 /\ Map' = Map /\ services' = services
      /\ MemoryKept /\ MapKey' \in BOOLEAN /\ MapSize' \in 0 .. Cardinality(Pages)
  BY DEF Straight, loops
<1>2. /\ EfiTypeOK /\ MapTold /\ LoopsRest /\ SegmentsLoaded /\ PagesMapped /\ TablesBuilt
  BY <1>1 DEF EfiInv, Sane
<1>3. EfiTypeOK'
  BY <1>1, <1>2 DEF EfiTypeOK, Calls, MemoryKept, Kinds, PageCount
<1>4. FirmwareStays' /\ FirmwareTablesUntouched'
  BY <1>1, FirmwareKept
<1>5. phdr = 1 /\ mapped = 0
  BY <1>1, <1>2 DEF LoopsRest
<1>6. MapTold'
  BY <1>1, <1>2 DEF MapTold
<1>7. LoopsRest'
  BY <1>1, <1>5 DEF LoopsRest
<1>8. SegmentsLoaded'
  <2> SUFFICES ASSUME NEW k \in DOMAIN Segments, NEW n \in PageNumbers(k), Loaded(k)'
               PROVE  /\ Segments[k].p_paddr + n \in Pages
                      /\ memory'[Segments[k].p_paddr + n] = "loader"
    BY DEF SegmentsLoaded, PageNumbers, PageCount
  <2>1. k \in Nat /\ k >= 1
    BY SegmentType
  <2>2. Loaded(k)
    BY <1>1, <1>5, <2>1 DEF Loaded
  <2> QED
    BY <1>1, <1>2, <2>2 DEF SegmentsLoaded, MemoryKept
<1>9. PagesMapped'
  <2> SUFFICES ASSUME NEW k \in DOMAIN Segments, NEW n \in PageNumbers(k), PageMapped(k, n)'
               PROVE  Path(tables, PLM4, VPage(k, n))[5] = Segments[k].p_paddr + n
    BY <1>1 DEF PagesMapped, PageNumbers, PageCount, VPage
  <2>1. PageMapped(k, n)
    BY <1>1 DEF PageMapped, Early
  <2> QED
    BY <1>2, <2>1 DEF PagesMapped
<1>10. TablesBuilt'
  <2>1. statement' \notin Early => statement \notin Early
    BY <1>1 DEF Early
  <2> QED
    BY <1>1, <1>2, <2>1 DEF TablesBuilt
<1>11. Ending'
  BY <1>1 DEF Ending
<1> QED
  BY <1>3, <1>4, <1>6, <1>7, <1>8, <1>9, <1>10, <1>11 DEF EfiInv

(* A descriptor for each page at most.                                     *)
LEMMA DescriptorsFit == DescriptorCount \in 0 .. Cardinality(Pages)
<1> DEFINE D == {p \in Pages : p + 1 \in Pages => memory[p] # memory[p + 1]}
<1>1. IsFiniteSet(Pages) /\ D \subseteq Pages
  BY FirmwareAssumption
<1>2. DescriptorCount = Cardinality(D)
  BY DEF DescriptorCount
<1> HIDE DEF D
<1>3. /\ Cardinality(D) \in Nat /\ Cardinality(Pages) \in Nat
      /\ Cardinality(D) <= Cardinality(Pages)
  BY <1>1, FS_Subset, FS_CardinalityType
<1> QED
  BY <1>2, <1>3

LEMMA CallsInv ==
  ASSUME EfiInv,
         \/ LoadFile \/ GetInfo \/ AllocateHeaders \/ LoadPSF1Font \/ AskMapSize \/ AllocateMap
  PROVE  EfiInv'
<1>0. MapSize \in 0 .. Cardinality(Pages)
  BY DEF EfiInv, EfiTypeOK
<1>1. CASE LoadFile
  <2>1. MemoryKept /\ MapKey' \in BOOLEAN
    BY <1>1, UnchangedKeeps DEF LoadFile
  <2>2. Straight("LoadFile", "GetInfo")
    BY <1>0, <1>1, <2>1 DEF LoadFile, Now, Then, Straight
  <2> QED
    BY <2>2, StraightInv
<1>2. CASE GetInfo
  <2>1. MemoryKept /\ MapKey' \in BOOLEAN /\ status' \in {"running", "astray"}
    <3>1. CASE TakePool
      BY <1>2, <3>1, TakePoolKeeps DEF GetInfo, Now
    <3>2. CASE Take({}) /\ status' = "astray"
      BY <3>2, TakeKeeps
    <3> QED
      BY <1>2, <3>1, <3>2 DEF GetInfo
  <2>2. Straight("GetInfo", "AllocateHeaders")
    BY <1>0, <1>2, <2>1 DEF GetInfo, Now, Then, Straight
  <2> QED
    BY <2>2, StraightInv
<1>3. CASE AllocateHeaders
  <2>1. MemoryKept /\ MapKey' \in BOOLEAN /\ status' \in {"running", "astray"}
    BY <1>3, TakePoolKeeps DEF AllocateHeaders, Now
  <2>2. Straight("AllocateHeaders", "LoadSegment")
    BY <1>0, <1>3, <2>1 DEF AllocateHeaders, Now, Then, Straight
  <2> QED
    BY <2>2, StraightInv
<1>4. CASE LoadPSF1Font
  <2>1. MemoryKept /\ MapKey' \in BOOLEAN /\ status' \in {"running", "astray"}
    BY <1>4, TakePoolKeeps DEF LoadPSF1Font, Now
  <2>2. Straight("LoadPSF1Font", "CopyPLM4")
    BY <1>0, <1>4, <2>1 DEF LoadPSF1Font, Now, Then, Straight
  <2> QED
    BY <2>2, StraightInv
<1>5. CASE AskMapSize
  <2>1. MemoryKept /\ MapKey' \in BOOLEAN
    BY <1>5, UnchangedKeeps DEF AskMapSize
  <2>2. Straight("AskMapSize", "AllocateMap")
    BY <1>5, <2>1, DescriptorsFit DEF AskMapSize, Now, Then, Straight
  <2> QED
    BY <2>2, StraightInv
<1>6. CASE AllocateMap
  <2>1. MemoryKept /\ MapKey' \in BOOLEAN /\ status' \in {"running", "astray"}
    BY <1>6, TakePoolKeeps DEF AllocateMap, Now
  <2>2. Straight("AllocateMap", "GetMemoryMap")
    BY <1>0, <1>6, <2>1 DEF AllocateMap, Now, Then, Straight
  <2> QED
    BY <2>2, StraightInv
<1> QED
  BY <1>1, <1>2, <1>3, <1>4, <1>5, <1>6

(* A segment's pages are the firmware's to give, or are overwritten.       *)
LEMMA LoadSegmentInv == ASSUME EfiInv, LoadSegment PROVE EfiInv'
<1>1. /\ status = "running" /\ statement = "LoadSegment" /\ NextSegment("LoadPSF1Font")
      /\ tables' = tables /\ PLM4' = PLM4 /\ cr3' = cr3 /\ MapSize' = MapSize /\ Map' = Map
      /\ services' = services
  BY DEF LoadSegment, Now
<1>2. /\ EfiTypeOK /\ MapTold /\ LoopsRest /\ SegmentsLoaded /\ PagesMapped /\ TablesBuilt
  BY <1>1 DEF EfiInv, Sane
<1>3. /\ MemoryKept /\ MapKey' \in BOOLEAN
      /\ \/ status' = "overwrites"
         \/ /\ status' = "running"
            /\ \A p \in SegmentPages(phdr) : p \in Pages /\ memory'[p] = "loader"
  <2>1. CASE SegmentPages(phdr) \subseteq Free
    <3>1. Take(SegmentPages(phdr)) /\ status' = "running"
      BY <1>1, <2>1 DEF LoadSegment
    <3> QED
      BY <2>1, <3>1, TakeKeeps
  <2>2. CASE ~(SegmentPages(phdr) \subseteq Free)
    <3>1. Take({}) /\ status' = "overwrites"
      BY <2>2 DEF LoadSegment
    <3> QED
      BY <3>1, TakeKeeps
  <2> QED
    BY <2>1, <2>2
<1>4. /\ mapped' = 0 /\ mapped = 0
      /\ \/ phdr < Len(Segments) /\ phdr' = phdr + 1 /\ statement' = "LoadSegment"
         \/ ~(phdr < Len(Segments)) /\ phdr' = 1 /\ statement' = "LoadPSF1Font"
  BY <1>1, <1>2 DEF NextSegment, LoopsRest
<1>5. /\ phdr \in 1 .. Len(Segments) /\ Len(Segments) \in Nat
      /\ DOMAIN Segments = 1 .. Len(Segments)
  BY <1>2, SegmentType DEF EfiTypeOK
<1>6. phdr' \in DOMAIN Segments
  BY <1>4, <1>5
<1>7. EfiTypeOK'
  <2>1. mapped' \in 0 .. PageCount(phdr') - 1
    BY <1>4, <1>6, PageCountType
  <2>2. PageCount(phdr)' = PageCount(phdr')
    BY DEF PageCount
  <2>3. mapped' \in 0 .. PageCount(phdr)' - 1
    BY <2>1, <2>2
  <2> QED
    BY <1>1, <1>2, <1>3, <1>4, <1>6, <2>3 DEF EfiTypeOK, Calls, MemoryKept, Kinds
<1>8. FirmwareStays' /\ FirmwareTablesUntouched'
  BY <1>1, <1>3, FirmwareKept
<1>9. MapTold'
  BY <1>1, <1>2, <1>4 DEF MapTold
<1>10. LoopsRest' /\ Ending'
  BY <1>3, <1>4 DEF LoopsRest, Ending
<1>11. TablesBuilt' /\ PagesMapped'
  <2>1. statement' \in Early
    BY <1>4 DEF Early
  <2> QED
    BY <2>1 DEF TablesBuilt, PagesMapped, PageMapped
<1>12. ASSUME status' = "running" PROVE SegmentsLoaded'
  <2> SUFFICES ASSUME NEW k \in DOMAIN Segments, NEW n \in PageNumbers(k), Loaded(k)'
               PROVE  /\ Segments[k].p_paddr + n \in Pages
                      /\ memory'[Segments[k].p_paddr + n] = "loader"
    BY DEF SegmentsLoaded, PageNumbers, PageCount
  <2>1. CASE k = phdr
    <3>1. Segments[k].p_paddr + n \in SegmentPages(phdr)
      BY <2>1 DEF SegmentPages, PageNumbers
    <3> QED
      BY <1>3, <1>12, <3>1
  <2>2. CASE k # phdr
    <3>1. k < phdr
      BY <1>4, <1>5, <2>2 DEF Loaded
    <3>2. Loaded(k)
      BY <1>1, <3>1 DEF Loaded
    <3> QED
      BY <1>2, <1>3, <3>2 DEF SegmentsLoaded, MemoryKept
  <2> QED
    BY <2>1, <2>2
<1> QED
  BY <1>3, <1>7, <1>8, <1>9, <1>10, <1>11, <1>12 DEF EfiInv, Sane

(* From a PML4 whose only entry is the first no path to a page of the      *)
(* kernel goes on.                                                         *)
LEMMA EmptyPaths ==
  ASSUME NEW T, NEW r \in Pages, T[r] = FirmwarePLM4, NEW own, r \in own
  PROVE  Inside(T, r, own) /\ Apart(T, r)
<1>1. r # Zero
  BY FirmwareAssumption DEF Zero
<1>2. ASSUME NEW v \in VPages
      PROVE  /\ Path(T, r, v)[1] = r
             /\ \A l \in 2 .. 4 : Path(T, r, v)[l] = Zero
  <2> DEFINE P(l) == Path(T, r, v)[l]
             i(l) == getIndizes(v)[l]
  <2>1. P(1) = r /\ \A l \in 1 .. 4 : P(l + 1) = Lead(T, P(l), i(l))
    BY PathSteps
  <2>2. i(1) \in EntryIndices /\ i(1) # 0
    BY IndizesType, VPagesType
  <2> HIDE DEF P, i
  <2>3. 1 \in 1 .. 4 /\ 2 \in 1 .. 4 /\ 3 \in 1 .. 4 /\ 1 + 1 = 2 /\ 2 + 1 = 3 /\ 3 + 1 = 4
    OBVIOUS
  <2>4. P(2) = Zero
    <3>1. P(2) = Lead(T, r, i(1))
      BY <2>1, <2>3
    <3>2. FirmwarePLM4[i(1)] = Zero
      BY <2>2 DEF FirmwarePLM4, EntryIndices
    <3> QED
      BY <1>1, <3>1, <3>2 DEF Lead
  <2>5. P(3) = Zero
    <3>1. P(3) = Lead(T, P(2), i(2))
      BY <2>1, <2>3
    <3> QED
      BY <2>4, <3>1 DEF Lead
  <2>6. P(4) = Zero
    <3>1. P(4) = Lead(T, P(3), i(3))
      BY <2>1, <2>3
    <3> QED
      BY <2>5, <3>1 DEF Lead
  <2>7. \A l \in 2 .. 4 : l = 2 \/ l = 3 \/ l = 4
    OBVIOUS
  <2> QED
    BY <2>1, <2>4, <2>5, <2>6, <2>7 DEF P
<1>3. \A l \in 1 .. 4 : l = 1 \/ l \in 2 .. 4
  OBVIOUS
<1>4. Inside(T, r, own)
  BY <1>1, <1>2, <1>3 DEF Inside
<1>5. Apart(T, r)
  <2> SUFFICES ASSUME NEW v \in VPages, NEW w \in VPages, NEW l \in 1 .. 4, NEW m \in 1 .. 4,
                      Path(T, r, v)[l] # Zero, Path(T, r, v)[l] = Path(T, r, w)[m]
               PROVE  l = m /\ Agree(v, w, l)
    BY DEF Apart
  <2>1. l = 1 /\ m = 1
    BY <1>2, <1>3
  <2> QED
    BY <2>1, AgreeSteps
<1> QED
  BY <1>4, <1>5

LEMMA CopyPLM4Inv == ASSUME EfiInv, CopyPLM4 PROVE EfiInv'
<1>1. /\ status = "running" /\ statement = "CopyPLM4" /\ statement' = "MapMemory"
      /\ phdr' = phdr /\ mapped' = mapped /\ cr3' = cr3 /\ MapSize' = MapSize /\ Map' = Map
      /\ services' = services
  BY DEF CopyPLM4, Now, Then, loops
<1>2. /\ EfiTypeOK /\ MapTold /\ LoopsRest /\ SegmentsLoaded /\ FirmwareStays
      /\ FirmwareTablesUntouched
  BY <1>1 DEF EfiInv, Sane
<1>3. phdr = 1 /\ mapped = 0
  BY <1>1, <1>2 DEF LoopsRest
<1>4. MapTold'
  BY <1>1, <1>2 DEF MapTold
<1>5. LoopsRest'
  BY <1>1, <1>3 DEF LoopsRest
<1>6. PagesMapped'
  <2> SUFFICES ASSUME NEW k \in DOMAIN Segments, NEW n \in PageNumbers(k), PageMapped(k, n)'
               PROVE  FALSE
    BY DEF PagesMapped, PageNumbers, PageCount
  <2>1. k \in 1 .. Len(Segments) /\ Len(Segments) \in Nat /\ n \in Nat
    BY SegmentType, PageCountType DEF PageNumbers
  <2> QED
    BY <1>1, <1>3, <2>1 DEF PageMapped
<1>7. ASSUME MemoryKept PROVE SegmentsLoaded'
  <2> SUFFICES ASSUME NEW k \in DOMAIN Segments, NEW n \in PageNumbers(k)
               PROVE  /\ Segments[k].p_paddr + n \in Pages
                      /\ memory'[Segments[k].p_paddr + n] = "loader"
    BY DEF SegmentsLoaded, PageNumbers, PageCount
  <2>1. Loaded(k)
    BY <1>1 DEF Loaded
  <2> QED
    BY <1>2, <1>7, <2>1 DEF SegmentsLoaded, MemoryKept
<1>8. CASE Free = {} /\ Take({}) /\ status' = "astray" /\ UNCHANGED <<PLM4, tables>>
  <2>1. MemoryKept /\ MapKey' \in BOOLEAN
    BY <1>8, TakeKeeps
  <2>2. EfiTypeOK'
    BY <1>1, <1>2, <1>8, <2>1 DEF EfiTypeOK, Calls, MemoryKept, Kinds, PageCount
  <2>3. FirmwareStays' /\ FirmwareTablesUntouched'
    BY <1>8, <2>1, FirmwareKept
  <2> QED
    BY <1>4, <1>8, <2>2, <2>3 DEF EfiInv, Sane
<1>9. ASSUME NEW p \in Free, Take({p}), UNCHANGED status, PLM4' = p,
             tables' = [f \in DOMAIN tables \union {p} |->
                          IF f = p THEN tables[RootFrame] ELSE tables[f]]
      PROVE  EfiInv'
  <2>1. MemoryKept /\ MapKey' \in BOOLEAN /\ p \in Pages /\ memory'[p] = "loader"
    BY <1>9, TakeKeeps
  <2>2. /\ DOMAIN tables \subseteq Pages /\ RootFrame \in DOMAIN tables
        /\ tables[RootFrame] = FirmwarePLM4
        /\ \A f \in DOMAIN tables \ {RootFrame} : memory[f] = "loader"
        /\ memory[RootFrame] = "firmware" /\ memory[p] = "free"
    BY <1>2 DEF EfiTypeOK, FirmwareStays, FirmwareTablesUntouched, Free
  <2>3. p \notin DOMAIN tables /\ p # RootFrame
    BY <2>2
  <2>4. /\ DOMAIN tables' = DOMAIN tables \union {p}
        /\ tables'[p] = FirmwarePLM4
        /\ \A f \in DOMAIN tables : tables'[f] = tables[f]
    BY <1>9, <2>2, <2>3
  <2>5. EfiTypeOK'
    <3>1. \A f \in DOMAIN tables' : tables'[f] \in [0 .. Radix - 1 -> Pages \union {Zero}]
      BY <1>2, <2>2, <2>4 DEF EfiTypeOK
    <3>2. DOMAIN tables' \subseteq Pages /\ {PLM4', cr3'} \subseteq DOMAIN tables'
      BY <1>1, <1>2, <1>9, <2>1, <2>4 DEF EfiTypeOK
    <3> QED
      BY <1>1, <1>2, <1>9, <2>1, <3>1, <3>2 DEF EfiTypeOK, Calls, MemoryKept, Kinds, PageCount
  <2>6. FirmwareStays' /\ FirmwareTablesUntouched'
    BY <2>1, <2>2, <2>4 DEF FirmwareStays, FirmwareTablesUntouched, MemoryKept
  <2>7. TablesBuilt'
    <3>1. p \in DOMAIN tables' \ {RootFrame}
      BY <2>3, <2>4
    <3>2. Inside(tables', p, DOMAIN tables' \ {RootFrame}) /\ Apart(tables', p)
      BY <2>1, <2>4, <3>1, EmptyPaths
    <3>3. tables'[p][0] = IdentityFrame
      BY <2>4, FirmwareAssumption DEF FirmwarePLM4
    <3> QED
      BY <1>9, <3>2, <3>3 DEF TablesBuilt
  <2>8. Ending'
    BY <1>1, <1>9 DEF Ending
  <2> QED
    BY <1>4, <1>5, <1>6, <1>7, <2>1, <2>5, <2>6, <2>7, <2>8 DEF EfiInv
<1> QED
  BY <1>8, <1>9 DEF CopyPLM4

(* One round of the loop over pages and segments.                          *)
MapRound ==
  /\ statement' \in {"MapMemory", "AskMapSize"}
  /\ phdr' \in DOMAIN Segments /\ mapped' \in 0 .. PageCount(phdr') - 1
  /\ LoopsRest'
  /\ \A k \in DOMAIN Segments : \A n \in PageNumbers(k) :
       PageMapped(k, n)' => PageMapped(k, n) \/ (k = phdr /\ n = mapped)

LEMMA MapRounds ==
  ASSUME EfiTypeOK, statement = "MapMemory",
         IF mapped + 1 < PageCount(phdr)
         THEN mapped' = mapped + 1 /\ UNCHANGED <<phdr, statement>>
         ELSE NextSegment("AskMapSize")
  PROVE  MapRound
<1>1. /\ phdr \in DOMAIN Segments /\ mapped \in 0 .. PageCount(phdr) - 1
      /\ DOMAIN Segments = 1 .. Len(Segments) /\ Len(Segments) \in Nat
      /\ PageCount(phdr) \in Nat
  BY SegmentType, PageCountType DEF EfiTypeOK
<1>2. \A k \in DOMAIN Segments : \A n \in PageNumbers(k) :
        k \in Nat /\ n \in Nat /\ n < PageCount(k) /\ PageCount(k) \in Nat
  BY SegmentType, PageCountType DEF PageNumbers
<1>3. \A k, n : PageMapped(k, n) <=> (k < phdr \/ (k = phdr /\ n < mapped))
  BY DEF PageMapped, Early
<1>4. CASE mapped + 1 < PageCount(phdr)
  <2>1. mapped' = mapped + 1 /\ phdr' = phdr /\ statement' = "MapMemory"
    BY <1>4
  <2>2. mapped' \in 0 .. PageCount(phdr') - 1
    BY <1>1, <1>4, <2>1
  <2>3. \A k, n : PageMapped(k, n)' <=> (k < phdr \/ (k = phdr /\ n < mapped + 1))
    BY <2>1 DEF PageMapped, Early
  <2>4. \A k \in DOMAIN Segments : \A n \in PageNumbers(k) :
          PageMapped(k, n)' => PageMapped(k, n) \/ (k = phdr /\ n = mapped)
    BY <1>1, <1>2, <1>3, <2>3
  <2>5. LoopsRest'
    BY <2>1 DEF LoopsRest
  <2> QED
    BY <1>1, <2>1, <2>2, <2>4, <2>5 DEF MapRound
<1>5. CASE ~(mapped + 1 < PageCount(phdr))
  <2>1. /\ mapped' = 0
        /\ \/ phdr < Len(Segments) /\ phdr' = phdr + 1 /\ statement' = "MapMemory"
           \/ ~(phdr < Len(Segments)) /\ phdr' = 1 /\ statement' = "AskMapSize"
    BY <1>5 DEF NextSegment
  <2>2. phdr' \in DOMAIN Segments
    BY <1>1, <2>1
  <2>3. mapped' \in 0 .. PageCount(phdr') - 1
    BY <2>1, <2>2, PageCountType
  <2>4. LoopsRest'
    BY <2>1 DEF LoopsRest
  <2>5. ASSUME NEW k \in DOMAIN Segments, NEW n \in PageNumbers(k), PageMapped(k, n)'
        PROVE  PageMapped(k, n) \/ (k = phdr /\ n = mapped)
    <3>1. k \in Nat /\ n \in Nat /\ n < PageCount(k) /\ PageCount(k) \in Nat /\ k <= Len(Segments)
      BY <1>1, <1>2
    <3>2. k <= phdr
      <4>1. CASE phdr < Len(Segments)
        <5>1. k < phdr + 1 \/ (k = phdr + 1 /\ n < 0)
          BY <2>1, <2>5, <4>1 DEF PageMapped, Early
        <5> QED
          BY <1>1, <3>1, <5>1
      <4>2. CASE ~(phdr < Len(Segments))
        BY <1>1, <3>1, <4>2
      <4> QED
        BY <4>1, <4>2
    <3>3. k = phdr => n <= mapped
      BY <1>1, <1>5, <3>1
    <3> QED
      BY <1>1, <1>3, <3>1, <3>2, <3>3
  <2> QED
    BY <2>1, <2>2, <2>3, <2>4, <2>5 DEF MapRound
<1> QED
  BY <1>4, <1>5

(* The tables MapMemory finds and those it asks for are a way to the page. *)
LEMMA NewWay ==
  ASSUME EfiInv, Sane, statement = "MapMemory", NEW w \in VPages, NEW page \in Pages,
         NEW missing, missing = {level \in 1 .. 4 : Path(tables, PLM4, w)[level] = Zero},
         NEW new \in [missing -> Free], \A l, m \in missing : new[l] = new[m] => l = m,
         NEW way, way = [level \in 1 .. 5 |->
                           IF level = 5 THEN page
                           ELSE IF level \in missing THEN new[level]
                           ELSE Path(tables, PLM4, w)[level]]
  PROVE  /\ Way(tables, PLM4, way, w)
         /\ way[5] = page
         /\ \A l \in 1 .. 5 : way[l] \in Pages
         /\ \A l \in 1 .. 4 :
              \/ way[l] \in DOMAIN tables \ {RootFrame}
              \/ way[l] \in {new[m] : m \in missing} /\ way[l] \notin DOMAIN tables
<1> DEFINE Q(l) == Path(tables, PLM4, w)[l]
           own == DOMAIN tables \ {RootFrame}
<1>1. /\ DOMAIN tables \subseteq Pages /\ Inside(tables, PLM4, own) /\ Apart(tables, PLM4)
      /\ Pages \subseteq Nat
      /\ memory[RootFrame] = "firmware" /\ \A f \in own : memory[f] = "loader"
  BY FirmwareAssumption DEF EfiInv, EfiTypeOK, TablesBuilt, Early, FirmwareStays,
                            FirmwareTablesUntouched
<1>2. \A l \in missing : l \in 1 .. 4 /\ new[l] \in Pages /\ memory[new[l]] = "free"
  BY DEF Free
<1>3. \A l \in missing : new[l] \notin DOMAIN tables /\ new[l] # Zero
  BY <1>1, <1>2 DEF Zero
<1>4. \A l \in 1 .. 4 : Q(l) = Zero \/ Q(l) \in own
  BY <1>1 DEF Inside
<1>5. \A l \in 1 .. 4 : l \in 1 .. 5 /\ l # 5
  OBVIOUS
<1>6. /\ way[5] = page
      /\ \A l \in 1 .. 4 : way[l] = IF l \in missing THEN new[l] ELSE Q(l)
  BY <1>5
<1>7. \A l \in 1 .. 4 : l \in missing <=> Q(l) = Zero
  OBVIOUS
<1>8. \A l, m \in 1 .. 4 : Q(l) # Zero /\ Q(l) = Q(m) => l = m
  BY <1>1 DEF Apart
<1> HIDE DEF Q
<1>9. Apiece(way)
  <2> SUFFICES ASSUME NEW l \in 1 .. 4, NEW m \in 1 .. 4, way[l] = way[m] PROVE l = m
    BY DEF Apiece
  <2>1. CASE l \in missing /\ m \in missing
    BY <1>6, <2>1
  <2>2. CASE l \in missing /\ m \notin missing
    BY <1>3, <1>4, <1>6, <1>7, <2>2
  <2>3. CASE l \notin missing /\ m \in missing
    BY <1>3, <1>4, <1>6, <1>7, <2>3
  <2>4. CASE l \notin missing /\ m \notin missing
    BY <1>6, <1>7, <1>8, <2>4
  <2> QED
    BY <2>1, <2>2, <2>3, <2>4
<1>10. \A l \in 1 .. 4 : \/ Q(l) # Zero /\ way[l] = Q(l)
                         \/ Q(l) = Zero /\ way[l] # Zero /\ way[l] \notin DOMAIN tables
  BY <1>3, <1>6, <1>7
<1>11. Way(tables, PLM4, way, w)
  BY <1>9, <1>10 DEF Way, Q
<1>12. \A l \in 1 .. 4 :
         \/ way[l] \in own
         \/ way[l] \in {new[m] : m \in missing} /\ way[l] \notin DOMAIN tables
  BY <1>3, <1>4, <1>6, <1>7
<1>13. \A l \in 1 .. 5 : way[l] \in Pages
  <2>1. \A l \in 1 .. 4 : way[l] \in Pages
    BY <1>1, <1>2, <1>12
  <2>2. \A l \in 1 .. 5 : l = 5 \/ l \in 1 .. 4
    OBVIOUS
  <2> QED
    BY <1>6, <2>1, <2>2
<1> QED
  BY <1>6, <1>11, <1>12, <1>13

(* A page of a segment on the page it was given, and all the others where  *)
(* they were.                                                              *)
LEMMA MapPageInv == ASSUME EfiInv, MapPage PROVE EfiInv'
<1> DEFINE w == Segments[phdr].p_vaddr + mapped
           page == Segments[phdr].p_paddr + mapped
           own == DOMAIN tables \ {RootFrame}
<1>1. /\ status = "running" /\ statement = "MapMemory" /\ PLM4' = PLM4 /\ cr3' = cr3
      /\ MapSize' = MapSize /\ Map' = Map /\ services' = services
      /\ MapMemory(page, w)
  BY DEF MapPage, Now
<1>2. /\ EfiTypeOK /\ MapTold /\ LoopsRest /\ SegmentsLoaded /\ PagesMapped /\ FirmwareStays
      /\ FirmwareTablesUntouched /\ Sane
      /\ Inside(tables, PLM4, own) /\ Apart(tables, PLM4) /\ tables[PLM4][0] = IdentityFrame
  BY <1>1 DEF EfiInv, Sane, TablesBuilt, Early
<1>3. MapRound
  BY <1>1, <1>2, MapRounds DEF MapPage
<1>4. /\ statement' \in {"MapMemory", "AskMapSize"} /\ LoopsRest'
      /\ phdr' \in DOMAIN Segments /\ mapped' \in 0 .. PageCount(phdr)' - 1
      /\ statement' \in Calls
  <2>1. PageCount(phdr)' = PageCount(phdr')
    BY DEF PageCount
  <2> QED
    BY <1>3, <2>1 DEF MapRound, Calls
<1>5. phdr \in DOMAIN Segments /\ mapped \in PageNumbers(phdr)
  BY <1>2 DEF EfiTypeOK, PageNumbers
<1>6. w = VPage(phdr, mapped) /\ w \in VPages
  BY <1>5, VPagesType DEF VPage
<1>7. page \in Pages
  <2>1. Loaded(phdr)
    BY <1>1 DEF Loaded
  <2> QED
    BY <1>2, <1>5, <2>1 DEF SegmentsLoaded
<1>8. MapTold'
  BY <1>1, <1>2, <1>4 DEF MapTold
<1>9. ASSUME MemoryKept PROVE SegmentsLoaded'
  <2> SUFFICES ASSUME NEW k \in DOMAIN Segments, NEW n \in PageNumbers(k)
               PROVE  /\ Segments[k].p_paddr + n \in Pages
                      /\ memory'[Segments[k].p_paddr + n] = "loader"
    BY DEF SegmentsLoaded, PageNumbers, PageCount
  <2>1. Loaded(k)
    BY <1>1 DEF Loaded
  <2> QED
    BY <1>2, <1>9, <2>1 DEF SegmentsLoaded, MemoryKept
<1> DEFINE missing == {level \in 1 .. 4 : Path(tables, PLM4, w)[level] = Zero}
<1>10. CASE Take({}) /\ status' = "astray" /\ UNCHANGED tables
  <2>1. MemoryKept /\ MapKey' \in BOOLEAN
    BY <1>10, TakeKeeps
  <2>2. EfiTypeOK'
    BY <1>1, <1>2, <1>4, <1>10, <2>1 DEF EfiTypeOK, MemoryKept, Kinds
  <2>3. FirmwareStays' /\ FirmwareTablesUntouched'
    BY <1>10, <2>1, FirmwareKept
  <2> QED
    BY <1>8, <1>10, <2>2, <2>3 DEF EfiInv, Sane
<1>11. ASSUME NEW new \in [missing -> Free], \A l, m \in missing : new[l] = new[m] => l = m,
              Take({new[level] : level \in missing}), UNCHANGED status,
              NEW way, way = [level \in 1 .. 5 |-> IF level = 5 THEN page
                                                   ELSE IF level \in missing THEN new[level]
                                                   ELSE Path(tables, PLM4, w)[level]],
              tables' = Entered(tables, way, w)
       PROVE  EfiInv'
  <2> DEFINE given == {new[level] : level \in missing}
  <2>1. given \subseteq Free
    OBVIOUS
  <2>2. MemoryKept /\ MapKey' \in BOOLEAN /\ \A f \in given : f \in Pages /\ memory'[f] = "loader"
    BY <1>11, <2>1, TakeKeeps
  <2>3. /\ Way(tables, PLM4, way, w) /\ way[5] = page
        /\ \A l \in 1 .. 5 : way[l] \in Pages
        /\ \A l \in 1 .. 4 : way[l] \in own \/ (way[l] \in given /\ way[l] \notin DOMAIN tables)
    <3> HIDE DEF w, page
    <3> QED
      BY <1>1, <1>2, <1>6, <1>7, <1>11, NewWay
  <2> HIDE DEF w, page, missing, given
  <2>4. /\ DOMAIN tables \subseteq Pages /\ RootFrame \in DOMAIN tables
        /\ AreTables(tables)
    BY <1>2 DEF EfiTypeOK, FirmwareStays, EntryIndices, AreTables
  <2> DEFINE after == Entered(tables, way, w)
             more == {way[l] : l \in 1 .. 4}
  <2>5. /\ DOMAIN after = DOMAIN tables \union more
        /\ AreTables(after)
        /\ \A f \in DOMAIN tables : (\A l \in 1 .. 4 : way[l] # f) => after[f] = tables[f]
    <3>1. w \in VPages
      BY <1>6
    <3>2. AreTables(tables) /\ \A l \in 1 .. 5 : way[l] \in Pages
      BY <2>3, <2>4
    <3>3. DOMAIN after = DOMAIN tables \union more
      BY <3>1, <3>2, EnteredType
    <3>4. AreTables(after)
      BY <3>1, <3>2, EnteredType
    <3>5. \A f \in DOMAIN tables : (\A l \in 1 .. 4 : way[l] # f) => after[f] = tables[f]
      BY <3>1, <3>2, EnteredType
    <3> QED
      BY <3>3, <3>4, <3>5
  <2>6. /\ Inside(after, PLM4, own \union more) /\ Apart(after, PLM4)
        /\ Path(after, PLM4, w)[5] = way[5]
        /\ \A v \in VPages : v # w => Path(after, PLM4, v)[5] = Path(tables, PLM4, v)[5]
    <3>1. own \subseteq DOMAIN tables
      OBVIOUS
    <3> HIDE DEF own
    <3> QED
      BY <1>2, <1>6, <2>3, <3>1, EnteredApart
  <2>7. after[PLM4][0] = IdentityFrame
    <3>1. 0 \in EntryIndices
      BY FirmwareAssumption DEF EntryIndices
    <3>2. Apiece(way)
      BY <2>3 DEF Way
    <3>3. Enters(tables, after, way, w, 0)
      BY <3>1, <3>2, EnteredEntries
    <3>4. way[1] = PLM4 /\ PLM4 \in DOMAIN tables
      <4>1. Path(tables, PLM4, w)[1] = PLM4
        BY PathSteps
      <4>2. PLM4 \in own /\ PLM4 # Zero
        BY <1>2 DEF Inside
      <4>3. 1 \in 1 .. 4
        OBVIOUS
      <4> QED
        BY <2>3, <4>1, <4>2, <4>3 DEF Way
    <3>5. getIndizes(w)[1] # 0
      BY <1>6, VPagesType
    <3>6. 1 \in 1 .. 4
      OBVIOUS
    <3> HIDE DEF after
    <3>7. after[way[1]][0] = IF getIndizes(w)[1] = 0 THEN way[1 + 1]
                             ELSE IF way[1] \in DOMAIN tables THEN tables[way[1]][0] ELSE Zero
      BY <3>3, <3>6 DEF Enters
    <3> QED
      BY <1>2, <3>4, <3>5, <3>7
  <2>8. tables' = after
    BY <1>11
  <2> HIDE DEF after, more
  <2>9. \A f \in more : f \in Pages /\ f # RootFrame /\ memory'[f] = "loader"
    <3> SUFFICES ASSUME NEW l \in 1 .. 4
                 PROVE  way[l] \in Pages /\ way[l] # RootFrame /\ memory'[way[l]] = "loader"
      BY DEF more
    <3>1. l \in 1 .. 5
      OBVIOUS
    <3>2. CASE way[l] \in own
      BY <1>2, <2>2, <2>3, <2>4, <3>1, <3>2 DEF FirmwareTablesUntouched, MemoryKept
    <3>3. CASE way[l] \in given /\ way[l] \notin DOMAIN tables
      BY <2>2, <2>3, <2>4, <3>1, <3>3
    <3> QED
      BY <2>3, <3>2, <3>3
  <2>10. EfiTypeOK'
    <3>1. DOMAIN tables' \subseteq Pages /\ {PLM4', cr3'} \subseteq DOMAIN tables'
      BY <1>1, <1>2, <2>4, <2>5, <2>8, <2>9 DEF EfiTypeOK
    <3>2. \A f \in DOMAIN tables' : tables'[f] \in [0 .. Radix - 1 -> Pages \union {Zero}]
      BY <2>5, <2>8 DEF EntryIndices, AreTables
    <3> QED
      BY <1>1, <1>2, <1>4, <1>11, <2>2, <3>1, <3>2 DEF EfiTypeOK, MemoryKept, Kinds
  <2>11. FirmwareStays'
    BY <2>2, <2>4, <2>5, <2>8 DEF FirmwareStays, MemoryKept
  <2>12. FirmwareTablesUntouched'
    <3>1. after[RootFrame] = tables[RootFrame]
      <4>1. \A l \in 1 .. 4 : way[l] # RootFrame
        BY <2>9 DEF more
      <4> QED
        BY <2>4, <2>5, <4>1
    <3>2. \A f \in DOMAIN after \ {RootFrame} : memory'[f] = "loader"
      BY <1>2, <2>2, <2>4, <2>5, <2>9 DEF FirmwareTablesUntouched, MemoryKept
    <3> QED
      BY <1>2, <2>8, <3>1, <3>2 DEF FirmwareTablesUntouched
  <2>13. TablesBuilt'
    <3>1. DOMAIN after \ {RootFrame} = own \union more
      BY <2>5, <2>9
    <3>2. Inside(after, PLM4, DOMAIN after \ {RootFrame})
      BY <2>6, <3>1
    <3> QED
      BY <1>1, <2>6, <2>7, <2>8, <3>2 DEF TablesBuilt
  <2>14. PagesMapped'
    <3> SUFFICES ASSUME NEW k \in DOMAIN Segments, NEW n \in PageNumbers(k), PageMapped(k, n)'
                 PROVE  Path(after, PLM4, VPage(k, n))[5] = Segments[k].p_paddr + n
      BY <1>1, <2>8 DEF PagesMapped, PageNumbers, PageCount, VPage
    <3>1. CASE k = phdr /\ n = mapped
      BY <1>6, <2>3, <2>6, <3>1 DEF page
    <3>2. CASE ~(k = phdr /\ n = mapped)
      <4>1. PageMapped(k, n)
        BY <1>3, <3>2 DEF MapRound
      <4>2. VPage(k, n) # w
        BY <1>5, <1>6, <3>2, EachPageOnce
      <4>3. VPage(k, n) \in VPages
        BY VPagesType
      <4> QED
        BY <1>2, <2>6, <4>1, <4>2, <4>3 DEF PagesMapped
    <3> QED
      BY <3>1, <3>2
  <2>15. Ending'
    BY <1>1, <1>11 DEF Ending
  <2> QED
    BY <1>4, <1>8, <1>9, <2>2, <2>10, <2>11, <2>12, <2>13, <2>14, <2>15 DEF EfiInv
<1>12. \/ Take({}) /\ status' = "astray" /\ UNCHANGED tables
       \/ \E new \in [missing -> Free] :
            /\ \A l, m \in missing : new[l] = new[m] => l = m
            /\ Take({new[level] : level \in missing}) /\ UNCHANGED status
            /\ tables' = Entered(tables,
                 [level \in 1 .. 5 |-> IF level = 5 THEN page
                                       ELSE IF level \in missing THEN new[level]
                                       ELSE Path(tables, PLM4, w)[level]], w)
  <2> HIDE DEF w, page
  <2> QED
    BY <1>1 DEF MapMemory
<1> QED
  BY <1>10, <1>11, <1>12

(* The calls behind the loops: memory, tables and what is known of them    *)
(* stay.                                                                   *)
Late(t) ==
  /\ statement \in {"GetMemoryMap", "ExitBootServices", "KernelStart"}
  /\ statement' = t /\ t \in {"ExitBootServices", "KernelStart", "hlt"}
  /\ UNCHANGED <<loops, memory, tables, PLM4, MapSize>>

LEMMA LateInv ==
  ASSUME EfiInv, Sane, NEW t, Late(t), cr3' \in {cr3, PLM4}, MapTold', Ending',
         Map' \in {Map, memory}, MapKey' \in BOOLEAN, services' \in BOOLEAN,
         status' \in {"running", "halted", "kernel"}
  PROVE  EfiInv'
<1>1. /\ statement \in {"GetMemoryMap", "ExitBootServices", "KernelStart"}
      /\ statement' \in {"ExitBootServices", "KernelStart", "hlt"}
      /\ phdr' = phdr /\ mapped' = mapped /\ memory' = memory /\ tables' = tables
      /\ PLM4' = PLM4 /\ MapSize' = MapSize
  BY DEF Late, loops
<1>2. /\ EfiTypeOK /\ LoopsRest /\ SegmentsLoaded /\ PagesMapped /\ TablesBuilt
      /\ FirmwareStays /\ FirmwareTablesUntouched
  BY DEF EfiInv
<1>3. EfiTypeOK'
  BY <1>1, <1>2 DEF EfiTypeOK, Calls, PageCount
<1>4. FirmwareStays' /\ FirmwareTablesUntouched'
  BY <1>1, <1>2 DEF FirmwareStays, FirmwareTablesUntouched
<1>5. LoopsRest'
  BY <1>1, <1>2 DEF LoopsRest
<1>6. SegmentsLoaded'
  <2> SUFFICES ASSUME NEW k \in DOMAIN Segments, NEW n \in PageNumbers(k)
               PROVE  /\ Segments[k].p_paddr + n \in Pages
                      /\ memory[Segments[k].p_paddr + n] = "loader"
    BY <1>1 DEF SegmentsLoaded, PageNumbers, PageCount
  <2>1. Loaded(k)
    BY <1>1 DEF Loaded
  <2> QED
    BY <1>2, <2>1 DEF SegmentsLoaded
<1>7. PagesMapped'
  <2> SUFFICES ASSUME NEW k \in DOMAIN Segments, NEW n \in PageNumbers(k)
               PROVE  Path(tables, PLM4, VPage(k, n))[5] = Segments[k].p_paddr + n
    BY <1>1 DEF PagesMapped, PageNumbers, PageCount, VPage
  <2>1. PageMapped(k, n)
    BY <1>1 DEF PageMapped, Early
  <2> QED
    BY <1>2, <2>1 DEF PagesMapped
<1>8. TablesBuilt'
  BY <1>1, <1>2 DEF TablesBuilt, Early
<1> QED
  BY <1>3, <1>4, <1>5, <1>6, <1>7, <1>8 DEF EfiInv

LEMMA LateCallsInv ==
  ASSUME EfiInv, GetMemoryMap \/ ExitBootServices \/ KernelStart
  PROVE  EfiInv'
<1>1. status = "running" /\ Sane /\ MapTold /\ MapKey \in BOOLEAN /\ services \in BOOLEAN
  BY DEF EfiInv, EfiTypeOK, GetMemoryMap, ExitBootServices, KernelStart, Now, Sane
<1>2. CASE GetMemoryMap
  <2>1. /\ Late("ExitBootServices") /\ cr3' = cr3 /\ services' = services /\ status' = status
        /\ memory' = memory
    BY <1>2 DEF GetMemoryMap, Now, Then, Late
  <2>2. /\ \/ Map' = memory /\ MapKey' = TRUE
           \/ MapKey' \in BOOLEAN /\ Map' = Map
    BY <1>2 DEF GetMemoryMap
  <2>3. statement = "GetMemoryMap" /\ statement' = "ExitBootServices"
    BY <1>2 DEF GetMemoryMap, Now, Then
  <2>4. MapTold'
    BY <1>1, <2>1, <2>2, <2>3 DEF MapTold
  <2>5. Ending'
    BY <1>1, <2>1 DEF Ending
  <2> QED
    BY <1>1, <2>1, <2>2, <2>4, <2>5, LateInv
<1>3. CASE ExitBootServices
  <2>1. /\ Late("KernelStart") /\ cr3' = cr3 /\ Map' = Map /\ MapKey' = MapKey
        /\ memory' = memory
    BY <1>3 DEF ExitBootServices, Now, Then, Late
  <2>2. \/ MapKey /\ services' = FALSE /\ status' = status
        \/ ~MapKey /\ services' = services /\ status' = "halted"
    BY <1>1, <1>3 DEF ExitBootServices
  <2>3. statement = "ExitBootServices" /\ statement' = "KernelStart"
    BY <1>3 DEF ExitBootServices, Now, Then
  <2>4. MapTold'
    BY <1>1, <2>1, <2>2, <2>3 DEF MapTold
  <2>5. Ending'
    BY <1>1, <2>2, <2>3 DEF Ending
  <2> QED
    BY <1>1, <2>1, <2>2, <2>4, <2>5, LateInv
<1>4. CASE KernelStart
  <2>1. /\ Late("hlt") /\ cr3' = PLM4 /\ PLM4' = PLM4 /\ Map' = Map /\ MapKey' = MapKey
        /\ memory' = memory /\ services' = services /\ status' = "kernel"
    BY <1>4 DEF KernelStart, Now, Then, Late
  <2>2. statement = "KernelStart" /\ statement' = "hlt"
    BY <1>4 DEF KernelStart, Now, Then
  <2>3. MapTold'
    BY <1>1, <2>1, <2>2 DEF MapTold
  <2>4. Ending'
    BY <2>1, <2>2 DEF Ending
  <2> QED
    BY <1>1, <2>1, <2>3, <2>4, LateInv
<1> QED
  BY <1>2, <1>3, <1>4

(* The firmware leaves alone what is the loader's, and takes no service    *)
(* back.                                                                   *)
LEMMA EventInv == ASSUME EfiInv, Event \/ WakeUp \/ UNCHANGED efi PROVE EfiInv'
<1>1. /\ statement' = statement /\ phdr' = phdr /\ mapped' = mapped /\ tables' = tables
      /\ PLM4' = PLM4 /\ cr3' = cr3 /\ MapSize' = MapSize /\ Map' = Map /\ services' = services
  BY DEF Event, WakeUp, efi, loops
<1>2. /\ EfiTypeOK /\ MapTold /\ FirmwareStays
      /\ Sane => LoopsRest /\ SegmentsLoaded /\ PagesMapped /\ TablesBuilt /\ Ending
  BY DEF EfiInv
<1>3. /\ MemoryKept /\ MapKey' \in BOOLEAN
      /\ \/ services /\ MapKey' = FALSE
         \/ memory' = memory /\ MapKey' = MapKey
      /\ \/ status' = status
         \/ status = "halted" /\ status' = "running"
  <2>1. CASE Event
    <3>1. PICK p \in Pages \ {RootFrame, IdentityFrame} :
            \/ memory[p] = "free" /\ memory' = [memory EXCEPT ![p] = "firmware"]
            \/ memory[p] = "firmware" /\ memory' = [memory EXCEPT ![p] = "free"]
      BY <2>1 DEF Event
    <3>2. services /\ MapKey' = FALSE /\ status' = status
      BY <2>1 DEF Event
    <3>3. /\ memory \in [Pages -> Kinds]
          /\ memory[RootFrame] = "firmware" /\ memory[IdentityFrame] = "firmware"
          /\ RootFrame \in Pages /\ IdentityFrame \in Pages
      BY <1>2, FirmwareAssumption DEF EfiTypeOK, FirmwareStays, Kinds
    <3>4. memory' \in [Pages -> Kinds]
      BY <3>1, <3>3 DEF Kinds
    <3>5. \A q \in Pages : q # p => memory'[q] = memory[q]
      BY <3>1, <3>3
    <3>6. MemoryKept
      BY <3>1, <3>3, <3>4, <3>5 DEF MemoryKept
    <3> QED
      BY <3>2, <3>6
  <2>2. CASE WakeUp
    BY <2>2, UnchangedKeeps DEF WakeUp
  <2>3. CASE UNCHANGED efi
    BY <2>3, UnchangedKeeps DEF efi
  <2> QED
    BY <2>1, <2>2, <2>3
<1>4. EfiTypeOK'
  <2>1. status' \in {"running", "halted", "kernel", "astray", "overwrites"}
    BY <1>2, <1>3 DEF EfiTypeOK
  <2> QED
    BY <1>1, <1>2, <1>3, <2>1 DEF EfiTypeOK, Calls, MemoryKept, Kinds, PageCount
<1>5. FirmwareStays' /\ FirmwareTablesUntouched'
  BY <1>1, <1>3, FirmwareKept
<1>6. MapTold'
  BY <1>1, <1>2, <1>3 DEF MapTold
<1>7. ASSUME Sane' PROVE LoopsRest' /\ SegmentsLoaded' /\ PagesMapped' /\ TablesBuilt' /\ Ending'
  <2>1. Sane
    BY <1>3, <1>7 DEF Sane
  <2>2. LoopsRest' /\ TablesBuilt'
    BY <1>1, <1>2, <2>1 DEF LoopsRest, TablesBuilt
  <2>3. SegmentsLoaded'
    <3> SUFFICES ASSUME NEW k \in DOMAIN Segments, NEW n \in PageNumbers(k), Loaded(k)'
                 PROVE  /\ Segments[k].p_paddr + n \in Pages
                        /\ memory'[Segments[k].p_paddr + n] = "loader"
      BY DEF SegmentsLoaded, PageNumbers, PageCount
    <3>1. Loaded(k)
      BY <1>1 DEF Loaded
    <3> QED
      BY <1>2, <1>3, <2>1, <3>1 DEF SegmentsLoaded, MemoryKept
  <2>4. PagesMapped'
    <3> SUFFICES ASSUME NEW k \in DOMAIN Segments, NEW n \in PageNumbers(k), PageMapped(k, n)'
                 PROVE  Path(tables, PLM4, VPage(k, n))[5] = Segments[k].p_paddr + n
      BY <1>1 DEF PagesMapped, PageNumbers, PageCount, VPage
    <3>1. PageMapped(k, n)
      BY <1>1 DEF PageMapped
    <3> QED
      BY <1>2, <2>1, <3>1 DEF PagesMapped
  <2>5. Ending'
    BY <1>1, <1>2, <1>3, <2>1 DEF Ending
  <2> QED
    BY <2>2, <2>3, <2>4, <2>5
<1> QED
  BY <1>4, <1>5, <1>6, <1>7 DEF EfiInv

LEMMA InitEfiInv == ASSUME EfiInit PROVE EfiInv
<1>1. /\ statement = "LoadFile" /\ phdr = 1 /\ mapped = 0
      /\ tables = [f \in {RootFrame} |-> FirmwarePLM4]
      /\ PLM4 = RootFrame /\ cr3 = RootFrame
      /\ MapSize = 0 /\ Map = << >> /\ MapKey = FALSE
      /\ services = TRUE /\ status = "running"
  BY DEF EfiInit
<1>2. PICK use \in FirmwareUse :
        memory = [p \in Pages |-> IF p \in use THEN "firmware" ELSE "free"]
  BY DEF EfiInit
<1>3. /\ RootFrame \in use /\ IdentityFrame \in use /\ RootFrame \in Pages
      /\ IdentityFrame \in Pages /\ Radix \in Nat \ {0, 1} /\ IsFiniteSet(Pages)
  BY FirmwareAssumption
<1>4. FirmwareStays
  BY <1>1, <1>2, <1>3 DEF FirmwareStays
<1>5. FirmwareTablesUntouched
  BY <1>1 DEF FirmwareTablesUntouched
<1>6. EfiTypeOK
  <2>1. 1 \in DOMAIN Segments
    <3>1. Segments \in Seq([p_paddr : Nat, p_vaddr : Nat, p_memsz : Nat \ {0}])
          /\ Segments # << >>
      BY SegmentsAssumption
    <3>2. Len(Segments) \in Nat /\ Len(Segments) # 0 /\ DOMAIN Segments = 1 .. Len(Segments)
      BY <3>1
    <3> QED
      BY <3>2
  <2>2. 0 \in 0 .. PageCount(1) - 1
    BY <2>1, PageCountType
  <2>3. FirmwarePLM4 \in [0 .. Radix - 1 -> Pages \union {Zero}]
    BY <1>3 DEF FirmwarePLM4
  <2>4. 0 \in 0 .. Cardinality(Pages)
    BY <1>3, FS_CardinalityType
  <2>5. memory \in [Pages -> {"free", "loader", "firmware"}]
    BY <1>2
  <2>6. /\ DOMAIN tables = {RootFrame}
        /\ \A f \in DOMAIN tables : tables[f] \in [0 .. Radix - 1 -> Pages \union {Zero}]
    BY <1>1, <2>3
  <2> QED
    BY <1>1, <1>3, <2>1, <2>2, <2>4, <2>5, <2>6 DEF EfiTypeOK, Calls
<1>7. MapTold /\ LoopsRest /\ TablesBuilt /\ Ending
  BY <1>1 DEF MapTold, LoopsRest, TablesBuilt, Early, Ending
<1>8. SegmentsLoaded /\ PagesMapped
  BY <1>1 DEF SegmentsLoaded, Loaded, PagesMapped, PageMapped, Early
<1> QED
  BY <1>4, <1>5, <1>6, <1>7, <1>8 DEF EfiInv

THEOREM EfiInvariant == EfiSpec => []EfiInv
<1>1. EfiInv /\ [EfiNext]_efi => EfiInv'
  BY CallsInv, LoadSegmentInv, CopyPLM4Inv, MapPageInv, LateCallsInv, EventInv DEF EfiNext
<1> QED
  BY <1>1, InitEfiInv, PTL DEF EfiSpec

(* Whatever the firmware does between the calls, however the segments end  *)
(* and share page tables: with CR3 set, every page of the kernel that has  *)
(* a byte of a segment is on the page that was allocated for it, and the   *)
(* firmware's own mapping is there too (main.c:241-277, paging.c:35-67).   *)
THEOREM KernelGetsMapped == EfiSpec => []KernelIsMapped
<1>1. EfiInv => KernelIsMapped
  <2> SUFFICES ASSUME EfiInv PROVE KernelIsMapped
    OBVIOUS
  <2>1. SUFFICES ASSUME status = "kernel"
                 PROVE  /\ \A k \in DOMAIN Segments : \A byte \in 0 .. Segments[k].p_memsz - 1 :
                             LET n == byte \div PageBytes
                             IN  /\ Path(tables, cr3, Segments[k].p_vaddr + n)[5]
                                      = Segments[k].p_paddr + n
                                 /\ memory[Segments[k].p_paddr + n] = "loader"
                        /\ tables[cr3][0] = IdentityFrame
    BY DEF EfiInv, KernelIsMapped
  <2>2. /\ SegmentsLoaded /\ PagesMapped /\ TablesBuilt
        /\ statement = "hlt" /\ cr3 = PLM4
    BY <2>1 DEF EfiInv, Sane, Ending
  <2>3. ASSUME NEW k \in DOMAIN Segments, NEW n \in PageNumbers(k)
        PROVE  /\ Path(tables, cr3, Segments[k].p_vaddr + n)[5] = Segments[k].p_paddr + n
               /\ memory[Segments[k].p_paddr + n] = "loader"
    <3>1. Loaded(k) /\ PageMapped(k, n)
      BY <2>2 DEF Loaded, PageMapped, Early
    <3> QED
      BY <2>2, <3>1 DEF SegmentsLoaded, PagesMapped, VPage
  <2>4. \A k \in DOMAIN Segments : \A byte \in 0 .. Segments[k].p_memsz - 1 :
          byte \div PageBytes \in PageNumbers(k)
    BY PageCountType
  <2>5. tables[cr3][0] = IdentityFrame
    BY <2>2 DEF TablesBuilt, Early
  <2> QED
    BY <2>3, <2>4, <2>5
<1> QED
  BY <1>1, EfiInvariant, PTL

(* The firmware's PML4 is as it was at every step, with all that is under  *)
(* it: each table efi_main writes an entry to is a page it allocated       *)
(* (main.c:234, paging.c:35-67).                                           *)
THEOREM OwnTablesOnly == EfiSpec => []FirmwareTablesUntouched
<1>1. EfiInv => FirmwareTablesUntouched
  BY DEF EfiInv
<1> QED
  BY <1>1, EfiInvariant, PTL

(* A map the kernel gets from services that have ended is the one of       *)
(* memory: the key is refused when anything changed since (main.c:266-276).*)
THEOREM KeyGuardsMap == EfiSpec => []MapIsCurrent
<1>1. EfiInv => MapIsCurrent
  BY DEF EfiInv, MapTold, MapIsCurrent
<1> QED
  BY <1>1, EfiInvariant, PTL
=============================================================================
