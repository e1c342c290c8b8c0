------------------------------ MODULE HeapProofs ------------------------------
(***************************************************************************)
(* For any sizes of the heap, of its pages and of its headers, and for any *)
(* sizes asked for: as long as none of the failures in Statuses happened,  *)
(* free segments and live blocks tile the heap, the free list is a sorted  *)
(* ring through the free segments, no two of which are neighbours, and the *)
(* blocks somebody holds are apart and stay where they are.  The invariant *)
(* speaks of the set of headers, DOMAIN heap.memory, because every header  *)
(* that is not a live block's is free; that following nextHeader meets     *)
(* exactly those is a lemma (FreeListIsFree).                              *)
(***************************************************************************)
EXTENDS Heap, FiniteSetTheorems, WellFoundedInduction, TLAPS

(* Headers of segments, and whatever else headers may become.              *)
Headers == [magic : BOOLEAN, size : Nat, nextHeader : Nat, previousHeader : Nat]

HeapRecord(h) ==
  /\ h = [memory |-> h.memory, end |-> h.end, size |-> h.size,
          mappedPages |-> h.mappedPages, startSec |-> h.startSec, head |-> h.head]
  /\ h.memory \in [DOMAIN h.memory -> Headers]
  /\ h.end \in Nat /\ h.size \in Nat /\ h.mappedPages \in Nat
  /\ h.startSec \in Nat /\ h.head \in Nat

FreeSegments(h, blocks) == DOMAIN h.memory \ blocks

(* The free segments are linked both ways in the order of their addresses. *)
Linked(h, free) ==
  /\ h.head = Begin /\ Begin \in free
  /\ \A f \in free :
       LET next == h.memory[f].nextHeader
           prev == h.memory[f].previousHeader
       IN  /\ f >= Begin /\ h.memory[f].magic
           /\ next \in free /\ h.memory[next].previousHeader = f
           /\ prev \in free /\ h.memory[prev].nextHeader = f
           /\ \/ next > f /\ \A g \in free : g > f => g >= next
              \/ next = Begin /\ \A g \in free : g <= f

(* Every segment ends where the next one begins, the last at the end.      *)
Tiled(h) ==
  /\ \A s \in DOMAIN h.memory :
       /\ s \in Nat /\ s >= Begin /\ h.memory[s].magic
       /\ EndOf(h.memory, s) \in DOMAIN h.memory \union {h.end}
       /\ EndOf(h.memory, s) <= h.end
  /\ \A s, t \in DOMAIN h.memory : s < t => EndOf(h.memory, s) <= t

Merged(h, free) == \A s, t \in free : EndOf(h.memory, s) # t

HeapShape(h, blocks) ==
  /\ HeapRecord(h)
  /\ IsFiniteSet(DOMAIN h.memory)
  /\ blocks \subseteq DOMAIN h.memory
  /\ Linked(h, FreeSegments(h, blocks))
  /\ Tiled(h)
  /\ h.startSec # Null
  /\ h.startSec \notin blocks

HeapSound(h, blocks) == HeapShape(h, blocks) /\ Merged(h, FreeSegments(h, blocks))

SizesAgree(h) == h.size = h.end - Begin /\ h.size = h.mappedPages * PageSize

Inv ==
  /\ TypeOK /\ HeapRecord(heap) /\ SizesAgree(heap) /\ frames <= freeRam
  /\ Running => HeapSound(heap, live)

-------------------------------------------------------------------------------
(* Sets of naturals.                                                       *)

(* A set of naturals that is not empty has a smallest member.              *)
LEMMA SmallestExists ==
  ASSUME NEW S \in SUBSET Nat, S # {}
  PROVE  \E n \in S : \A m \in S : n <= m
<1>1. PICK n \in S : \A m \in S : ~(<<m, n>> \in OpToRel(<, Nat))
  BY NatLessThanWellFounded, WFMin, Zenon
<1>2. \A m \in S : ~(m < n)
  BY <1>1 DEF OpToRel
<1>3. n \in Nat /\ \A m \in S : m \in Nat
  OBVIOUS
<1> QED BY <1>2, <1>3

(* A bounded one has a largest member.                                     *)
LEMMA LargestExists ==
  ASSUME NEW S \in SUBSET Nat, S # {}, NEW bound \in Nat, \A s \in S : s <= bound
  PROVE  \E n \in S : \A m \in S : m <= n
<1> DEFINE T == {bound - s : s \in S}
<1>1. T \in SUBSET Nat /\ T # {}
  <2>1. \A s \in S : bound - s \in Nat
    OBVIOUS
  <2>2. PICK s \in S : TRUE
    OBVIOUS
  <2>3. bound - s \in T
    OBVIOUS
  <2> QED BY <2>1, <2>3
<1>2. PICK t \in T : \A u \in T : t <= u
  BY <1>1, SmallestExists
<1>3. PICK n \in S : t = bound - n
  BY <1>2
<1>4. ASSUME NEW m \in S PROVE m <= n
  <2>1. bound - m \in T
    OBVIOUS
  <2> QED BY <1>2, <1>3, <2>1
<1> QED BY <1>4

-------------------------------------------------------------------------------
(* Following nextHeader.                                                   *)

(* The walks of the specification have finitely many steps.                *)
LEMMA StepsType ==
  ASSUME NEW h, IsFiniteSet(DOMAIN h.memory)
  PROVE  /\ Cardinality(DOMAIN h.memory) \in Nat
         /\ Steps(h) = 0 .. Cardinality(DOMAIN h.memory) + 1
BY FS_CardinalityType DEF Steps

(* What the first n steps of a walk lead to.                               *)
Walks(h, start, n, seg) ==
  /\ seg = [k \in 0 .. n |-> seg[k]]
  /\ seg[0] = start
  /\ \A k \in 0 .. n : k # 0 => seg[k] = At(h.memory, seg[k - 1]).nextHeader

(* A walk of any number of steps exists.                                   *)
LEMMA WalkExists ==
  ASSUME NEW h, NEW start, NEW N \in Nat
  PROVE  \E seg : Walks(h, start, N, seg)
<1> DEFINE Missing == {n \in Nat : ~\E seg : Walks(h, start, n, seg)}
<1>1. ASSUME Missing # {} PROVE FALSE
  <2>1. PICK n \in Missing : \A m \in Missing : n <= m
    BY <1>1, SmallestExists
  <2>2. n # 0
    <3> DEFINE one == [k \in 0 .. 0 |-> start]
    <3>1. Walks(h, start, 0, one)
      BY DEF Walks
    <3> QED BY <3>1
  <2>3. PICK seg : Walks(h, start, n - 1, seg)
    BY <2>1, <2>2
  <2> DEFINE more == [k \in 0 .. n |->
                        IF k = n THEN At(h.memory, seg[k - 1]).nextHeader ELSE seg[k]]
  <2>4. more[0] = start
    BY <2>2, <2>3 DEF Walks
  <2>5. ASSUME NEW k \in 0 .. n, k # 0
        PROVE  more[k] = At(h.memory, more[k - 1]).nextHeader
    <3>1. k - 1 \in 0 .. n - 1 /\ more[k - 1] = seg[k - 1]
      BY <2>5
    <3>2. CASE k = n
      BY <3>1, <3>2
    <3>3. CASE k # n
      <4>1. k \in 0 .. n - 1 /\ more[k] = seg[k]
        BY <3>3
      <4> QED BY <2>3, <2>5, <3>1, <4>1 DEF Walks
    <3> QED BY <3>2, <3>3
  <2>6. more = [k \in 0 .. n |-> more[k]]
    OBVIOUS
  <2> HIDE DEF more
  <2>7. Walks(h, start, n, more)
    BY <2>4, <2>5, <2>6 DEF Walks
  <2> QED BY <2>1, <2>7
<1>2. N \notin Missing
  BY <1>1
<1> QED BY <1>2

(* Followed is such a walk.                                                *)
LEMMA FollowedRecursion ==
  ASSUME NEW h, IsFiniteSet(DOMAIN h.memory), NEW start
  PROVE  /\ Followed(h, start)[0] = start
         /\ \A k \in Steps(h) :
              k # 0 => Followed(h, start)[k]
                         = At(h.memory, Followed(h, start)[k - 1]).nextHeader
<1> DEFINE N == Cardinality(DOMAIN h.memory) + 1
           F == Followed(h, start)
<1>1. N \in Nat /\ Steps(h) = 0 .. N
  BY StepsType
<1>2. \E seg : seg = [k \in Steps(h) |->
                        IF k = 0 THEN start ELSE At(h.memory, seg[k - 1]).nextHeader]
  <2> HIDE DEF N
  <2>1. PICK seg : Walks(h, start, N, seg)
    BY <1>1, WalkExists
  <2>2. \A k \in 0 .. N :
          seg[k] = IF k = 0 THEN start ELSE At(h.memory, seg[k - 1]).nextHeader
    BY <2>1 DEF Walks
  <2>3. seg = [k \in 0 .. N |->
                 IF k = 0 THEN start ELSE At(h.memory, seg[k - 1]).nextHeader]
    BY <2>1, <2>2 DEF Walks
  <2> QED BY <1>1, <2>3
<1>3. F = [k \in Steps(h) |->
             IF k = 0 THEN start ELSE At(h.memory, F[k - 1]).nextHeader]
  BY <1>2 DEF Followed
<1> HIDE DEF F, N
<1>4. \A k \in Steps(h) : F[k] = IF k = 0 THEN start ELSE At(h.memory, F[k - 1]).nextHeader
  BY <1>3
<1>5. 0 \in Steps(h)
  BY <1>1
<1> QED BY <1>4, <1>5 DEF F

(* The walk from a free segment meets free segments only, and is back      *)
(* before the steps run out.                                               *)
LEMMA FollowedReturns ==
  ASSUME NEW h, NEW blocks, HeapSound(h, blocks),
         NEW start \in FreeSegments(h, blocks)
  PROVE  /\ \A k \in Steps(h) : Followed(h, start)[k] \in FreeSegments(h, blocks)
         /\ \E k \in Steps(h) : k # 0 /\ Followed(h, start)[k] = start
<1> DEFINE D == DOMAIN h.memory
           free == FreeSegments(h, blocks)
           N == Cardinality(D)
           F == Followed(h, start)
<1>1. N \in Nat /\ Steps(h) = 0 .. N + 1 /\ IsFiniteSet(D)
  BY StepsType DEF HeapSound, HeapShape
<1>2. F[0] = start /\ \A k \in Steps(h) : k # 0 => F[k] = At(h.memory, F[k - 1]).nextHeader
  BY <1>1, FollowedRecursion
<1>3. free \subseteq D /\ start \in free
  BY DEF FreeSegments
<1>4. \A f \in free : /\ At(h.memory, f) = h.memory[f]
                      /\ h.memory[f].nextHeader \in free
                      /\ h.memory[h.memory[f].nextHeader].previousHeader = f
  BY <1>3 DEF HeapSound, HeapShape, Linked, At
<1> HIDE DEF F, free, D, N
<1>5. ASSUME NEW k \in Steps(h) PROVE F[k] \in free
  <2> DEFINE Out == {j \in Nat : j \in Steps(h) /\ F[j] \notin free}
  <2>1. ASSUME Out # {} PROVE FALSE
    <3>1. PICK j \in Out : \A i \in Out : j <= i
      BY <2>1, SmallestExists
    <3>2. j # 0
      BY <1>2, <1>3, <3>1
    <3>3. j - 1 \in Steps(h) /\ F[j - 1] \in free
      BY <1>1, <3>1, <3>2
    <3> QED BY <1>2, <1>4, <3>1, <3>2, <3>3
  <2> QED BY <1>1, <2>1
<1>6. ASSUME \A k \in Steps(h) : k # 0 => F[k] # start PROVE FALSE
  <2> DEFINE f == [k \in 0 .. N + 1 |-> F[k]]
             Twice == {i \in Nat : \E j \in Steps(h) : i < j /\ F[i] = F[j]}
  <2>1. f \in [0 .. N + 1 -> D]
    BY <1>1, <1>3, <1>5
  <2>2. IsFiniteSet(0 .. N + 1) /\ Cardinality(0 .. N + 1) = N + 2
    BY <1>1, FS_Interval, 0 \in Int, N + 1 \in Int
  <2>3. Cardinality(D) < Cardinality(0 .. N + 1)
    BY <1>1, <2>2 DEF N
  <2> HIDE DEF f
  <2>4. PICK i \in 0 .. N + 1, j \in 0 .. N + 1 : i # j /\ f[i] = f[j]
    BY <1>1, <2>1, <2>2, <2>3, FS_PigeonHole
  <2>5. F[i] = F[j]
    BY <2>4 DEF f
  <2>6. Twice # {} /\ Twice \in SUBSET Nat
    BY <1>1, <2>4, <2>5
  <2>7. PICK m \in Twice : \A n \in Twice : m <= n
    BY <2>6, SmallestExists
  <2>8. PICK n \in Steps(h) : m < n /\ F[m] = F[n]
    BY <2>7
  <2>9. m # 0
    BY <1>1, <1>2, <1>6, <2>8
  <2>10. /\ m - 1 \in Steps(h) /\ n - 1 \in Steps(h) /\ m \in Steps(h)
         /\ m - 1 \in Nat /\ m - 1 < n - 1 /\ n # 0
    BY <1>1, <2>7, <2>8, <2>9
  <2>11. F[m - 1] = h.memory[F[m]].previousHeader /\ F[n - 1] = h.memory[F[n]].previousHeader
    BY <1>2, <1>4, <1>5, <2>8, <2>9, <2>10
  <2>12. m - 1 \in Twice
    BY <2>8, <2>10, <2>11
  <2> QED BY <2>7, <2>12
<1> QED BY <1>5, <1>6 DEF F, free

(* Free segments are addresses below the end of the heap.                  *)
LEMMA ShapeType ==
  ASSUME NEW h, NEW blocks, HeapShape(h, blocks)
  PROVE  /\ h.end \in Nat
         /\ \A s \in DOMAIN h.memory :
              /\ s \in Nat /\ s >= Begin /\ s < h.end
              /\ h.memory[s] \in Headers /\ h.memory[s].size \in Nat
              /\ h.memory[s].magic = TRUE
              /\ At(h.memory, s) = h.memory[s]
              /\ EndOf(h.memory, s) \in Nat /\ EndOf(h.memory, s) > s
         /\ Null \notin DOMAIN h.memory
<1>1. h.end \in Nat /\ h.memory \in [DOMAIN h.memory -> Headers]
  BY DEF HeapShape, HeapRecord
<1>2. ASSUME NEW s \in DOMAIN h.memory
      PROVE  /\ s \in Nat /\ s >= Begin /\ s < h.end
             /\ h.memory[s] \in Headers /\ h.memory[s].size \in Nat
             /\ h.memory[s].magic = TRUE
             /\ At(h.memory, s) = h.memory[s]
             /\ EndOf(h.memory, s) \in Nat /\ EndOf(h.memory, s) > s
  <2>1. h.memory[s] \in Headers /\ h.memory[s].size \in Nat
    BY <1>1 DEF Headers
  <2>2. /\ s \in Nat /\ s >= Begin /\ h.memory[s].magic
        /\ EndOf(h.memory, s) <= h.end
    BY DEF HeapShape, Tiled
  <2>3. EndOf(h.memory, s) \in Nat /\ EndOf(h.memory, s) > s
    BY <2>1, <2>2, HeapAssumption DEF EndOf
  <2>4. h.memory[s].magic = TRUE
    BY <2>1, <2>2 DEF Headers
  <2> QED BY <1>1, <2>1, <2>2, <2>3, <2>4 DEF At
<1>3. Null \notin DOMAIN h.memory
  <2>1. \A s \in DOMAIN h.memory : s \in Nat /\ s >= Begin
    BY <1>2
  <2> QED BY <2>1, HeapAssumption DEF Null
<1> QED BY <1>1, <1>2, <1>3

(* The same of a sound heap.                                               *)
LEMMA SegmentsType ==
  ASSUME NEW h, NEW blocks, HeapSound(h, blocks)
  PROVE  /\ h.end \in Nat
         /\ \A s \in DOMAIN h.memory :
              /\ s \in Nat /\ s >= Begin /\ s < h.end
              /\ h.memory[s] \in Headers /\ h.memory[s].size \in Nat
              /\ h.memory[s].magic = TRUE
              /\ At(h.memory, s) = h.memory[s]
              /\ EndOf(h.memory, s) \in Nat /\ EndOf(h.memory, s) > s
         /\ Null \notin DOMAIN h.memory
<1>1. HeapShape(h, blocks)
  BY DEF HeapSound
<1> QED BY <1>1, ShapeType

(* Free segments that nextHeader does not leave are all of them.           *)
LEMMA RingIsOne ==
  ASSUME NEW h, NEW blocks, HeapSound(h, blocks),
         NEW some \in SUBSET FreeSegments(h, blocks), some # {},
         \A f \in some : h.memory[f].nextHeader \in some
  PROVE  some = FreeSegments(h, blocks)
<1> DEFINE free == FreeSegments(h, blocks)
<1>1. /\ free \subseteq Nat /\ \A f \in free : f <= h.end
      /\ h.end \in Nat /\ Begin \in free
  <2>1. h.end \in Nat /\ \A s \in DOMAIN h.memory : s \in Nat /\ s < h.end
    BY SegmentsType
  <2>2. free \subseteq DOMAIN h.memory /\ Begin \in free
    BY DEF FreeSegments, HeapSound, HeapShape, Linked
  <2> QED BY <2>1, <2>2
<1>2. \A f \in free :
        LET next == h.memory[f].nextHeader
            prev == h.memory[f].previousHeader
        IN  /\ f >= Begin
            /\ next \in free /\ h.memory[next].previousHeader = f
            /\ prev \in free /\ h.memory[prev].nextHeader = f
            /\ \/ next > f /\ \A g \in free : g > f => g >= next
               \/ next = Begin /\ \A g \in free : g <= f
  BY DEF HeapSound, HeapShape, Linked
<1> HIDE DEF free
<1>3. some \subseteq free
  BY DEF free
<1>4. Begin \in some
  <2>1. PICK last \in some : \A f \in some : f <= last
    BY <1>1, <1>3, LargestExists
  <2>2. h.memory[last].nextHeader \in some
    BY <2>1
  <2>3. last \in Nat /\ h.memory[last].nextHeader \in Nat
        /\ h.memory[last].nextHeader <= last
    BY <1>1, <1>3, <2>1, <2>2
  <2> QED BY <1>2, <1>3, <2>1, <2>2, <2>3
<1>5. ASSUME free \ some # {} PROVE FALSE
  <2>1. PICK f \in free \ some : \A g \in free \ some : f <= g
    BY <1>1, <1>5, SmallestExists
  <2> DEFINE prev == h.memory[f].previousHeader
  <2>2. prev \in free /\ h.memory[prev].nextHeader = f
    BY <1>2, <2>1
  <2> HIDE DEF prev
  <2>3. f # Begin /\ f \in Nat /\ prev \in Nat
    BY <1>1, <1>4, <2>1, <2>2
  <2>4. prev < f
    BY <1>2, <2>2, <2>3
  <2>5. prev \in some
    BY <2>1, <2>2, <2>3, <2>4
  <2> QED BY <2>1, <2>2, <2>5
<1> QED BY <1>3, <1>5 DEF free

(* Until it is back the walk has met every free segment.                   *)
LEMMA FollowedMeetsAll ==
  ASSUME NEW h, NEW blocks, HeapSound(h, blocks),
         NEW start \in FreeSegments(h, blocks),
         NEW k \in Steps(h), k # 0, Followed(h, start)[k] = start
  PROVE  {Followed(h, start)[m] : m \in 0 .. k - 1} = FreeSegments(h, blocks)
<1> DEFINE F == Followed(h, start)
           some == {F[m] : m \in 0 .. k - 1}
           N == Cardinality(DOMAIN h.memory)
<1>1. N \in Nat /\ Steps(h) = 0 .. N + 1
  BY StepsType DEF HeapSound, HeapShape
<1>2. \A m \in Steps(h) : m # 0 => F[m] = At(h.memory, F[m - 1]).nextHeader
  BY FollowedRecursion DEF HeapSound, HeapShape
<1>3. F[0] = start
  BY FollowedRecursion DEF HeapSound, HeapShape
<1>4. \A m \in Steps(h) : F[m] \in FreeSegments(h, blocks)
  BY FollowedReturns
<1>5. \A f \in FreeSegments(h, blocks) : At(h.memory, f) = h.memory[f]
  BY SegmentsType DEF FreeSegments
<1> HIDE DEF F, N
<1>6. some \in SUBSET FreeSegments(h, blocks)
  BY <1>1, <1>4
<1>7. 0 \in 0 .. k - 1
  BY <1>1
<1>8. some # {}
  BY <1>7
<1>9. ASSUME NEW m \in 0 .. k - 1 PROVE h.memory[F[m]].nextHeader \in some
  <2>1. m \in Steps(h) /\ m + 1 \in Steps(h) /\ m + 1 # 0 /\ (m + 1) - 1 = m
    BY <1>1
  <2>2. h.memory[F[m]].nextHeader = F[m + 1]
    BY <1>2, <1>4, <1>5, <2>1
  <2>3. CASE m + 1 = k
    BY <1>3, <1>7, <2>2, <2>3 DEF F
  <2>4. CASE m + 1 # k
    <3>1. m + 1 \in 0 .. k - 1
      BY <1>1, <2>4
    <3> QED BY <2>2, <3>1
  <2> QED BY <2>3, <2>4
<1>10. \A f \in some : h.memory[f].nextHeader \in some
  BY <1>9
<1> HIDE DEF some
<1>11. some = FreeSegments(h, blocks)
  BY <1>6, <1>8, <1>10, RingIsOne
<1> QED BY <1>11 DEF some, F

(* The list delete walks holds the free segments.                          *)
LEMMA FreeListIsFree ==
  ASSUME NEW h, NEW blocks, HeapSound(h, blocks)
  PROVE  FreeList(h) = FreeSegments(h, blocks)
<1> DEFINE F == Followed(h, h.head)
<1>1. h.head \in FreeSegments(h, blocks)
  BY DEF HeapSound, HeapShape, Linked
<1>2. \A k \in Steps(h) : F[k] \in FreeSegments(h, blocks)
  BY <1>1, FollowedReturns
<1>3. PICK k \in Steps(h) : k # 0 /\ F[k] = h.head
  BY <1>1, FollowedReturns
<1>4. {F[m] : m \in 0 .. k - 1} = FreeSegments(h, blocks)
  BY <1>1, <1>3, FollowedMeetsAll
<1>5. Cardinality(DOMAIN h.memory) \in Nat
      /\ Steps(h) = 0 .. Cardinality(DOMAIN h.memory) + 1
  BY StepsType DEF HeapSound, HeapShape
<1>6. 0 .. k - 1 \subseteq Steps(h)
  BY <1>5
<1>7. Null \notin FreeSegments(h, blocks)
  BY SegmentsType DEF FreeSegments
<1> QED BY <1>2, <1>4, <1>6, <1>7 DEF FreeList

(* What findFreeSegment returns: -1 if the segment it starts from is gone, *)
(* a segment that is large enough, or Null if there is none.               *)
LEMMA Finding ==
  ASSUME NEW h, NEW blocks, HeapSound(h, blocks), NEW sz \in Nat \ {0}
  PROVE  LET found == findFreeSegment(h, sz)
             free == FreeSegments(h, blocks)
         IN  \/ h.startSec \notin free /\ found = -1
             \/ h.startSec \in free /\ found \in free /\ h.memory[found].size >= sz
             \/ h.startSec \in free /\ found = Null
                  /\ \A f \in free : h.memory[f].size < sz
<1> DEFINE free == FreeSegments(h, blocks)
           V == Visited(h)
           N == Cardinality(DOMAIN h.memory)
           First(k) == Stops(h, sz, k) /\ \A m \in 0 .. k - 1 : ~Stops(h, sz, m)
           k == CHOOSE n \in Steps(h) : First(n)
           found == findFreeSegment(h, sz)
<1>1. N \in Nat /\ Steps(h) = 0 .. N + 1
  BY StepsType DEF HeapSound, HeapShape
<1>2. V[0] = h.startSec
      /\ \A m \in Steps(h) : m # 0 => V[m] = At(h.memory, V[m - 1]).nextHeader
  BY FollowedRecursion DEF HeapSound, HeapShape, Visited
<1>3. found = IF k > 0 /\ V[k] = h.startSec THEN Null
              ELSE IF k > 0 /\ ~At(h.memory, V[k]).magic THEN -1
              ELSE V[k]
  BY DEF findFreeSegment
<1>4. \A m : Stops(h, sz, m) <=>
         \/ At(h.memory, V[m]).size >= sz
         \/ m > 0 /\ (V[m] = h.startSec \/ ~At(h.memory, V[m]).magic)
  BY DEF Stops
<1>5. ASSUME NEW m \in Steps(h), Stops(h, sz, m)
      PROVE  k \in Steps(h) /\ First(k)
  <2> DEFINE S == {n \in Nat : n \in Steps(h) /\ Stops(h, sz, n)}
  <2>1. m \in S
    BY <1>1, <1>5
  <2>2. PICK n \in S : \A l \in S : n <= l
    BY <2>1, SmallestExists
  <2>3. n \in Steps(h) /\ First(n)
    BY <1>1, <2>2
  <2> HIDE DEF First
  <2> QED BY <2>3
<1>6. \A f \in free : /\ At(h.memory, f) = h.memory[f] /\ h.memory[f].magic = TRUE
                      /\ h.memory[f].size \in Nat /\ f # Null
  <2>1. free \subseteq DOMAIN h.memory
    BY DEF FreeSegments
  <2> HIDE DEF free
  <2> QED BY <2>1, SegmentsType
<1> HIDE DEF V, k, found
<1>7. CASE h.startSec \in free
  <2>1. \A m \in Steps(h) : V[m] \in free
    BY <1>7, FollowedReturns DEF Visited, V
  <2>2. PICK m \in Steps(h) : m # 0 /\ V[m] = h.startSec
    BY <1>7, FollowedReturns DEF Visited, V
  <2>3. Stops(h, sz, m)
    BY <1>1, <1>4, <2>2
  <2>4. k \in Steps(h) /\ First(k)
    BY <1>5, <2>3
  <2>5. CASE k > 0 /\ V[k] = h.startSec
    <3>1. {V[n] : n \in 0 .. k - 1} = free
      BY <1>7, <2>4, <2>5, FollowedMeetsAll DEF Visited, V
    <3>2. ASSUME NEW n \in 0 .. k - 1 PROVE h.memory[V[n]].size < sz
      <4>1. ~Stops(h, sz, n) /\ V[n] \in free
        BY <2>4, <3>1
      <4>2. ~(h.memory[V[n]].size >= sz)
        BY <1>4, <1>6, <4>1
      <4> QED BY <1>6, <4>1, <4>2
    <3>3. \A f \in free : h.memory[f].size < sz
      BY <3>1, <3>2
    <3> QED BY <1>3, <1>7, <2>5, <3>3 DEF found
  <2>6. CASE ~(k > 0 /\ V[k] = h.startSec)
    <3>1. V[k] \in free /\ At(h.memory, V[k]).magic = TRUE
      BY <1>6, <2>1, <2>4
    <3>2. found = V[k]
      BY <1>3, <2>6, <3>1
    <3>3. h.memory[V[k]].size >= sz
      BY <1>4, <1>6, <2>4, <2>6, <3>1
    <3> QED BY <1>7, <3>1, <3>2, <3>3 DEF found
  <2> QED BY <2>5, <2>6
<1>8. CASE h.startSec \notin free
  <2>1. h.startSec \notin DOMAIN h.memory /\ h.startSec # Null
    BY <1>8 DEF HeapSound, HeapShape, FreeSegments
  <2>2. Null \notin DOMAIN h.memory
    BY SegmentsType
  <2>3. At(h.memory, h.startSec) = ZeroHeader /\ At(h.memory, Null) = ZeroHeader
    BY <2>1, <2>2 DEF At
  <2>4. /\ ZeroHeader.size = 0 /\ ZeroHeader.nextHeader = Null
        /\ ZeroHeader.magic = FALSE
    BY DEF ZeroHeader
  <2>5. V[1] = Null /\ 1 \in Steps(h) /\ 0 \in Steps(h)
    <3>1. 1 \in Steps(h) /\ 1 - 1 = 0 /\ 0 \in Steps(h)
      BY <1>1
    <3> QED BY <1>2, <2>3, <2>4, <3>1
  <2>6. ~Stops(h, sz, 0)
    BY <1>2, <1>4, <2>3, <2>4
  <2>7. Stops(h, sz, 1)
    BY <1>4, <2>3, <2>4, <2>5
  <2>8. k \in Steps(h) /\ First(k)
    BY <1>5, <2>5, <2>7
  <2>9. k = 1
    <3>1. k \in Nat
      BY <1>1, <2>8
    <3>2. k # 0
      BY <2>6, <2>8
    <3>3. ~(k > 1)
      <4>1. k > 1 => 1 \in 0 .. k - 1
        BY <3>1
      <4> QED BY <2>7, <2>8, <4>1
    <3> QED BY <3>1, <3>2, <3>3
  <2>10. found = -1
    BY <1>3, <2>1, <2>3, <2>4, <2>5, <2>9
  <2> QED BY <1>8, <2>10 DEF found
<1> QED BY <1>7, <1>8

-------------------------------------------------------------------------------
(* What the parts of new and delete do to a sound heap.                    *)

(* new cuts a block off the end of a free segment.                         *)
LEMMA SplitSound ==
  ASSUME NEW h, NEW blocks, HeapSound(h, blocks),
         NEW seg \in FreeSegments(h, blocks), NEW sz \in Nat \ {0},
         h.memory[seg].size >= sz, ~WholeSegment(h, seg, sz)
  PROVE  LET after == Split(h, seg, sz)
             block == SplitOff(h, seg, sz)
         IN  /\ HeapSound(after, blocks \union {block})
             /\ block \notin DOMAIN h.memory
             /\ \A b \in blocks : after.memory[b] = h.memory[b]
             /\ <<after.end, after.size, after.mappedPages>>
                  = <<h.end, h.size, h.mappedPages>>
<1> DEFINE m == h.memory
           D == DOMAIN m
           left == m[seg].size - sz
           block == SplitOff(h, seg, sz)
           after == Split(h, seg, sz)
           m1 == after.memory
           free == FreeSegments(h, blocks)
<1>1. /\ \A s \in D : /\ s \in Nat /\ s >= Begin /\ m[s] \in Headers
                      /\ m[s].size \in Nat /\ m[s].magic = TRUE
      /\ seg \in D /\ blocks \subseteq D /\ free = D \ blocks
      /\ HeaderSize \in Nat \ {0} /\ sz \in Nat
  BY SegmentsType, HeapAssumption DEF HeapSound, HeapShape, FreeSegments
<1>2. /\ left \in Nat /\ left >= HeaderSize * 2 /\ left - HeaderSize \in Nat
      /\ block = seg + left /\ seg < block /\ block \in Nat
  BY <1>1 DEF WholeSegment, SplitOff
<1>3. block + sz + HeaderSize = EndOf(m, seg) /\ block < EndOf(m, seg)
  BY <1>1, <1>2 DEF EndOf
<1>4. block \notin D
  BY <1>1, <1>2, <1>3 DEF HeapSound, HeapShape, Tiled
<1>5. /\ DOMAIN m1 = D \union {block}
      /\ m1[block] = Header(sz, Null, Null)
      /\ m1[seg] = [m[seg] EXCEPT !.size = left - HeaderSize]
      /\ \A a \in D : a # seg => m1[a] = m[a]
      /\ m1 = [a \in DOMAIN m1 |-> m1[a]]
  BY <1>1, <1>2, <1>4 DEF Split, Put
<1>6. /\ after = [memory |-> m1, end |-> h.end, size |-> h.size,
                  mappedPages |-> h.mappedPages,
                  startSec |-> m[seg].nextHeader, head |-> h.head]
  <2> DEFINE put == Put([m EXCEPT ![seg].size = left - HeaderSize],
                        seg + left, Header(sz, Null, Null))
             start == m[seg].nextHeader
  <2>1. after = [h EXCEPT !.startSec = start, !.memory = put]
    BY DEF Split
  <2>2. h = [memory |-> m, end |-> h.end, size |-> h.size, mappedPages |-> h.mappedPages,
             startSec |-> h.startSec, head |-> h.head]
    BY DEF HeapSound, HeapShape, HeapRecord
  <2> HIDE DEF put, start, after
  <2>3. after = [memory |-> put, end |-> h.end, size |-> h.size,
                 mappedPages |-> h.mappedPages, startSec |-> start, head |-> h.head]
    BY <2>1, <2>2
  <2>4. after.memory = put
    BY <2>3
  <2> QED BY <2>3, <2>4 DEF start
<1>7. /\ \A a \in D : /\ m1[a] \in Headers /\ m1[a].magic = m[a].magic
                      /\ m1[a].nextHeader = m[a].nextHeader
                      /\ m1[a].previousHeader = m[a].previousHeader
      /\ m1[seg].size = left - HeaderSize
      /\ m1[block] \in Headers /\ m1[block].size = sz /\ m1[block].magic = TRUE
  BY <1>1, <1>2, <1>5 DEF Headers, Header, Null
<1>8. /\ EndOf(m1, seg) = block
      /\ EndOf(m1, block) = EndOf(m, seg)
      /\ \A a \in D : a # seg => EndOf(m1, a) = EndOf(m, a)
  BY <1>1, <1>2, <1>3, <1>5, <1>7 DEF EndOf
<1>9. /\ after.memory = m1 /\ after.end = h.end /\ after.size = h.size
      /\ after.mappedPages = h.mappedPages /\ after.head = h.head
      /\ after.startSec = m[seg].nextHeader
  BY <1>6
<1> HIDE DEF block, after, m1, left
<1>10. FreeSegments(after, blocks \union {block}) = free
  BY <1>1, <1>4, <1>5, <1>9 DEF FreeSegments
<1>11. HeapRecord(after)
  <2>1. m[seg].nextHeader \in Nat
    BY <1>1 DEF Headers
  <2> QED BY <1>5, <1>6, <1>7, <1>9, <2>1 DEF HeapSound, HeapShape, HeapRecord
<1>12. IsFiniteSet(DOMAIN m1)
  BY <1>5, FS_AddElement DEF HeapSound, HeapShape
<1>13. Linked(after, free)
  BY <1>1, <1>7, <1>9 DEF HeapSound, HeapShape, Linked
<1>14. Tiled(after)
  <2>1. /\ \A s \in D : /\ EndOf(m, s) \in D \union {h.end}
                        /\ EndOf(m, s) <= h.end /\ EndOf(m, s) \in Nat
        /\ \A s, t \in D : s < t => EndOf(m, s) <= t
        /\ h.end \in Nat
    BY SegmentsType DEF HeapSound, HeapShape, Tiled
  <2>2. ASSUME NEW s \in D \union {block}
        PROVE  /\ s \in Nat /\ s >= Begin /\ m1[s].magic
               /\ EndOf(m1, s) \in D \union {block, h.end}
               /\ EndOf(m1, s) <= h.end
    BY <1>1, <1>2, <1>3, <1>7, <1>8, <2>1, HeapAssumption
  <2>3. ASSUME NEW s \in D \union {block}, NEW t \in D \union {block}, s < t
        PROVE  EndOf(m1, s) <= t
    <3>1. CASE t = block
      <4>1. s \in D /\ s # seg => EndOf(m1, s) <= block
        BY <1>1, <1>2, <1>3, <1>8, <2>1, <2>3, <3>1
      <4> QED BY <1>2, <1>8, <2>3, <3>1, <4>1
    <3>2. CASE t # block /\ s = block
      BY <1>1, <1>2, <1>8, <2>1, <2>3, <3>2
    <3>3. CASE t # block /\ s # block
      BY <1>1, <1>2, <1>3, <1>8, <2>1, <2>3, <3>3
    <3> QED BY <3>1, <3>2, <3>3
  <2> QED BY <1>5, <1>9, <2>2, <2>3 DEF Tiled
<1>15. Merged(after, free)
  BY <1>1, <1>4, <1>8, <1>9 DEF HeapSound, HeapShape, Merged
<1>16. after.startSec # Null /\ after.startSec \notin blocks \union {block}
  <2>1. m[seg].nextHeader \in free
    BY DEF HeapSound, HeapShape, Linked
  <2>2. Null \notin D
    BY SegmentsType
  <2> QED BY <1>1, <1>4, <1>9, <2>1, <2>2
<1>17. HeapSound(after, blocks \union {block})
  BY <1>1, <1>5, <1>9, <1>10, <1>11, <1>12, <1>13, <1>14, <1>15, <1>16 DEF HeapSound, HeapShape
<1>18. \A b \in blocks : m1[b] = m[b]
  BY <1>1, <1>5
<1> QED BY <1>4, <1>9, <1>17, <1>18 DEF after, block, m1

(* A header stays a header when one of its members is assigned.            *)
LEMMA Assignments ==
  ASSUME NEW D, NEW m \in [D -> Headers], NEW a, NEW v \in Nat
  PROVE  /\ [m EXCEPT ![a].nextHeader = v] \in [D -> Headers]
         /\ [m EXCEPT ![a].previousHeader = v] \in [D -> Headers]
         /\ [m EXCEPT ![a].size = v] \in [D -> Headers]
<1>1. a \in D => m[a] \in Headers
  OBVIOUS
<1>2. a \in D => /\ [m[a] EXCEPT !.nextHeader = v] \in Headers
                 /\ [m[a] EXCEPT !.previousHeader = v] \in Headers
                 /\ [m[a] EXCEPT !.size = v] \in Headers
  BY <1>1 DEF Headers
<1> QED BY <1>2

(* Unlinking a free segment leaves headers everywhere.                     *)
LEMMA UnlinkRecord ==
  ASSUME NEW h, NEW blocks, HeapSound(h, blocks), NEW seg \in FreeSegments(h, blocks)
  PROVE  LET after == Unlink(h, seg)
         IN  /\ HeapRecord(after)
             /\ DOMAIN after.memory = DOMAIN h.memory
             /\ <<after.end, after.size, after.mappedPages>>
                  = <<h.end, h.size, h.mappedPages>>
<1> DEFINE m == h.memory
           D == DOMAIN m
           prev == m[seg].previousHeader
           next == m[seg].nextHeader
           a1 == [m EXCEPT ![prev].nextHeader = next]
           a2 == [a1 EXCEPT ![next].previousHeader = prev]
           a3 == [a2 EXCEPT ![seg].nextHeader = Null]
           a4 == [a3 EXCEPT ![seg].previousHeader = Null]
           after == Unlink(h, seg)
<1>1. m \in [D -> Headers] /\ seg \in D
  BY DEF HeapSound, HeapShape, HeapRecord, FreeSegments
<1>2. prev \in Nat /\ next \in Nat /\ Null \in Nat
  BY <1>1 DEF Headers, Null
<1> HIDE DEF prev, next, m, D
<1>3. a1 \in [D -> Headers]
  BY <1>1, <1>2, Assignments
<1>4. a2 \in [D -> Headers]
  <2> HIDE DEF a1
  <2> QED BY <1>2, <1>3, Assignments
<1>5. a3 \in [D -> Headers]
  <2> HIDE DEF a2
  <2> QED BY <1>2, <1>4, Assignments
<1>6. a4 \in [D -> Headers]
  <2> HIDE DEF a3
  <2> QED BY <1>2, <1>5, Assignments
<1>7. h = [memory |-> m, end |-> h.end, size |-> h.size, mappedPages |-> h.mappedPages,
           startSec |-> h.startSec, head |-> h.head]
  BY DEF HeapSound, HeapShape, HeapRecord, m
<1>8. after = [h EXCEPT !.startSec = next,
                        !.memory = [a2 EXCEPT ![seg].nextHeader = Null,
                                              ![seg].previousHeader = Null]]
  BY DEF Unlink, m, next, prev
<1>9. [a2 EXCEPT ![seg].nextHeader = Null, ![seg].previousHeader = Null] = a4
  OBVIOUS
<1> HIDE DEF a2, a4, after
<1>10. after = [memory |-> a4, end |-> h.end, size |-> h.size,
                mappedPages |-> h.mappedPages, startSec |-> next, head |-> h.head]
  BY <1>7, <1>8, <1>9
<1>11. after.memory = a4 /\ DOMAIN a4 = D
  BY <1>6, <1>10
<1>12. /\ after.end = h.end /\ after.size = h.size /\ after.mappedPages = h.mappedPages
       /\ after.startSec = next /\ after.head = h.head
  BY <1>10
<1>13. HeapRecord(after)
  BY <1>2, <1>6, <1>10, <1>11, <1>12 DEF HeapSound, HeapShape, HeapRecord
<1> QED BY <1>11, <1>12, <1>13 DEF after, D, m

(* Growth maps at least one page and, with the room of the tail, enough.   *)
LEMMA GrowthType ==
  ASSUME NEW sz \in Nat
  PROVE  /\ growthPages(sz) \in Nat \ {0}
         /\ growthPages(sz) * PageSize \in Nat
         /\ growthPages(sz) * PageSize > sz
         /\ growthPages(sz) * PageSize >= PageSize
<1>1. \A x \in Nat, p \in Nat \ {0} : x < (x \div p + 1) * p /\ x \div p \in Nat
  <2> SUFFICES ASSUME NEW x \in Nat, NEW p \in Nat \ {0}
               PROVE  x < (x \div p + 1) * p /\ x \div p \in Nat
    OBVIOUS
  <2>1. x = p * (x \div p) + (x % p) /\ x \div p \in Int /\ x % p \in 0 .. p - 1
    OBVIOUS
  <2>2. (x \div p + 1) * p = p * (x \div p) + p
    BY <2>1
  <2>3. x \div p >= 0
    <3>1. ASSUME x \div p <= -1 PROVE FALSE
      <4>1. p * (x \div p) <= p * (-1)
        BY <2>1, <3>1
      <4> QED BY <2>1, <4>1
    <3> QED BY <2>1, <3>1
  <2> QED BY <2>1, <2>2, <2>3
<1>2. PageSize \in Nat \ {0} /\ MIN_HEAP_GROWTH_PAGES \in Nat \ {0}
  BY HeapAssumption
<1>3. \A x, y, p \in Nat : x <= y => x * p <= y * p /\ x * p \in Nat /\ y * p \in Nat
  <2> SUFFICES ASSUME NEW x \in Nat, NEW y \in Nat, NEW p \in Nat, x <= y
               PROVE  x * p <= y * p /\ x * p \in Nat /\ y * p \in Nat
    OBVIOUS
  <2>1. y * p = x * p + (y - x) * p /\ (y - x) * p \in Nat /\ x * p \in Nat
    OBVIOUS
  <2> QED BY <2>1
<1> DEFINE need == sz \div PageSize + 1
           pages == growthPages(sz)
<1>4. need \in Nat \ {0} /\ sz < need * PageSize
  BY <1>1, <1>2
<1>5. pages \in Nat \ {0} /\ need <= pages
  BY <1>2, <1>4 DEF growthPages
<1> HIDE DEF need, pages
<1>6. /\ need * PageSize <= pages * PageSize /\ need * PageSize \in Nat
      /\ 1 * PageSize <= pages * PageSize /\ pages * PageSize \in Nat
  BY <1>2, <1>3, <1>4, <1>5
<1>7. 1 * PageSize = PageSize
  BY <1>2
<1> QED BY <1>2, <1>4, <1>5, <1>6, <1>7 DEF pages

(* The last free segment, at which the heap grows and shrinks.             *)
Tail(h) == h.memory[h.head].previousHeader

(* It is the only one that leads back to head.                             *)
LEMMA TailIsLast ==
  ASSUME NEW h, NEW blocks, HeapSound(h, blocks)
  PROVE  /\ h.head = Begin /\ Begin \in FreeSegments(h, blocks)
         /\ Tail(h) \in FreeSegments(h, blocks)
         /\ h.memory[Tail(h)].nextHeader = Begin
         /\ \A f \in FreeSegments(h, blocks) :
              f >= Begin /\ f <= Tail(h) /\ (h.memory[f].nextHeader = Begin => f = Tail(h))
<1> DEFINE free == FreeSegments(h, blocks)
           tail == Tail(h)
<1>1. h.head = Begin /\ Begin \in free
  BY DEF HeapSound, HeapShape, Linked
<1>2. \A f \in free :
        LET next == h.memory[f].nextHeader
            prev == h.memory[f].previousHeader
        IN  /\ f >= Begin
            /\ next \in free /\ h.memory[next].previousHeader = f
            /\ prev \in free /\ h.memory[prev].nextHeader = f
            /\ \/ next > f /\ \A g \in free : g > f => g >= next
               \/ next = Begin /\ \A g \in free : g <= f
  BY DEF HeapSound, HeapShape, Linked
<1>3. \A f \in free : f \in Nat
  <2>1. free \subseteq DOMAIN h.memory
    BY DEF FreeSegments
  <2> QED BY <2>1, SegmentsType
<1> HIDE DEF free
<1>4. tail \in free /\ h.memory[tail].nextHeader = Begin
  BY <1>1, <1>2 DEF Tail
<1>5. \A f \in free : h.memory[f].nextHeader = Begin => f = tail
  BY <1>1, <1>2 DEF Tail
<1>6. \A f \in free : f <= tail
  <2>1. tail \in Nat /\ Begin \in Nat /\ tail >= Begin
    BY <1>1, <1>2, <1>3, <1>4
  <2>2. ~(Begin > tail)
    BY <2>1
  <2> QED BY <1>2, <1>4, <2>2
<1> QED BY <1>1, <1>2, <1>4, <1>5, <1>6 DEF free

(* Growing keeps end, size and mappedPages in agreement.                   *)
LEMMA GrowthAgrees ==
  ASSUME NEW h, NEW after, HeapRecord(h), SizesAgree(h), NEW pages \in Nat,
         after.end = h.end + pages * PageSize,
         after.size = h.size + pages * PageSize,
         after.mappedPages = h.mappedPages + pages
  PROVE  SizesAgree(after)
<1>1. /\ h.end \in Nat /\ h.size \in Nat /\ h.mappedPages \in Nat
      /\ PageSize \in Nat /\ Begin \in Nat
  BY HeapAssumption DEF HeapRecord
<1>2. (h.mappedPages + pages) * PageSize = h.mappedPages * PageSize + pages * PageSize
      /\ pages * PageSize \in Nat /\ h.mappedPages * PageSize \in Nat
  BY <1>1
<1> QED BY <1>1, <1>2 DEF SizesAgree

(* growHeap, when the tail ends where the heap does.                       *)
LEMMA EnlargeSound ==
  ASSUME NEW h, NEW blocks, HeapSound(h, blocks), SizesAgree(h), NEW sz \in Nat,
         EndOf(h.memory, Tail(h)) = h.end
  PROVE  LET after == growHeap(h, sz)
         IN  /\ HeapSound(after, blocks) /\ SizesAgree(after)
             /\ FreeSegments(after, blocks) = FreeSegments(h, blocks)
             /\ after.startSec = h.startSec /\ Tail(after) = Tail(h)
             /\ \A b \in blocks : after.memory[b] = h.memory[b]
             /\ EndOf(after.memory, Tail(after)) = after.end
             /\ after.memory[Tail(after)].size >= growthPages(sz) * PageSize
<1> DEFINE m == h.memory
           D == DOMAIN m
           pages == growthPages(sz)
           bytes == pages * PageSize
           tail == Tail(h)
           after == growHeap(h, sz)
           m1 == [m EXCEPT ![tail].size = @ + bytes]
           free == FreeSegments(h, blocks)
<1>1. /\ \A s \in D : /\ s \in Nat /\ s >= Begin /\ s < h.end /\ m[s] \in Headers
                      /\ m[s].size \in Nat /\ m[s].magic = TRUE
      /\ tail \in free /\ free = D \ blocks /\ h.end \in Nat
      /\ m \in [D -> Headers]
      /\ HeaderSize \in Nat \ {0}
  BY SegmentsType, TailIsLast, HeapAssumption DEF HeapSound, HeapShape, HeapRecord, FreeSegments
<1>2. pages \in Nat /\ bytes \in Nat
  BY GrowthType
<1>3. h = [memory |-> m, end |-> h.end, size |-> h.size, mappedPages |-> h.mappedPages,
           startSec |-> h.startSec, head |-> h.head]
  BY DEF HeapSound, HeapShape, HeapRecord
<1>4. after = [memory |-> m1, end |-> h.end + bytes, size |-> h.size + bytes,
               mappedPages |-> h.mappedPages + pages,
               startSec |-> h.startSec, head |-> h.head]
  <2>1. after = [h EXCEPT !.end = @ + bytes, !.size = @ + bytes, !.mappedPages = @ + pages,
                          !.memory = m1]
    <3> DEFINE grown == [h EXCEPT !.end = @ + bytes, !.size = @ + bytes,
                                  !.mappedPages = @ + pages]
    <3>1. grown.memory = m
      BY <1>3
    <3>2. after = [grown EXCEPT !.memory[tail].size = @ + bytes]
      BY DEF growHeap, Tail
    <3>3. after = [grown EXCEPT !.memory = [grown.memory EXCEPT ![tail].size = @ + bytes]]
      BY <3>2
    <3> QED BY <3>1, <3>3
  <2> HIDE DEF m1, bytes, pages, after
  <2> QED BY <1>3, <2>1
<1> HIDE DEF bytes, pages
<1>5. /\ DOMAIN m1 = D
      /\ m1[tail] = [m[tail] EXCEPT !.size = m[tail].size + bytes]
      /\ \A a \in D : a # tail => m1[a] = m[a]
  BY <1>1
<1>6. m1 \in [D -> Headers]
  <2>1. m[tail].size + bytes \in Nat
    BY <1>1, <1>2
  <2>2. [m EXCEPT ![tail].size = m[tail].size + bytes] \in [D -> Headers]
    BY <1>1, <2>1, Assignments
  <2> QED BY <2>2
<1>7. /\ \A a \in D : /\ m1[a].magic = m[a].magic
                      /\ m1[a].nextHeader = m[a].nextHeader
                      /\ m1[a].previousHeader = m[a].previousHeader
      /\ m1[tail].size = m[tail].size + bytes
  BY <1>1, <1>5 DEF Headers
<1>8. /\ after.memory = m1 /\ after.end = h.end + bytes /\ after.size = h.size + bytes
      /\ after.mappedPages = h.mappedPages + pages
      /\ after.startSec = h.startSec /\ after.head = h.head
  <2> HIDE DEF m1, after
  <2> QED BY <1>4
<1> HIDE DEF m1, after
<1>9. /\ EndOf(m1, tail) = h.end + bytes
      /\ \A a \in D : a # tail => EndOf(m1, a) = EndOf(m, a)
  BY <1>1, <1>2, <1>5, <1>7 DEF EndOf
<1>10. FreeSegments(after, blocks) = free
  BY <1>5, <1>8 DEF FreeSegments
<1>11. HeapRecord(after)
  <2>1. h.startSec \in Nat /\ h.head \in Nat /\ h.size \in Nat /\ h.mappedPages \in Nat
    BY DEF HeapSound, HeapShape, HeapRecord
  <2> QED BY <1>1, <1>2, <1>4, <1>5, <1>6, <1>8, <2>1 DEF HeapRecord
<1>12. Linked(after, free)
  BY <1>1, <1>7, <1>8 DEF HeapSound, HeapShape, Linked
<1>13. Tiled(after)
  <2>1. /\ \A s \in D : /\ EndOf(m, s) \in D \union {h.end}
                        /\ EndOf(m, s) <= h.end /\ EndOf(m, s) \in Nat
        /\ \A s, t \in D : s < t => EndOf(m, s) <= t
    BY SegmentsType DEF HeapSound, HeapShape, Tiled
  <2>2. \A s \in D : s # tail => EndOf(m, s) \in D
    <3>1. ASSUME NEW s \in D, s # tail, EndOf(m, s) = h.end PROVE FALSE
      <4>1. CASE s < tail
        BY <1>1, <2>1, <3>1, <4>1
      <4>2. CASE tail < s
        BY <1>1, <2>1, <3>1, <4>2
      <4> QED BY <1>1, <3>1, <4>1, <4>2
    <3> QED BY <2>1, <3>1
  <2>3. \A s \in D : s <= tail
    BY <1>1, <2>1
  <2>4. \A s \in D : /\ EndOf(m1, s) \in D \union {h.end + bytes}
                     /\ EndOf(m1, s) <= h.end + bytes
    BY <1>1, <1>2, <1>9, <2>1, <2>2
  <2>5. \A s, t \in D : s < t => EndOf(m1, s) <= t
    <3> SUFFICES ASSUME NEW s \in D, NEW t \in D, s < t PROVE EndOf(m1, s) <= t
      OBVIOUS
    <3>1. s # tail
      BY <1>1, <2>3
    <3> QED BY <1>9, <2>1, <3>1
  <2> QED BY <1>1, <1>5, <1>7, <1>8, <2>4, <2>5 DEF Tiled
<1>14. Merged(after, free)
  <2>1. \A s \in free : s < h.end
    BY <1>1
  <2>2. \A s, t \in free : EndOf(m, s) # t
    BY DEF HeapSound, HeapShape, Merged
  <2>3. \A t \in free : h.end + bytes # t
    BY <1>1, <1>2, <2>1
  <2> QED BY <1>1, <1>8, <1>9, <2>2, <2>3 DEF Merged
<1>15. HeapSound(after, blocks)
  BY <1>5, <1>8, <1>10, <1>11, <1>12, <1>13, <1>14 DEF HeapSound, HeapShape
<1>16. SizesAgree(after)
  BY <1>2, <1>8, GrowthAgrees DEF bytes, HeapSound, HeapShape
<1>17. Tail(after) = tail
  <2>1. h.head \in D
    BY <1>1, TailIsLast
  <2> QED BY <1>7, <1>8, <2>1 DEF Tail
<1>18. \A b \in blocks : m1[b] = m[b]
  BY <1>1, <1>5 DEF HeapSound, HeapShape
<1>19. m1[tail].size >= bytes
  BY <1>1, <1>2, <1>7
<1> QED BY <1>8, <1>9, <1>10, <1>15, <1>16, <1>17, <1>18, <1>19 DEF bytes, pages, after, m1

(* growHeap, when a block does.                                            *)
LEMMA AppendSound ==
  ASSUME NEW h, NEW blocks, HeapSound(h, blocks), SizesAgree(h), NEW sz \in Nat,
         EndOf(h.memory, Tail(h)) # h.end
  PROVE  LET after == growHeap(h, sz)
         IN  /\ HeapSound(after, blocks) /\ SizesAgree(after)
             /\ FreeSegments(after, blocks) = FreeSegments(h, blocks) \union {h.end}
             /\ after.startSec = h.startSec
             /\ \A b \in blocks : after.memory[b] = h.memory[b]
             /\ EndOf(after.memory, Tail(after)) = after.end
<1> DEFINE m == h.memory
           D == DOMAIN m
           pages == growthPages(sz)
           bytes == pages * PageSize
           tail == Tail(h)
           end == h.end
           after == growHeap(h, sz)
           linked == [m EXCEPT ![tail].nextHeader = end, ![Begin].previousHeader = end]
           new == Header(bytes - HeaderSize, Begin, tail)
           m1 == Put(linked, end, new)
           free == FreeSegments(h, blocks)
<1>1. /\ \A s \in D : /\ s \in Nat /\ s >= Begin /\ s < end /\ m[s] \in Headers
                      /\ m[s].size \in Nat /\ m[s].magic = TRUE
      /\ tail \in free /\ free = D \ blocks /\ end \in Nat
      /\ blocks \subseteq D /\ Begin \in free /\ h.head = Begin /\ Begin \in Nat
      /\ m \in [D -> Headers]
      /\ HeaderSize \in Nat \ {0}
  BY SegmentsType, TailIsLast, HeapAssumption DEF HeapSound, HeapShape, HeapRecord, FreeSegments
<1>2. pages \in Nat /\ bytes \in Nat /\ bytes - HeaderSize \in Nat
      /\ bytes - HeaderSize + HeaderSize = bytes /\ bytes > 0
  <2>1. pages \in Nat /\ bytes \in Nat /\ bytes >= PageSize
    BY GrowthType
  <2> HIDE DEF bytes, pages
  <2> QED BY <2>1, HeapAssumption
<1>3. h = [memory |-> m, end |-> end, size |-> h.size, mappedPages |-> h.mappedPages,
           startSec |-> h.startSec, head |-> h.head]
  BY DEF HeapSound, HeapShape, HeapRecord
<1>4. after = [memory |-> m1, end |-> end + bytes, size |-> h.size + bytes,
               mappedPages |-> h.mappedPages + pages,
               startSec |-> h.startSec, head |-> h.head]
  <2>1. after = [h EXCEPT !.end = @ + bytes, !.size = @ + bytes, !.mappedPages = @ + pages,
                          !.memory = m1]
    <3> DEFINE grown == [h EXCEPT !.end = @ + bytes, !.size = @ + bytes,
                                  !.mappedPages = @ + pages]
    <3>1. after = [grown EXCEPT !.memory = m1]
      BY <1>1 DEF growHeap, Tail
    <3> QED BY <3>1
  <2> HIDE DEF m1, bytes, pages, after, end
  <2> QED BY <1>3, <2>1 DEF end
<1> HIDE DEF bytes, pages
<1>5. end \notin D
  BY <1>1
<1>6. linked \in [D -> Headers]
  <2> DEFINE l1 == [m EXCEPT ![tail].nextHeader = end]
  <2>1. l1 \in [D -> Headers]
    BY <1>1, Assignments
  <2>2. [l1 EXCEPT ![Begin].previousHeader = end] \in [D -> Headers]
    <3> HIDE DEF l1
    <3> QED BY <1>1, <2>1, Assignments
  <2>3. linked = [l1 EXCEPT ![Begin].previousHeader = end]
    OBVIOUS
  <2> QED BY <2>2, <2>3
<1>7. /\ \A a \in D : /\ linked[a].magic = TRUE /\ linked[a].size = m[a].size
                      /\ linked[a].nextHeader = IF a = tail THEN end ELSE m[a].nextHeader
                      /\ linked[a].previousHeader
                           = IF a = Begin THEN end ELSE m[a].previousHeader
                      /\ a \notin {tail, Begin} => linked[a] = m[a]
  <2> SUFFICES ASSUME NEW a \in D
               PROVE  /\ linked[a].magic = TRUE /\ linked[a].size = m[a].size
                      /\ linked[a].nextHeader = IF a = tail THEN end ELSE m[a].nextHeader
                      /\ linked[a].previousHeader
                           = IF a = Begin THEN end ELSE m[a].previousHeader
                      /\ a \notin {tail, Begin} => linked[a] = m[a]
    OBVIOUS
  <2>1. m[a] \in Headers /\ m[a].magic = TRUE
    BY <1>1
  <2> HIDE DEF tail, m, end
  <2> QED BY <1>1, <2>1 DEF Headers
<1>8. new \in Headers /\ new.size = bytes - HeaderSize /\ new.magic = TRUE
      /\ new.nextHeader = Begin /\ new.previousHeader = tail
  <2>1. tail \in Nat
    BY <1>1
  <2> HIDE DEF tail
  <2> QED BY <1>1, <1>2, <2>1 DEF Headers, Header
<1> HIDE DEF linked, new
<1>9. /\ DOMAIN m1 = D \union {end} /\ m1[end] = new
      /\ \A a \in D : m1[a] = linked[a]
      /\ m1 \in [D \union {end} -> Headers]
  <2>1. DOMAIN linked = D
    BY <1>6
  <2> QED BY <1>5, <1>6, <1>8, <2>1 DEF Put
<1>10. /\ after.memory = m1 /\ after.end = end + bytes /\ after.size = h.size + bytes
       /\ after.mappedPages = h.mappedPages + pages
       /\ after.startSec = h.startSec /\ after.head = h.head
  <2> HIDE DEF m1, after
  <2> QED BY <1>4
<1> HIDE DEF m1, after
<1>11. /\ EndOf(m1, end) = end + bytes
       /\ \A a \in D : EndOf(m1, a) = EndOf(m, a)
  BY <1>1, <1>2, <1>7, <1>8, <1>9 DEF EndOf
<1>12. FreeSegments(after, blocks) = free \union {end}
  BY <1>1, <1>5, <1>9, <1>10 DEF FreeSegments
<1>13. HeapRecord(after)
  <2>1. h.startSec \in Nat /\ h.head \in Nat /\ h.size \in Nat /\ h.mappedPages \in Nat
    BY DEF HeapSound, HeapShape, HeapRecord
  <2> QED BY <1>1, <1>2, <1>4, <1>9, <1>10, <2>1 DEF HeapRecord
<1>14. /\ tail \in D /\ Begin \in D /\ tail < end /\ m[tail].nextHeader = Begin
       /\ m[Begin].previousHeader = tail
       /\ \A f \in free : f <= tail /\ f >= Begin /\ f < end
       /\ \A f \in free : m[f].nextHeader = Begin => f = tail
       /\ \A f \in free : m[f].previousHeader = tail => f = Begin
  <2>1. m[Begin].previousHeader = tail
    BY <1>1 DEF Tail
  <2>2. m[tail].nextHeader = Begin
        /\ \A f \in free : f <= tail /\ f >= Begin /\ (m[f].nextHeader = Begin => f = tail)
    BY TailIsLast
  <2>3. \A f \in free : m[m[f].previousHeader].nextHeader = f
    BY DEF HeapSound, HeapShape, Linked
  <2>4. \A f \in free : m[f].previousHeader = tail => f = Begin
    BY <2>2, <2>3
  <2>5. \A f \in free : f < end
    BY <1>1
  <2> QED BY <1>1, <2>1, <2>2, <2>4, <2>5
<1> HIDE DEF tail
<1>15. Linked(after, free \union {end})
  <2>1. \A f \in free :
          LET next == m[f].nextHeader
              prev == m[f].previousHeader
          IN  /\ f >= Begin
              /\ next \in free /\ m[next].previousHeader = f
              /\ prev \in free /\ m[prev].nextHeader = f
              /\ \/ next > f /\ \A g \in free : g > f => g >= next
                 \/ next = Begin /\ \A g \in free : g <= f
    BY DEF HeapSound, HeapShape, Linked
  <2>2. \A a \in free : /\ m1[a].magic = TRUE
                        /\ m1[a].nextHeader = IF a = tail THEN end ELSE m[a].nextHeader
                        /\ m1[a].previousHeader
                             = IF a = Begin THEN end ELSE m[a].previousHeader
    BY <1>1, <1>7, <1>9
  <2>3. /\ m1[end].magic = TRUE /\ m1[end].nextHeader = Begin
        /\ m1[end].previousHeader = tail
    BY <1>8, <1>9
  <2>4. ASSUME NEW f \in free \union {end}
        PROVE  LET next == m1[f].nextHeader
                   prev == m1[f].previousHeader
               IN  /\ f >= Begin /\ m1[f].magic
                   /\ next \in free \union {end} /\ m1[next].previousHeader = f
                   /\ prev \in free \union {end} /\ m1[prev].nextHeader = f
                   /\ \/ next > f /\ \A g \in free \union {end} : g > f => g >= next
                      \/ next = Begin /\ \A g \in free \union {end} : g <= f
    <3> HIDE DEF m, free, end, D
    <3>1. end >= Begin /\ tail \in free /\ Begin \in free /\ end \notin free
      BY <1>1, <1>14
    <3>2. CASE f = end
      <4>1. \A g \in free \union {end} : g <= f
        BY <1>1, <1>14, <3>2 DEF free, D
      <4> QED BY <2>2, <2>3, <3>1, <3>2, <4>1
    <3>3. CASE f = tail
      <4>1. m1[f].nextHeader = end /\ m1[end].previousHeader = f /\ end > f
        BY <1>14, <2>2, <2>3, <3>1, <3>3
      <4>2. \A g \in free \union {end} : g > f => g >= end
        <5>1. \A g \in free : ~(g > f)
          BY <1>1, <1>14, <3>3 DEF free, D
        <5>2. end >= end
          BY <1>1
        <5> QED BY <5>1, <5>2
      <4>3. m1[f].previousHeader \in free \union {end}
            /\ m1[m1[f].previousHeader].nextHeader = f
        BY <1>14, <2>1, <2>2, <2>3, <3>1, <3>3
      <4> QED BY <1>14, <2>2, <3>1, <3>3, <4>1, <4>2, <4>3
    <3>4. CASE f \notin {tail, end}
      <4>1. f \in free /\ m1[f].nextHeader = m[f].nextHeader /\ m[f].nextHeader # Begin
        BY <1>14, <2>2, <3>1, <3>4
      <4>2. m1[m[f].nextHeader].previousHeader = f /\ m[f].nextHeader \in free
        BY <2>1, <2>2, <4>1
      <4>3. m[f].nextHeader > f /\ \A g \in free : g > f => g >= m[f].nextHeader
        BY <2>1, <4>1
      <4>4. end >= m[f].nextHeader
        BY <1>1, <1>14, <4>2 DEF free, D
      <4>5. m1[f].previousHeader \in free \union {end}
            /\ m1[m1[f].previousHeader].nextHeader = f
        <5>1. CASE f = Begin
          BY <2>2, <2>3, <3>1, <5>1
        <5>2. CASE f # Begin
          <6>1. m1[f].previousHeader = m[f].previousHeader /\ m[f].previousHeader # tail
            BY <1>14, <2>2, <4>1, <5>2
          <6> QED BY <2>1, <2>2, <4>1, <6>1
        <5> QED BY <5>1, <5>2
      <4>6. f >= Begin /\ m1[f].magic
        BY <1>14, <2>2, <4>1
      <4> QED BY <4>1, <4>2, <4>3, <4>4, <4>5, <4>6
    <3> QED BY <3>2, <3>3, <3>4
  <2>5. after.head = Begin /\ Begin \in free
    BY <1>1, <1>10
  <2> QED BY <1>10, <2>4, <2>5 DEF Linked
<1>16. Tiled(after)
  <2>1. /\ \A s \in D : /\ EndOf(m, s) \in D \union {end}
                        /\ EndOf(m, s) <= end /\ EndOf(m, s) \in Nat
        /\ \A s, t \in D : s < t => EndOf(m, s) <= t
    BY SegmentsType DEF HeapSound, HeapShape, Tiled
  <2>2. ASSUME NEW s \in D \union {end}
        PROVE  /\ s \in Nat /\ s >= Begin /\ m1[s].magic
               /\ EndOf(m1, s) \in D \union {end, end + bytes}
               /\ EndOf(m1, s) <= end + bytes
    <3>1. end >= Begin /\ m1[s].magic
      BY <1>1, <1>7, <1>8, <1>9, <1>14
    <3> QED BY <1>1, <1>2, <1>11, <2>1, <3>1
  <2>3. ASSUME NEW s \in D \union {end}, NEW t \in D \union {end}, s < t
        PROVE  EndOf(m1, s) <= t
    <3>1. s \in D
      BY <1>1, <2>3
    <3> QED BY <1>1, <1>11, <2>1, <2>3, <3>1
  <2> QED BY <1>9, <1>10, <2>2, <2>3 DEF Tiled
<1>17. Merged(after, free \union {end})
  <2>1. \A s, t \in free : EndOf(m, s) # t
    BY DEF HeapSound, HeapShape, Merged
  <2>2. ASSUME NEW s \in free PROVE EndOf(m, s) # end
    <3>1. CASE s = tail
      BY <3>1 DEF tail
    <3>2. CASE s # tail
      <4>1. s < tail /\ s \in D /\ tail \in D
        BY <1>1, <1>14, <3>2
      <4>2. EndOf(m, s) <= tail /\ EndOf(m, s) \in Nat
        BY <4>1, SegmentsType DEF HeapSound, HeapShape, Tiled
      <4> QED BY <1>1, <1>14, <4>2
    <3> QED BY <3>1, <3>2
  <2>3. \A t \in free \union {end} : end + bytes # t
    BY <1>1, <1>2, <1>14
  <2> QED BY <1>1, <1>10, <1>11, <2>1, <2>2, <2>3 DEF Merged
<1>18. HeapSound(after, blocks)
  <2>1. IsFiniteSet(D \union {end})
    BY FS_AddElement DEF HeapSound, HeapShape
  <2>2. after.startSec # Null /\ after.startSec \notin blocks
    BY <1>10 DEF HeapSound, HeapShape
  <2> QED BY <1>1, <1>9, <1>10, <1>12, <1>13, <1>15, <1>16, <1>17, <2>1, <2>2 DEF HeapSound, HeapShape
<1>19. SizesAgree(after)
  BY <1>2, <1>10, GrowthAgrees DEF bytes, HeapSound, HeapShape
<1>20. Tail(after) = end
  BY <1>1, <1>7, <1>9, <1>10, <1>14 DEF Tail
<1>21. \A b \in blocks : m1[b] = m[b]
  BY <1>1, <1>7, <1>9
<1> QED BY <1>10, <1>11, <1>12, <1>18, <1>19, <1>20, <1>21 DEF after, m1

(* A growth keeps the heap sound and leaves its tail at the end.           *)
LEMMA GrowSound ==
  ASSUME NEW h, NEW blocks, HeapSound(h, blocks), SizesAgree(h), NEW sz \in Nat
  PROVE  LET after == growHeap(h, sz)
         IN  /\ HeapSound(after, blocks) /\ SizesAgree(after)
             /\ \A b \in blocks : after.memory[b] = h.memory[b]
             /\ EndOf(after.memory, Tail(after)) = after.end
<1>1. CASE EndOf(h.memory, Tail(h)) = h.end
  BY <1>1, EnlargeSound
<1>2. CASE EndOf(h.memory, Tail(h)) # h.end
  BY <1>2, AppendSound
<1> QED BY <1>1, <1>2

(* Two growths are enough: the second enlarges what the first left at the  *)
(* end by more than was asked for.                                         *)
LEMMA Growing ==
  ASSUME HeapSound(heap, live), SizesAgree(heap), NEW sz \in Nat \ {0}
  PROVE  /\ HeapSound(Grown(sz), live) /\ SizesAgree(Grown(sz))
         /\ \A b \in live : Grown(sz).memory[b] = heap.memory[b]
         /\ PagesTaken(sz) \in Nat
         /\ Found(sz) # -1 => /\ Found(sz) \in FreeSegments(Grown(sz), live)
                              /\ Grown(sz).memory[Found(sz)].size >= sz
<1> DEFINE A == Attempts(sz)
           once == growHeap(heap, sz)
           twice == growHeap(once, sz)
           IsEnough(n) == /\ findFreeSegment(A[n], sz) # Null
                          /\ \A m \in 0 .. n - 1 : findFreeSegment(A[m], sz) = Null
           G == Growths(sz)
<1>1. A[0] = heap /\ A[1] = once /\ A[2] = twice
  <2> DEFINE f == [n \in 0 .. 2 |-> IF n = 0 THEN heap ELSE IF n = 1 THEN once ELSE twice]
  <2>1. \A n \in 0 .. 2 : f[n] = IF n = 0 THEN heap ELSE growHeap(f[n - 1], sz)
    OBVIOUS
  <2>2. f = [n \in 0 .. 2 |-> IF n = 0 THEN heap ELSE growHeap(f[n - 1], sz)]
    BY <2>1
  <2> HIDE DEF f
  <2>3. \E h : h = [n \in 0 .. 2 |-> IF n = 0 THEN heap ELSE growHeap(h[n - 1], sz)]
    BY <2>2
  <2>4. A = [n \in 0 .. 2 |-> IF n = 0 THEN heap ELSE growHeap(A[n - 1], sz)]
    BY <2>3 DEF Attempts, MaxGrowths
  <2> HIDE DEF A
  <2>5. A[0] = heap /\ A[1] = growHeap(A[0], sz) /\ A[2] = growHeap(A[1], sz)
    BY <2>4
  <2> QED BY <2>5
<1> HIDE DEF A
<1>2. /\ HeapSound(once, live) /\ SizesAgree(once)
      /\ \A b \in live : once.memory[b] = heap.memory[b]
      /\ EndOf(once.memory, Tail(once)) = once.end
  BY GrowSound
<1> HIDE DEF once
<1>3. /\ HeapSound(twice, live) /\ SizesAgree(twice)
      /\ \A b \in live : twice.memory[b] = once.memory[b]
      /\ FreeSegments(twice, live) = FreeSegments(once, live)
      /\ Tail(twice) = Tail(once)
      /\ twice.memory[Tail(twice)].size >= growthPages(sz) * PageSize
  BY <1>2, EnlargeSound
<1>4. Tail(twice) \in FreeSegments(twice, live)
  BY <1>2, <1>3, TailIsLast
<1> HIDE DEF twice
<1>5. findFreeSegment(twice, sz) # Null
  <2>1. /\ twice.memory[Tail(twice)].size \in Nat
        /\ \A f \in FreeSegments(twice, live) : f # Null
    BY <1>3, <1>4, SegmentsType DEF FreeSegments
  <2>2. ~(twice.memory[Tail(twice)].size < sz)
    BY <1>3, <2>1, GrowthType
  <2>3. -1 # Null
    BY DEF Null
  <2> QED BY <1>3, <1>4, <2>1, <2>2, <2>3, Finding
<1>6. \E n \in 0 .. 2 : IsEnough(n)
  <2>1. CASE findFreeSegment(heap, sz) # Null
    BY <1>1, <2>1
  <2>2. CASE findFreeSegment(heap, sz) = Null /\ findFreeSegment(once, sz) # Null
    <3>1. \A m \in 0 .. 1 - 1 : m = 0
      OBVIOUS
    <3>2. IsEnough(1)
      BY <1>1, <2>2, <3>1
    <3> QED BY <3>2
  <2>3. CASE findFreeSegment(heap, sz) = Null /\ findFreeSegment(once, sz) = Null
    <3>1. \A m \in 0 .. 2 - 1 : m = 0 \/ m = 1
      OBVIOUS
    <3>2. IsEnough(2)
      BY <1>1, <1>5, <2>3, <3>1
    <3> QED BY <3>2
  <2> QED BY <2>1, <2>2, <2>3
<1>7. G \in 0 .. 2 /\ findFreeSegment(A[G], sz) # Null
  BY <1>6 DEF Growths, MaxGrowths, A
<1> HIDE DEF G
<1>8. /\ HeapSound(A[G], live) /\ SizesAgree(A[G])
      /\ \A b \in live : A[G].memory[b] = heap.memory[b]
  <2>1. G = 0 \/ G = 1 \/ G = 2
    BY <1>7
  <2> QED BY <1>1, <1>2, <1>3, <2>1
<1>9. Grown(sz) = A[G] /\ Found(sz) = findFreeSegment(A[G], sz)
  BY DEF Grown, Found, A, G
<1>10. PagesTaken(sz) \in Nat
  <2>1. PagesTaken(sz) = G * growthPages(sz)
    BY DEF PagesTaken, G
  <2>2. G \in Nat /\ growthPages(sz) \in Nat
    BY <1>7, GrowthType
  <2> QED BY <2>1, <2>2
<1>11. Found(sz) # -1 => /\ Found(sz) \in FreeSegments(Grown(sz), live)
                         /\ Grown(sz).memory[Found(sz)].size >= sz
  BY <1>7, <1>8, <1>9, Finding
<1> QED BY <1>8, <1>9, <1>10, <1>11

(* The free segments on both sides of a live block, as delete finds them.  *)
LEMMA Neighbours ==
  ASSUME NEW h, NEW blocks, HeapSound(h, blocks), NEW seg \in blocks
  PROVE  LET node == NodeBehind(h, seg)
             prev == h.memory[node].previousHeader
             free == FreeSegments(h, blocks)
         IN  /\ node \in free /\ prev \in free
             /\ h.memory[prev].nextHeader = node
             /\ prev < seg /\ Begin < seg
             /\ \A g \in free : g < seg => g <= prev
             /\ \/ node > seg /\ \A g \in free : g > seg => g >= node
                \/ node = Begin /\ \A g \in free : g < seg
<1> DEFINE m == h.memory
           free == FreeSegments(h, blocks)
           node == NodeBehind(h, seg)
           prev == m[node].previousHeader
           behind == {n \in free : n >= seg}
<1>1. /\ free \subseteq Nat /\ seg \in Nat /\ seg \notin free /\ Begin \in free /\ Begin \in Nat
      /\ \A f \in free : f >= Begin
      /\ seg >= Begin
  BY SegmentsType, HeapAssumption, TailIsLast DEF HeapSound, HeapShape, FreeSegments
<1>2. Begin < seg
  BY <1>1
<1>3. \A f \in free :
        LET next == m[f].nextHeader
            before == m[f].previousHeader
        IN  /\ next \in free /\ m[next].previousHeader = f
            /\ before \in free /\ m[before].nextHeader = f
            /\ \/ next > f /\ \A g \in free : g > f => g >= next
               \/ next = Begin /\ \A g \in free : g <= f
  BY DEF HeapSound, HeapShape, Linked
<1>4. node = IF behind = {} THEN Begin
             ELSE CHOOSE n \in behind : \A k \in behind : n <= k
  <2>1. FreeList(h) = free /\ h.head = Begin
    BY FreeListIsFree, TailIsLast
  <2> HIDE DEF free
  <2> QED BY <2>1 DEF NodeBehind
<1> HIDE DEF free, node, m
<1>5. CASE behind = {}
  <2>1. node = Begin /\ \A g \in free : g < seg
    BY <1>1, <1>4, <1>5
  <2>2. prev \in free /\ m[prev].nextHeader = node
    BY <1>1, <1>3, <2>1
  <2>3. \A g \in free : g <= prev
    <3>1. prev \in Nat /\ prev >= Begin /\ ~(Begin > prev)
      BY <1>1, <2>2
    <3> QED BY <1>3, <2>1, <2>2, <3>1
  <2> QED BY <1>1, <1>2, <2>1, <2>2, <2>3 DEF node, free, m
<1>6. CASE behind # {}
  <2>1. \E n \in behind : \A k \in behind : n <= k
    <3>1. behind \in SUBSET Nat
      BY <1>1
    <3> HIDE DEF behind
    <3> QED BY <1>6, <3>1, SmallestExists
  <2>2. node \in behind /\ \A k \in behind : node <= k
    BY <1>4, <1>6, <2>1
  <2>3. node \in free /\ node > seg /\ \A g \in free : g > seg => g >= node
    BY <1>1, <2>2
  <2>4. prev \in free /\ m[prev].nextHeader = node
    BY <1>3, <2>3
  <2> HIDE DEF prev
  <2>5. node > prev /\ \A g \in free : g > prev => g >= node
    <3>1. node # Begin
      BY <1>1, <1>2, <2>3
    <3> QED BY <1>3, <2>4, <3>1
  <2>6. prev < seg
    <3>1. prev \in Nat /\ prev # seg /\ node \in Nat
      BY <1>1, <2>3, <2>4
    <3>2. ~(prev > seg)
      BY <2>3, <2>4, <2>5, <3>1
    <3> QED BY <1>1, <3>1, <3>2
  <2>7. \A g \in free : g < seg => g <= prev
    <3> SUFFICES ASSUME NEW g \in free, g < seg, ~(g <= prev) PROVE FALSE
      OBVIOUS
    <3>1. g \in Nat /\ prev \in Nat /\ node \in Nat
      BY <1>1, <2>3, <2>4
    <3>2. g >= node
      BY <2>5, <3>1
    <3> QED BY <1>1, <2>3, <3>1, <3>2
  <2> QED BY <1>2, <2>3, <2>4, <2>6, <2>7 DEF prev, node, free, m
<1> QED BY <1>5, <1>6

-------------------------------------------------------------------------------
(* The three ways delete changes the headers.                              *)

PreviousJoined(m, prev, seg, after) ==
  /\ after \in [DOMAIN m \ {seg} -> Headers]
  /\ after[prev].size = m[prev].size + m[seg].size + HeaderSize
  /\ \A a \in DOMAIN m \ {seg} :
       /\ after[a].magic = m[a].magic
       /\ after[a].nextHeader = m[a].nextHeader
       /\ after[a].previousHeader = m[a].previousHeader
       /\ a # prev => after[a] = m[a]

(* MergeWithPrevious, header by header.                                    *)
LEMMA MergePreviousHeaders ==
  ASSUME NEW m, NEW prev, NEW seg,
         m \in [DOMAIN m -> Headers], prev \in DOMAIN m, seg \in DOMAIN m, prev # seg
  PROVE  PreviousJoined(m, prev, seg, MergeWithPrevious(m, prev, seg))
<1> DEFINE D == DOMAIN m
           size == m[prev].size + m[seg].size + HeaderSize
           m1 == [m EXCEPT ![prev].size = size]
           after == MergeWithPrevious(m, prev, seg)
<1>1. size \in Nat /\ m[prev] \in Headers
  BY HeapAssumption DEF Headers
<1>2. after = Clear(m1, seg)
  BY DEF MergeWithPrevious
<1> HIDE DEF size
<1>3. m1 \in [D -> Headers]
  BY <1>1, Assignments
<1>4. /\ m1[prev].size = size /\ m1[prev].magic = m[prev].magic
      /\ m1[prev].nextHeader = m[prev].nextHeader
      /\ m1[prev].previousHeader = m[prev].previousHeader
      /\ \A a \in D : a # prev => m1[a] = m[a]
  BY <1>1 DEF Headers
<1> HIDE DEF m1
<1>5. after = [a \in D \ {seg} |-> m1[a]]
  BY <1>2, <1>3 DEF Clear
<1> HIDE DEF after
<1>6. PreviousJoined(m, prev, seg, after)
  BY <1>3, <1>4, <1>5 DEF PreviousJoined, size
<1> QED BY <1>6 DEF after

NextJoined(m, seg, node, after) ==
  /\ after \in [DOMAIN m \ {node} -> Headers]
  /\ after[seg].size = m[seg].size + m[node].size + HeaderSize
  /\ after[seg].nextHeader = m[node].nextHeader
  /\ \A a \in DOMAIN m \ {node} :
       /\ after[a].magic = m[a].magic
       /\ a # seg => after[a].nextHeader = m[a].nextHeader
       /\ a # seg => after[a].size = m[a].size
       /\ after[a].previousHeader = IF a = m[node].nextHeader THEN seg
                                    ELSE m[a].previousHeader
       /\ a \notin {seg, m[node].nextHeader} => after[a] = m[a]

(* MergeWithNext, header by header.                                        *)
LEMMA MergeNextHeaders ==
  ASSUME NEW m, NEW seg, NEW node,
         DOMAIN m \in SUBSET Nat, m \in [DOMAIN m -> Headers],
         seg \in DOMAIN m, node \in DOMAIN m, seg # node
  PROVE  NextJoined(m, seg, node, MergeWithNext(m, seg, node))
<1> DEFINE D == DOMAIN m
           size == m[seg].size + m[node].size + HeaderSize
           next == m[node].nextHeader
           m1 == [m EXCEPT ![seg].size = size, ![seg].nextHeader = next]
           m2 == [m1 EXCEPT ![next].previousHeader = seg]
           after == MergeWithNext(m, seg, node)
<1>1. size \in Nat /\ next \in Nat /\ m[seg] \in Headers
  BY HeapAssumption DEF Headers
<1>2. after = Clear(m2, node)
  BY DEF MergeWithNext
<1> HIDE DEF size, next
<1>3. /\ m1 \in [D -> Headers] /\ m1[seg].size = size /\ m1[seg].magic = m[seg].magic
      /\ m1[seg].nextHeader = next
      /\ m1[seg].previousHeader = m[seg].previousHeader
      /\ \A a \in D : a # seg => m1[a] = m[a]
  <2>1. [[m[seg] EXCEPT !.size = size] EXCEPT !.nextHeader = next] \in Headers
    BY <1>1 DEF Headers
  <2> QED BY <1>1, <2>1 DEF Headers
<1> HIDE DEF m1
<1>4. ASSUME NEW a \in D
      PROVE  /\ m2[a] \in Headers
             /\ m2[a].size = m1[a].size /\ m2[a].magic = m1[a].magic
             /\ m2[a].nextHeader = m1[a].nextHeader
             /\ m2[a].previousHeader = IF a = next THEN seg ELSE m1[a].previousHeader
             /\ a # next => m2[a] = m1[a]
  <2>1. m1[a] \in Headers
    BY <1>3
  <2> QED BY <1>3, <2>1 DEF Headers
<1>5. DOMAIN m2 = D
  BY <1>3
<1> HIDE DEF m2
<1>6. after = [a \in D \ {node} |-> m2[a]]
  BY <1>2, <1>5 DEF Clear
<1> HIDE DEF after
<1>7. NextJoined(m, seg, node, after)
  BY <1>3, <1>4, <1>6 DEF NextJoined, size, next
<1> QED BY <1>7 DEF after

Inserted(m, prev, seg, node, after) ==
  /\ after \in [DOMAIN m -> Headers]
  /\ \A a \in DOMAIN m :
       /\ after[a].magic = m[a].magic /\ after[a].size = m[a].size
       /\ after[a].nextHeader = IF a = prev THEN seg ELSE IF a = seg THEN node
                                ELSE m[a].nextHeader
       /\ after[a].previousHeader = IF a = node THEN seg ELSE IF a = seg THEN prev
                                    ELSE m[a].previousHeader
       /\ a \notin {prev, seg, node} => after[a] = m[a]

(* Insert, header by header.                                               *)
LEMMA InsertHeaders ==
  ASSUME NEW m, NEW prev, NEW seg, NEW node,
         DOMAIN m \in SUBSET Nat, m \in [DOMAIN m -> Headers],
         prev \in DOMAIN m, seg \in DOMAIN m, node \in DOMAIN m, seg \notin {prev, node}
  PROVE  Inserted(m, prev, seg, node, Insert(m, prev, seg, node))
<1> DEFINE D == DOMAIN m
           a1 == [m EXCEPT ![prev].nextHeader = seg]
           a2 == [a1 EXCEPT ![node].previousHeader = seg]
           a3 == [a2 EXCEPT ![seg].nextHeader = node]
           a4 == [a3 EXCEPT ![seg].previousHeader = prev]
           after == Insert(m, prev, seg, node)
<1>1. seg \in Nat /\ node \in Nat /\ prev \in Nat
  OBVIOUS
<1>2. /\ a1 \in [D -> Headers]
      /\ \A a \in D : /\ a1[a].magic = m[a].magic /\ a1[a].size = m[a].size
                      /\ a1[a].nextHeader = IF a = prev THEN seg ELSE m[a].nextHeader
                      /\ a1[a].previousHeader = m[a].previousHeader
                      /\ a # prev => a1[a] = m[a]
  <2>1. a1 \in [D -> Headers]
    BY <1>1, Assignments
  <2> QED BY <2>1 DEF Headers
<1> HIDE DEF a1
<1>3. /\ a2 \in [D -> Headers]
      /\ \A a \in D : /\ a2[a].magic = a1[a].magic /\ a2[a].size = a1[a].size
                      /\ a2[a].nextHeader = a1[a].nextHeader
                      /\ a2[a].previousHeader = IF a = node THEN seg ELSE a1[a].previousHeader
                      /\ a # node => a2[a] = a1[a]
  <2>1. a2 \in [D -> Headers]
    BY <1>1, <1>2, Assignments
  <2> QED BY <1>2, <2>1 DEF Headers
<1> HIDE DEF a2
<1>4. /\ a3 \in [D -> Headers]
      /\ \A a \in D : /\ a3[a].magic = a2[a].magic /\ a3[a].size = a2[a].size
                      /\ a3[a].nextHeader = IF a = seg THEN node ELSE a2[a].nextHeader
                      /\ a3[a].previousHeader = a2[a].previousHeader
                      /\ a # seg => a3[a] = a2[a]
  <2>1. a3 \in [D -> Headers]
    BY <1>1, <1>3, Assignments
  <2> QED BY <1>3, <2>1 DEF Headers
<1>5. after = a4
  BY DEF Insert, a1, a2
<1> HIDE DEF a3
<1>6. /\ a4 \in [D -> Headers]
      /\ \A a \in D : /\ a4[a].magic = a3[a].magic /\ a4[a].size = a3[a].size
                      /\ a4[a].nextHeader = a3[a].nextHeader
                      /\ a4[a].previousHeader = IF a = seg THEN prev ELSE a3[a].previousHeader
                      /\ a # seg => a4[a] = a3[a]
  <2>1. a4 \in [D -> Headers]
    BY <1>1, <1>4, Assignments
  <2> QED BY <1>4, <2>1 DEF Headers
<1> HIDE DEF a4, after
<1>7. Inserted(m, prev, seg, node, after)
  BY <1>2, <1>3, <1>4, <1>5, <1>6 DEF Inserted
<1> QED BY <1>7 DEF after

(* A change of the headers alone leaves the other members as they were.    *)
WithMemory(h, m) == [h EXCEPT !.memory = m]

(* The other members of the heap.                                          *)
LEMMA NewMemory ==
  ASSUME NEW h, HeapRecord(h), NEW m, m \in [DOMAIN m -> Headers]
  PROVE  /\ HeapRecord(WithMemory(h, m))
         /\ WithMemory(h, m).memory = m
         /\ WithMemory(h, m).end = h.end /\ WithMemory(h, m).size = h.size
         /\ WithMemory(h, m).mappedPages = h.mappedPages
         /\ WithMemory(h, m).startSec = h.startSec /\ WithMemory(h, m).head = h.head
<1> DEFINE after == WithMemory(h, m)
<1>1. h = [memory |-> h.memory, end |-> h.end, size |-> h.size,
           mappedPages |-> h.mappedPages, startSec |-> h.startSec, head |-> h.head]
  BY DEF HeapRecord
<1>2. after = [memory |-> m, end |-> h.end, size |-> h.size, mappedPages |-> h.mappedPages,
               startSec |-> h.startSec, head |-> h.head]
  BY <1>1 DEF WithMemory
<1> HIDE DEF after
<1>3. /\ after.memory = m /\ after.end = h.end /\ after.size = h.size
      /\ after.mappedPages = h.mappedPages
      /\ after.startSec = h.startSec /\ after.head = h.head
  BY <1>2
<1>4. HeapRecord(after)
  BY <1>2, <1>3 DEF HeapRecord
<1> QED BY <1>3, <1>4 DEF after

(* Of two changes the last one counts.                                     *)
LEMMA NewMemoryTwice ==
  ASSUME NEW h, HeapRecord(h), NEW m, NEW n
  PROVE  WithMemory(WithMemory(h, m), n) = WithMemory(h, n)
<1>1. h = [memory |-> h.memory, end |-> h.end, size |-> h.size,
           mappedPages |-> h.mappedPages, startSec |-> h.startSec, head |-> h.head]
  BY DEF HeapRecord
<1>2. WithMemory(h, m)
        = [memory |-> m, end |-> h.end, size |-> h.size, mappedPages |-> h.mappedPages,
           startSec |-> h.startSec, head |-> h.head]
  BY <1>1 DEF WithMemory
<1>3. WithMemory(h, n)
        = [memory |-> n, end |-> h.end, size |-> h.size, mappedPages |-> h.mappedPages,
           startSec |-> h.startSec, head |-> h.head]
  BY <1>1 DEF WithMemory
<1>4. WithMemory(WithMemory(h, m), n)
        = [memory |-> n, end |-> h.end, size |-> h.size, mappedPages |-> h.mappedPages,
           startSec |-> h.startSec, head |-> h.head]
  <2> DEFINE once == WithMemory(h, m)
  <2> HIDE DEF once
  <2>1. once = [memory |-> m, end |-> h.end, size |-> h.size, mappedPages |-> h.mappedPages,
                startSec |-> h.startSec, head |-> h.head]
    BY <1>2 DEF once
  <2>2. WithMemory(once, n)
          = [memory |-> n, end |-> h.end, size |-> h.size, mappedPages |-> h.mappedPages,
             startSec |-> h.startSec, head |-> h.head]
    BY <2>1 DEF WithMemory
  <2> QED BY <2>2 DEF once
<1> QED BY <1>3, <1>4

-------------------------------------------------------------------------------
(* The block joins the free segment before it.                             *)
LEMMA MergePreviousShape ==
  ASSUME NEW h, NEW blocks, HeapSound(h, blocks), NEW seg \in blocks,
         NEW prev \in FreeSegments(h, blocks), EndOf(h.memory, prev) = seg
  PROVE  LET after == WithMemory(h, MergeWithPrevious(h.memory, prev, seg))
         IN  /\ HeapShape(after, blocks \ {seg})
             /\ FreeSegments(after, blocks \ {seg}) = FreeSegments(h, blocks)
             /\ EndOf(after.memory, prev) = EndOf(h.memory, seg)
             /\ after.memory[prev].nextHeader = h.memory[prev].nextHeader
             /\ \A a \in DOMAIN h.memory \ {seg, prev} :
                  after.memory[a] = h.memory[a]
                  /\ EndOf(after.memory, a) = EndOf(h.memory, a)
<1> DEFINE m == h.memory
           D == DOMAIN m
           m1 == MergeWithPrevious(m, prev, seg)
           after == WithMemory(h, m1)
           free == FreeSegments(h, blocks)
<1>1. /\ \A s \in D : /\ s \in Nat /\ s >= Begin /\ m[s].size \in Nat /\ m[s].magic = TRUE
                      /\ EndOf(m, s) \in Nat
      /\ seg \in D /\ prev \in D /\ prev # seg /\ free = D \ blocks
      /\ m \in [D -> Headers]
      /\ HeaderSize \in Nat \ {0} /\ h.end \in Nat
  BY SegmentsType, HeapAssumption DEF HeapSound, HeapShape, HeapRecord, FreeSegments
<1>2. /\ m1 \in [D \ {seg} -> Headers]
      /\ m1[prev].size = m[prev].size + m[seg].size + HeaderSize
      /\ \A a \in D \ {seg} :
           /\ m1[a].magic = m[a].magic
           /\ m1[a].nextHeader = m[a].nextHeader
           /\ m1[a].previousHeader = m[a].previousHeader
           /\ a # prev => m1[a] = m[a]
  <2>1. PreviousJoined(m, prev, seg, m1)
    BY <1>1, MergePreviousHeaders
  <2> HIDE DEF m1
  <2> QED BY <2>1 DEF PreviousJoined
<1> HIDE DEF m1
<1>3. DOMAIN m1 = D \ {seg}
  BY <1>2
<1>4. /\ HeapRecord(after) /\ after.memory = m1
      /\ after.end = h.end /\ after.startSec = h.startSec /\ after.head = h.head
  <2>1. HeapRecord(h) /\ m1 \in [DOMAIN m1 -> Headers]
    BY <1>2, <1>3 DEF HeapSound, HeapShape
  <2> QED BY <2>1, NewMemory
<1> HIDE DEF after
<1>5. /\ EndOf(m1, prev) = EndOf(m, seg)
      /\ \A a \in D \ {seg, prev} : EndOf(m1, a) = EndOf(m, a)
  BY <1>1, <1>2 DEF EndOf
<1>6. FreeSegments(after, blocks \ {seg}) = free
  BY <1>1, <1>3, <1>4 DEF FreeSegments
<1>7. Linked(after, free)
  BY <1>1, <1>2, <1>4 DEF HeapSound, HeapShape, Linked
<1>8. Tiled(after)
  <2>1. /\ \A s \in D : EndOf(m, s) \in D \union {h.end} /\ EndOf(m, s) <= h.end
        /\ \A s, t \in D : s < t => EndOf(m, s) <= t
    BY DEF HeapSound, HeapShape, Tiled
  <2>2. \A s \in D : s # prev => EndOf(m, s) # seg
    <3> SUFFICES ASSUME NEW s \in D, s # prev, EndOf(m, s) = seg PROVE FALSE
      OBVIOUS
    <3>1. s < seg /\ prev < seg
      BY <1>1 DEF EndOf
    <3>2. CASE s < prev
      BY <1>1, <2>1, <3>1, <3>2
    <3>3. CASE prev < s
      BY <1>1, <2>1, <3>1, <3>3
    <3> QED BY <1>1, <3>2, <3>3
  <2>3. EndOf(m, seg) # seg
    BY <1>1 DEF EndOf
  <2>4. ASSUME NEW s \in D \ {seg}
        PROVE  /\ s \in Nat /\ s >= Begin /\ m1[s].magic
               /\ EndOf(m1, s) \in (D \ {seg}) \union {h.end}
               /\ EndOf(m1, s) <= h.end
    <3>1. m1[s].magic = TRUE
      BY <1>1, <1>2
    <3> QED BY <1>1, <1>5, <2>1, <2>2, <2>3, <3>1
  <2>5. ASSUME NEW s \in D \ {seg}, NEW t \in D \ {seg}, s < t
        PROVE  EndOf(m1, s) <= t
    <3>1. CASE s = prev
      <4>1. seg < t
        BY <1>1, <2>1, <2>5, <3>1
      <4> QED BY <1>1, <1>5, <2>1, <3>1, <4>1
    <3>2. CASE s # prev
      BY <1>5, <2>1, <2>5, <3>2
    <3> QED BY <3>1, <3>2
  <2> QED BY <1>3, <1>4, <2>4, <2>5 DEF Tiled
<1>9. HeapShape(after, blocks \ {seg})
  <2>1. IsFiniteSet(D \ {seg})
    BY FS_RemoveElement DEF HeapSound, HeapShape
  <2>2. blocks \subseteq D /\ h.startSec # Null /\ h.startSec \notin blocks
    BY DEF HeapSound, HeapShape
  <2> QED BY <1>3, <1>4, <1>6, <1>7, <1>8, <2>1, <2>2 DEF HeapShape
<1> QED BY <1>1, <1>2, <1>4, <1>5, <1>6, <1>9 DEF after, m1

(* The segment joins the free segment behind it.                           *)
LEMMA MergeNextSound ==
  ASSUME NEW h, NEW blocks, HeapShape(h, blocks),
         NEW seg \in FreeSegments(h, blocks), NEW node \in FreeSegments(h, blocks),
         EndOf(h.memory, seg) = node, h.memory[seg].nextHeader = node,
         \A s, t \in FreeSegments(h, blocks) : EndOf(h.memory, s) = t => s = seg
  PROVE  LET after == WithMemory(h, MergeWithNext(h.memory, seg, node))
         IN  /\ HeapSound(after, blocks)
             /\ \A b \in blocks : after.memory[b] = h.memory[b]
<1> DEFINE m == h.memory
           D == DOMAIN m
           next == m[node].nextHeader
           m1 == MergeWithNext(m, seg, node)
           after == WithMemory(h, m1)
           free == FreeSegments(h, blocks)
<1>1. /\ \A s \in D : /\ s \in Nat /\ s >= Begin /\ m[s].size \in Nat /\ m[s].magic = TRUE
                      /\ EndOf(m, s) \in Nat /\ EndOf(m, s) > s
      /\ seg \in D /\ node \in D /\ free = D \ blocks
      /\ m \in [D -> Headers] /\ D \in SUBSET Nat
      /\ HeaderSize \in Nat \ {0} /\ h.end \in Nat /\ Begin \in Nat
  BY ShapeType, HeapAssumption DEF HeapShape, HeapRecord, FreeSegments
<1>2. seg < node /\ seg # node /\ node # Begin
  BY <1>1
<1>3. /\ m1 \in [D \ {node} -> Headers]
      /\ m1[seg].size = m[seg].size + m[node].size + HeaderSize
      /\ m1[seg].nextHeader = next
      /\ \A a \in D \ {node} :
           /\ m1[a].magic = m[a].magic
           /\ a # seg => m1[a].nextHeader = m[a].nextHeader
           /\ a # seg => m1[a].size = m[a].size
           /\ m1[a].previousHeader = IF a = next THEN seg ELSE m[a].previousHeader
           /\ a \notin {seg, next} => m1[a] = m[a]
  <2>1. NextJoined(m, seg, node, m1)
    BY <1>1, <1>2, MergeNextHeaders
  <2> HIDE DEF m1
  <2> QED BY <2>1 DEF NextJoined
<1> HIDE DEF m1
<1>4. DOMAIN m1 = D \ {node}
  BY <1>3
<1>5. /\ HeapRecord(after) /\ after.memory = m1
      /\ after.end = h.end /\ after.startSec = h.startSec /\ after.head = h.head
  <2>1. HeapRecord(h) /\ m1 \in [DOMAIN m1 -> Headers]
    BY <1>3, <1>4 DEF HeapShape
  <2> QED BY <2>1, NewMemory
<1> HIDE DEF after
<1>6. /\ EndOf(m1, seg) = EndOf(m, node)
      /\ \A a \in D \ {seg, node} : EndOf(m1, a) = EndOf(m, a)
  BY <1>1, <1>3 DEF EndOf
<1>7. FreeSegments(after, blocks) = free \ {node}
  BY <1>1, <1>4, <1>5 DEF FreeSegments
<1>8. \A f \in free :
        LET nextOf == m[f].nextHeader
            prevOf == m[f].previousHeader
        IN  /\ f >= Begin /\ m[f].magic = TRUE
            /\ nextOf \in free /\ m[nextOf].previousHeader = f
            /\ prevOf \in free /\ m[prevOf].nextHeader = f
            /\ \/ nextOf > f /\ \A g \in free : g > f => g >= nextOf
               \/ nextOf = Begin /\ \A g \in free : g <= f
  BY <1>1 DEF HeapShape, Linked
<1>9. Linked(after, free \ {node})
  <2>1. next \in free /\ m[next].previousHeader = node /\ next # node
    <3>1. next \in free /\ m[next].previousHeader = node
      BY <1>8
    <3>2. next # node
      BY <1>2, <1>8
    <3> QED BY <3>1, <3>2
  <2>2. \/ next > node /\ \A g \in free : g > node => g >= next
        \/ next = Begin /\ \A g \in free : g <= node
    BY <1>8
  <2>3. \A g \in free : g > seg => g >= node
    BY <1>2, <1>8
  <2>4. h.head = Begin /\ Begin \in free
    BY DEF HeapShape, Linked
  <2> HIDE DEF next
  <2>5. ASSUME NEW f \in free \ {node}
        PROVE  LET nextOf == m1[f].nextHeader
                   prevOf == m1[f].previousHeader
               IN  /\ f >= Begin /\ m1[f].magic
                   /\ nextOf \in free \ {node} /\ m1[nextOf].previousHeader = f
                   /\ prevOf \in free \ {node} /\ m1[prevOf].nextHeader = f
                   /\ \/ nextOf > f /\ \A g \in free \ {node} : g > f => g >= nextOf
                      \/ nextOf = Begin /\ \A g \in free \ {node} : g <= f
    <3>1. f \in D \ {node} /\ f \in Nat /\ next \in D /\ next \in Nat /\ node \in Nat
          /\ seg \in Nat /\ free \subseteq D
      BY <1>1, <2>1
    <3>2. f >= Begin /\ m1[f].magic
      BY <1>3, <1>8, <3>1
    <3>3. m1[f].previousHeader \in free \ {node} /\ m1[m1[f].previousHeader].nextHeader = f
      <4>1. CASE f = next
        BY <1>2, <1>3, <3>1, <4>1
      <4>2. CASE f # next
        <5>1. m1[f].previousHeader = m[f].previousHeader
              /\ m[f].previousHeader \in free /\ m[m[f].previousHeader].nextHeader = f
          BY <1>3, <1>8, <3>1, <4>2
        <5>2. m[f].previousHeader # node
          BY <4>2, <5>1 DEF next
        <5>3. m[f].previousHeader # seg
          BY <5>1
        <5>4. m[f].previousHeader \in D \ {node}
          BY <3>1, <5>1, <5>2
        <5> QED BY <1>3, <5>1, <5>2, <5>3, <5>4
      <4> QED BY <4>1, <4>2
    <3>4. CASE f = seg
      <4>1. m1[f].nextHeader = next /\ m1[next].previousHeader = f
        BY <1>3, <2>1, <3>1, <3>4
      <4>2. CASE next > node /\ \A g \in free : g > node => g >= next
        <5>1. \A g \in free \ {node} : g > f => g >= next
          <6> SUFFICES ASSUME NEW g \in free, g # node, g > f PROVE g >= next
            OBVIOUS
          <6>1. g >= node /\ g \in Nat
            BY <2>3, <3>1, <3>4, <1>1
          <6>2. g > node
            BY <3>1, <6>1
          <6> QED BY <4>2, <6>2
        <5>2. next > f
          BY <1>2, <3>1, <3>4, <4>2
        <5> QED BY <2>1, <3>2, <3>3, <4>1, <5>1, <5>2
      <4>3. CASE next = Begin /\ \A g \in free : g <= node
        <5>1. \A g \in free \ {node} : g <= f
          <6> SUFFICES ASSUME NEW g \in free, g # node, ~(g <= f) PROVE FALSE
            OBVIOUS
          <6>1. g \in Nat
            BY <3>1, <1>1
          <6>2. g > seg
            BY <3>1, <3>4, <6>1
          <6>3. g >= node /\ g <= node
            BY <2>3, <4>3, <6>2
          <6> QED BY <3>1, <6>1, <6>3
        <5> QED BY <2>1, <3>2, <3>3, <4>1, <4>3, <5>1
      <4> QED BY <2>2, <4>2, <4>3
    <3>5. CASE f # seg
      <4>1. m1[f].nextHeader = m[f].nextHeader /\ m[f].nextHeader \in free
            /\ m[m[f].nextHeader].previousHeader = f
        BY <1>3, <1>8, <3>1, <3>5
      <4>2. m[f].nextHeader # node
        BY <1>8, <3>5, <4>1
      <4>3. m[f].nextHeader # next
        BY <2>1, <4>1
      <4>4. m[f].nextHeader \in D \ {node}
        BY <3>1, <4>1, <4>2
      <4>5. m1[m[f].nextHeader].previousHeader = f
        BY <1>3, <4>1, <4>3, <4>4
      <4>6. \/ m[f].nextHeader > f /\ \A g \in free \ {node} : g > f => g >= m[f].nextHeader
            \/ m[f].nextHeader = Begin /\ \A g \in free \ {node} : g <= f
        BY <1>8
      <4> QED BY <3>2, <3>3, <4>1, <4>2, <4>5, <4>6
    <3> QED BY <3>4, <3>5
  <2> QED BY <1>2, <1>5, <2>4, <2>5 DEF Linked
<1>10. /\ \A s \in D : EndOf(m, s) \in D \union {h.end} /\ EndOf(m, s) <= h.end
       /\ \A s, t \in D : s < t => EndOf(m, s) <= t
  BY DEF HeapShape, Tiled
<1>11. \A s \in D : s # seg => EndOf(m, s) # node
  <2> SUFFICES ASSUME NEW s \in D, s # seg, EndOf(m, s) = node PROVE FALSE
    OBVIOUS
  <2>1. s < node
    BY <1>1
  <2>2. CASE s < seg
    BY <1>1, <1>2, <1>10, <2>2
  <2>3. CASE seg < s
    BY <1>1, <1>10, <2>1, <2>3
  <2> QED BY <1>1, <2>2, <2>3
<1>12. Tiled(after)
  <2>1. EndOf(m, node) # node
    BY <1>1
  <2>2. ASSUME NEW s \in D \ {node}
        PROVE  /\ s \in Nat /\ s >= Begin /\ m1[s].magic
               /\ EndOf(m1, s) \in (D \ {node}) \union {h.end}
               /\ EndOf(m1, s) <= h.end
    <3>1. m1[s].magic = TRUE
      BY <1>1, <1>3
    <3> QED BY <1>1, <1>6, <1>10, <1>11, <2>1, <3>1
  <2>3. ASSUME NEW s \in D \ {node}, NEW t \in D \ {node}, s < t
        PROVE  EndOf(m1, s) <= t
    <3>1. CASE s = seg
      <4>1. node < t
        BY <1>1, <1>10, <2>3, <3>1
      <4> QED BY <1>1, <1>6, <1>10, <3>1, <4>1
    <3>2. CASE s # seg
      BY <1>6, <1>10, <2>3, <3>2
    <3> QED BY <3>1, <3>2
  <2> QED BY <1>4, <1>5, <2>2, <2>3 DEF Tiled
<1>13. Merged(after, free \ {node})
  <2>1. \A t \in free : EndOf(m, node) # t
    BY <1>2
  <2>2. ASSUME NEW s \in free \ {node}, NEW t \in free \ {node}
        PROVE  EndOf(m1, s) # t
    <3>1. CASE s = seg
      BY <1>6, <2>1, <3>1
    <3>2. CASE s # seg
      BY <1>1, <1>6, <3>2
    <3> QED BY <3>1, <3>2
  <2> QED BY <1>5, <2>2 DEF Merged
<1>14. HeapSound(after, blocks)
  <2>1. IsFiniteSet(D \ {node})
    BY FS_RemoveElement DEF HeapShape
  <2>2. blocks \subseteq D /\ node \notin blocks /\ h.startSec # Null
        /\ h.startSec \notin blocks
    BY DEF HeapShape, FreeSegments
  <2> QED BY <1>4, <1>5, <1>7, <1>9, <1>12, <1>13, <2>1, <2>2 DEF HeapShape, HeapSound
<1>15. \A b \in blocks : m1[b] = m[b]
  <2>1. next \in free
    BY <1>8
  <2>2. \A b \in blocks : b \in D \ {node} /\ b # seg /\ b # next
    BY <1>1, <2>1 DEF HeapShape
  <2> QED BY <1>3, <2>2
<1> QED BY <1>5, <1>14, <1>15 DEF after, m1

(* The free segments between which the block lies, in the order of the     *)
(* addresses or around the ring.                                           *)
Between(h, blocks, prev, seg, node) ==
  LET free == FreeSegments(h, blocks)
  IN  /\ prev \in free /\ node \in free
      /\ h.memory[prev].nextHeader = node /\ prev < seg
      /\ \A g \in free : g < seg => g <= prev
      /\ \/ node > seg /\ \A g \in free : g > seg => g >= node
         \/ node = Begin /\ \A g \in free : g < seg

(* The block joins no free segment and is linked between its neighbours.   *)
HeadersKept(h, blocks, after) == \A b \in blocks : after.memory[b] = h.memory[b]

(* The free list stays sorted and linked both ways.                        *)
LEMMA InsertSound ==
  ASSUME NEW h, NEW blocks, HeapSound(h, blocks), NEW seg \in blocks,
         NEW prev, NEW node, Between(h, blocks, prev, seg, node),
         EndOf(h.memory, prev) # seg, EndOf(h.memory, seg) # node
  PROVE  LET after == WithMemory(h, Insert(h.memory, prev, seg, node))
         IN  /\ HeapSound(after, blocks \ {seg})
             /\ HeadersKept(h, blocks \ {seg}, after)
<1> DEFINE m == h.memory
           D == DOMAIN m
           m1 == Insert(m, prev, seg, node)
           after == WithMemory(h, m1)
           free == FreeSegments(h, blocks)
<1>0. /\ prev \in free /\ node \in free
      /\ m[prev].nextHeader = node /\ prev < seg
      /\ \A g \in free : g < seg => g <= prev
      /\ \/ node > seg /\ \A g \in free : g > seg => g >= node
         \/ node = Begin /\ \A g \in free : g < seg
  BY DEF Between
<1> USE <1>0
<1>1. /\ \A s \in D : /\ s \in Nat /\ s >= Begin /\ m[s].size \in Nat /\ m[s].magic = TRUE
                      /\ EndOf(m, s) \in Nat /\ EndOf(m, s) > s
      /\ seg \in D /\ prev \in D /\ node \in D /\ free = D \ blocks
      /\ seg \notin {prev, node}
      /\ m \in [D -> Headers] /\ D \in SUBSET Nat
      /\ HeaderSize \in Nat \ {0} /\ h.end \in Nat /\ Begin \in Nat
  BY ShapeType, HeapAssumption DEF HeapSound, HeapShape, HeapRecord, FreeSegments
<1>2. /\ m1 \in [D -> Headers]
      /\ \A a \in D :
           /\ m1[a].magic = m[a].magic /\ m1[a].size = m[a].size
           /\ m1[a].nextHeader = IF a = prev THEN seg ELSE IF a = seg THEN node
                                 ELSE m[a].nextHeader
           /\ m1[a].previousHeader = IF a = node THEN seg ELSE IF a = seg THEN prev
                                     ELSE m[a].previousHeader
           /\ a \notin {prev, seg, node} => m1[a] = m[a]
  <2>1. Inserted(m, prev, seg, node, m1)
    BY <1>1, InsertHeaders
  <2> HIDE DEF m1
  <2> QED BY <2>1 DEF Inserted
<1> HIDE DEF m1
<1>3. DOMAIN m1 = D
  BY <1>2
<1>4. /\ HeapRecord(after) /\ after.memory = m1
      /\ after.end = h.end /\ after.startSec = h.startSec /\ after.head = h.head
  <2>1. HeapRecord(h) /\ m1 \in [DOMAIN m1 -> Headers]
    BY <1>2, <1>3 DEF HeapSound, HeapShape
  <2> QED BY <2>1, NewMemory
<1> HIDE DEF after
<1>5. \A a \in D : EndOf(m1, a) = EndOf(m, a)
  BY <1>2 DEF EndOf
<1>6. FreeSegments(after, blocks \ {seg}) = free \union {seg}
  BY <1>1, <1>3, <1>4 DEF FreeSegments
<1>7. \A f \in free :
        LET nextOf == m[f].nextHeader
            prevOf == m[f].previousHeader
        IN  /\ f >= Begin /\ m[f].magic = TRUE
            /\ nextOf \in free /\ m[nextOf].previousHeader = f
            /\ prevOf \in free /\ m[prevOf].nextHeader = f
            /\ \/ nextOf > f /\ \A g \in free : g > f => g >= nextOf
               \/ nextOf = Begin /\ \A g \in free : g <= f
  BY <1>1 DEF HeapSound, HeapShape, Linked
<1>8. Linked(after, free \union {seg})
  <2>1. h.head = Begin /\ Begin \in free
    BY DEF HeapSound, HeapShape, Linked
  <2>2. seg \notin free /\ free \subseteq D /\ \A f \in free : f \in Nat
    BY <1>1
  <2>3. m[node].previousHeader = prev
    BY <1>7
  <2>4. ASSUME NEW f \in free \union {seg}
        PROVE  LET nextOf == m1[f].nextHeader
                   prevOf == m1[f].previousHeader
               IN  /\ f >= Begin /\ m1[f].magic
                   /\ nextOf \in free \union {seg} /\ m1[nextOf].previousHeader = f
                   /\ prevOf \in free \union {seg} /\ m1[prevOf].nextHeader = f
                   /\ \/ nextOf > f /\ \A g \in free \union {seg} : g > f => g >= nextOf
                      \/ nextOf = Begin /\ \A g \in free \union {seg} : g <= f
    <3>1. f \in D /\ f \in Nat /\ f >= Begin /\ m1[f].magic = TRUE
      BY <1>1, <1>2, <2>2
    <3>2. CASE f = seg
      <4>1. m1[f].nextHeader = node /\ m1[f].previousHeader = prev
        BY <1>1, <1>2, <3>2
      <4>2. m1[node].previousHeader = f /\ m1[prev].nextHeader = f
        BY <1>1, <1>2, <3>2
      <4>3. CASE node > seg /\ \A g \in free : g > seg => g >= node
        BY <1>1, <3>1, <3>2, <4>1, <4>2, <4>3
      <4>4. CASE node = Begin /\ \A g \in free : g < seg
        <5>1. \A g \in free \union {seg} : g <= f
          BY <1>1, <2>2, <3>2, <4>4
        <5> QED BY <3>1, <4>1, <4>2, <4>4, <5>1
      <4> QED BY <4>3, <4>4
    <3>3. CASE f \in free
      <4>1. m1[f].previousHeader \in free \union {seg}
            /\ m1[m1[f].previousHeader].nextHeader = f
        <5>1. CASE f = node
          <6>1. m1[f].previousHeader = seg
            BY <1>1, <1>2, <5>1
          <6>2. m1[seg].nextHeader = node
            BY <1>1, <1>2
          <6> QED BY <5>1, <6>1, <6>2
        <5>2. CASE f # node
          <6>1. m1[f].previousHeader = m[f].previousHeader
                /\ m[f].previousHeader \in free /\ m[m[f].previousHeader].nextHeader = f
            BY <1>2, <1>7, <2>2, <3>1, <3>3, <5>2
          <6>2. m[f].previousHeader # prev /\ m[f].previousHeader # seg
            BY <2>2, <5>2, <6>1
          <6> QED BY <1>2, <2>2, <6>1, <6>2
        <5> QED BY <5>1, <5>2
      <4>2. CASE f = prev
        <5>1. m1[f].nextHeader = seg /\ m1[seg].previousHeader = f
          BY <1>1, <1>2, <4>2
        <5>2. \A g \in free \union {seg} : g > f => g >= seg
          <6> SUFFICES ASSUME NEW g \in free, g > f PROVE g >= seg
            BY <1>1
          <6> QED BY <1>1, <2>2, <3>1, <4>2
        <5> QED BY <1>1, <3>1, <4>1, <4>2, <5>1, <5>2
      <4>3. CASE f # prev
        <5>1. m1[f].nextHeader = m[f].nextHeader /\ m[f].nextHeader \in free
              /\ m[m[f].nextHeader].previousHeader = f
          BY <1>2, <1>7, <2>2, <3>1, <3>3, <4>3
        <5>2. m[f].nextHeader # node /\ m[f].nextHeader # seg /\ m[f].nextHeader \in D
          BY <2>2, <2>3, <4>3, <5>1
        <5>3. m1[m[f].nextHeader].previousHeader = f
          BY <1>2, <5>1, <5>2
        <5>4. CASE m[f].nextHeader > f /\ \A g \in free : g > f => g >= m[f].nextHeader
          <6>1. seg > f => seg >= m[f].nextHeader
            <7>1. ASSUME seg > f PROVE prev > f
              BY <1>1, <2>2, <3>1, <3>3, <4>3, <7>1
            <7>2. ASSUME seg > f PROVE m[f].nextHeader <= prev
              BY <5>4, <7>1, <7>2
            <7> QED BY <1>1, <2>2, <5>1, <7>2
          <6>2. \A g \in free \union {seg} : g > f => g >= m[f].nextHeader
            BY <5>4, <6>1
          <6> QED BY <3>1, <4>1, <5>1, <5>3, <5>4, <6>2
        <5>5. CASE m[f].nextHeader = Begin /\ \A g \in free : g <= f
          <6>1. seg <= f
            <7> SUFFICES ASSUME ~(seg <= f) PROVE FALSE
              OBVIOUS
            <7>1. f < seg
              BY <1>1, <3>1
            <7>2. f <= prev /\ prev <= f
              BY <3>3, <5>5, <7>1
            <7> QED BY <1>1, <3>1, <4>3, <7>2
          <6> QED BY <3>1, <4>1, <5>1, <5>3, <5>5, <6>1
        <5>6. \/ m[f].nextHeader > f /\ \A g \in free : g > f => g >= m[f].nextHeader
              \/ m[f].nextHeader = Begin /\ \A g \in free : g <= f
          BY <1>7, <3>3
        <5> QED BY <5>4, <5>5, <5>6
      <4> QED BY <4>2, <4>3
    <3> QED BY <3>2, <3>3
  <2> QED BY <1>4, <2>1, <2>4 DEF Linked
<1>9. /\ \A s \in D : EndOf(m, s) \in D \union {h.end} /\ EndOf(m, s) <= h.end
      /\ \A s, t \in D : s < t => EndOf(m, s) <= t
  BY DEF HeapSound, HeapShape, Tiled
<1>10. Tiled(after)
  <2>1. \A s \in D : m1[s].magic = TRUE
    BY <1>1, <1>2
  <2> QED BY <1>1, <1>3, <1>4, <1>5, <1>9, <2>1 DEF Tiled
<1>11. Merged(after, free \union {seg})
  <2>1. \A s, t \in free : EndOf(m, s) # t
    BY DEF HeapSound, Merged
  <2>2. \A t \in free : EndOf(m, seg) # t
    <3> SUFFICES ASSUME NEW t \in free, EndOf(m, seg) = t PROVE FALSE
      OBVIOUS
    <3>1. t > seg /\ t \in Nat
      BY <1>1
    <3>2. node > seg /\ t >= node
      BY <1>1, <3>1
    <3>3. t <= node
      BY <1>1, <1>9, <3>2
    <3> QED BY <1>1, <3>1, <3>2, <3>3
  <2>3. \A s \in free : EndOf(m, s) # seg
    <3> SUFFICES ASSUME NEW s \in free, EndOf(m, s) = seg PROVE FALSE
      OBVIOUS
    <3>1. s < seg /\ s \in D
      BY <1>1
    <3>2. s <= prev /\ s # prev
      BY <3>1
    <3>3. EndOf(m, s) <= prev
      BY <1>1, <1>9, <3>1, <3>2
    <3> QED BY <1>1, <3>3
  <2>4. EndOf(m, seg) # seg
    BY <1>1
  <2>5. \A s \in free \union {seg} : s \in D
    BY <1>1
  <2> QED BY <1>4, <1>5, <2>1, <2>2, <2>3, <2>4, <2>5 DEF Merged
<1>12. HeapSound(after, blocks \ {seg})
  <2>1. IsFiniteSet(D) /\ blocks \subseteq D /\ h.startSec # Null /\ h.startSec \notin blocks
    BY DEF HeapSound, HeapShape
  <2> QED BY <1>3, <1>4, <1>6, <1>8, <1>10, <1>11, <2>1 DEF HeapShape, HeapSound
<1>13. \A b \in blocks \ {seg} : m1[b] = m[b]
  <2>1. \A b \in blocks \ {seg} : b \in D /\ b \notin {prev, seg, node}
    BY <1>1 DEF HeapSound, HeapShape
  <2> QED BY <1>2, <2>1
<1>14. HeadersKept(h, blocks \ {seg}, after)
  BY <1>4, <1>13 DEF HeadersKept
<1> QED BY <1>12, <1>14 DEF after, m1

-------------------------------------------------------------------------------
(* operator delete, up to shrinkHeap.                                      *)

TailFits(h) ==
  /\ Tail(h) \in DOMAIN h.memory /\ Tail(h) \in Nat /\ Tail(h) >= Begin
  /\ EndOf(h.memory, Tail(h)) <= h.end

(* What holds of the heap after any delete, even one that leaves the free  *)
(* list leading to a zeroed header.                                        *)
Kept(h, blocks, after) ==
  /\ HeapRecord(after)
  /\ after.end = h.end /\ after.size = h.size /\ after.mappedPages = h.mappedPages
  /\ \A b \in blocks : b \in DOMAIN after.memory /\ after.memory[b] = h.memory[b]
  /\ TailFits(after)

(* The tail of a sound heap.                                               *)
LEMMA SoundTailFits ==
  ASSUME NEW h, NEW blocks, HeapSound(h, blocks)
  PROVE  TailFits(h)
<1>1. Tail(h) \in DOMAIN h.memory
  BY TailIsLast DEF FreeSegments
<1> QED BY <1>1 DEF TailFits, HeapSound, HeapShape, Tiled

(* delete that merges with the segment behind the block only.              *)
LEMMA UnlinkingKeeps ==
  ASSUME NEW h, NEW blocks, HeapSound(h, blocks), NEW seg \in blocks,
         NEW node, node = NodeBehind(h, seg), EndOf(h.memory, seg) = node,
         NEW after, after = WithMemory(h, MergeWithNext(h.memory, seg, node))
  PROVE  Kept(h, blocks \ {seg}, after)
<1> DEFINE m == h.memory
           D == DOMAIN m
           next == m[node].nextHeader
           m1 == MergeWithNext(m, seg, node)
           free == FreeSegments(h, blocks)
<1>1. /\ \A s \in D : /\ s \in Nat /\ s >= Begin /\ m[s].size \in Nat
                      /\ EndOf(m, s) \in Nat /\ EndOf(m, s) > s
      /\ seg \in D /\ free = D \ blocks /\ blocks \subseteq D
      /\ m \in [D -> Headers] /\ D \in SUBSET Nat
      /\ HeaderSize \in Nat \ {0} /\ h.end \in Nat /\ Begin \in Nat
  BY SegmentsType, HeapAssumption DEF HeapSound, HeapShape, HeapRecord, FreeSegments
<1>2. node \in free
  BY Neighbours
<1>3. node \in D /\ seg # node /\ node > seg
  BY <1>1, <1>2
<1>4. NextJoined(m, seg, node, m1)
  BY <1>1, <1>3, MergeNextHeaders
<1>5. after = WithMemory(h, m1)
  OBVIOUS
<1> HIDE DEF m1
<1>6. /\ m1 \in [D \ {node} -> Headers]
      /\ m1[seg].size = m[seg].size + m[node].size + HeaderSize
      /\ \A a \in D \ {node} :
           /\ a # seg => m1[a].size = m[a].size
           /\ m1[a].previousHeader = IF a = next THEN seg ELSE m[a].previousHeader
           /\ a \notin {seg, next} => m1[a] = m[a]
  BY <1>4 DEF NextJoined
<1>7. DOMAIN m1 = D \ {node}
  BY <1>6
<1>8. /\ HeapRecord(after) /\ after.memory = m1
      /\ after.end = h.end /\ after.size = h.size /\ after.mappedPages = h.mappedPages
      /\ after.startSec = h.startSec /\ after.head = h.head
  <2>1. HeapRecord(h) /\ m1 \in [DOMAIN m1 -> Headers]
    BY <1>6, <1>7 DEF HeapSound, HeapShape
  <2> QED BY <1>5, <2>1, NewMemory
<1>9. /\ next \in free /\ h.head = Begin /\ Begin \in free
      /\ m[Begin].previousHeader \in free /\ m[m[Begin].previousHeader].nextHeader = Begin
  BY <1>2 DEF HeapSound, HeapShape, Linked
<1>10. \A b \in blocks \ {seg} : b \in DOMAIN m1 /\ m1[b] = m[b]
  <2>1. \A b \in blocks \ {seg} : b \in D \ {node} /\ b \notin {seg, next}
    BY <1>1, <1>2, <1>9
  <2> QED BY <1>6, <1>7, <2>1
<1>11. EndOf(m, node) <= h.end
  BY <1>3 DEF HeapSound, HeapShape, Tiled
<1>12. Begin # node
  BY <1>1, <1>3
<1>13. Begin \in D \ {node}
  BY <1>1, <1>9, <1>12
<1>14. CASE Begin = next
  <2>1. Tail(after) = seg
    BY <1>6, <1>8, <1>9, <1>13, <1>14 DEF Tail
  <2>2. EndOf(m1, seg) = EndOf(m, node)
    BY <1>1, <1>3, <1>6 DEF EndOf
  <2> QED BY <1>1, <1>3, <1>7, <1>8, <1>10, <1>11, <2>1, <2>2 DEF Kept, TailFits
<1>15. CASE Begin # next
  <2> DEFINE tail == m[Begin].previousHeader
  <2>1. Tail(after) = tail
    BY <1>6, <1>8, <1>9, <1>13, <1>15 DEF Tail
  <2>2. tail \in D \ {node} /\ tail # seg
    BY <1>1, <1>9, <1>15
  <2>3. EndOf(m1, tail) = EndOf(m, tail)
    BY <1>6, <2>2 DEF EndOf
  <2>4. EndOf(m, tail) <= h.end /\ tail >= Begin
    BY <1>1, <2>2 DEF HeapSound, HeapShape, Tiled
  <2>5. tail \in Nat
    BY <1>1, <2>2
  <2> HIDE DEF tail
  <2> QED BY <1>7, <1>8, <1>10, <2>1, <2>2, <2>3, <2>4, <2>5 DEF Kept, TailFits
<1> QED BY <1>14, <1>15

(* delete leaves a sound heap unless it unlinks a segment.                 *)
LEMMA ReleaseKeeps ==
  ASSUME NEW h, NEW blocks, HeapSound(h, blocks), NEW seg \in blocks
  PROVE  /\ Kept(h, blocks \ {seg}, Release(h, seg))
         /\ ~Unlinks(h, seg) => HeapSound(Release(h, seg), blocks \ {seg})
<1> DEFINE m == h.memory
           D == DOMAIN m
           free == FreeSegments(h, blocks)
           node == NodeBehind(h, seg)
           prev == m[node].previousHeader
           after == Release(h, seg)
           rest == blocks \ {seg}
<1>1. /\ \A s \in D : s \in Nat /\ EndOf(m, s) \in Nat /\ EndOf(m, s) > s
      /\ seg \in D /\ free = D \ blocks /\ blocks \subseteq D
      /\ Begin \in Nat
  BY SegmentsType, HeapAssumption DEF HeapSound, HeapShape, FreeSegments
<1>2. /\ node \in free /\ prev \in free
      /\ m[prev].nextHeader = node
      /\ prev < seg /\ Begin < seg
      /\ \A g \in free : g < seg => g <= prev
      /\ \/ node > seg /\ \A g \in free : g > seg => g >= node
         \/ node = Begin /\ \A g \in free : g < seg
  BY Neighbours
<1>3. HeapRecord(h)
  BY DEF HeapSound, HeapShape
<1>4. \A t \in free : EndOf(m, seg) = t => t = node
  <2> SUFFICES ASSUME NEW t \in free, EndOf(m, seg) = t PROVE t = node
    OBVIOUS
  <2>1. t > seg /\ t \in Nat /\ node \in Nat
    BY <1>1, <1>2
  <2>2. node > seg /\ t >= node
    BY <1>1, <1>2, <2>1
  <2>3. EndOf(m, seg) <= node
    BY <1>1, <1>2, <2>2 DEF HeapSound, HeapShape, Tiled
  <2> QED BY <2>1, <2>2, <2>3
<1>5. ASSUME HeapSound(after, rest),
             after.end = h.end /\ after.size = h.size /\ after.mappedPages = h.mappedPages,
             \A b \in rest : after.memory[b] = m[b]
      PROVE  Kept(h, rest, after) /\ HeapSound(after, rest)
  <2>1. HeapRecord(after) /\ rest \subseteq DOMAIN after.memory
    BY <1>5 DEF HeapSound, HeapShape
  <2> HIDE DEF after
  <2> QED BY <1>5, <2>1, SoundTailFits DEF Kept
<1>6. CASE Touches(h, seg)
  <2> DEFINE m1 == MergeWithPrevious(m, prev, seg)
             h1 == WithMemory(h, m1)
             m2 == MergeWithNext(m1, prev, node)
             h2 == WithMemory(h, m2)
  <2>1. EndOf(m, prev) = seg
    BY <1>6 DEF Touches
  <2>2. after = IF EndOf(m1, prev) = node THEN h2 ELSE h1
    BY <1>6 DEF Release, WithMemory
  <2>3. /\ HeapShape(h1, rest)
        /\ FreeSegments(h1, rest) = free
        /\ EndOf(h1.memory, prev) = EndOf(m, seg)
        /\ h1.memory[prev].nextHeader = node
        /\ \A a \in D \ {seg, prev} :
             h1.memory[a] = m[a] /\ EndOf(h1.memory, a) = EndOf(m, a)
    BY <1>2, <2>1, MergePreviousShape
  <2>4. m1 \in [DOMAIN m1 -> Headers]
    <3>1. m \in [D -> Headers] /\ prev \in D /\ prev # seg
      BY <1>1, <1>2, <1>3 DEF HeapRecord
    <3>2. PreviousJoined(m, prev, seg, m1)
      BY <1>1, <3>1, MergePreviousHeaders
    <3> HIDE DEF m1
    <3> QED BY <3>2 DEF PreviousJoined
  <2> HIDE DEF m1
  <2>5. /\ HeapRecord(h1) /\ h1.memory = m1 /\ h1.end = h.end /\ h1.size = h.size
        /\ h1.mappedPages = h.mappedPages
    BY <1>3, <2>4, NewMemory
  <2>6. WithMemory(h1, m2) = h2
    BY <1>3, NewMemoryTwice
  <2> HIDE DEF h1
  <2>7. \A s, t \in free : EndOf(m1, s) = t => s = prev /\ t = node
    <3> SUFFICES ASSUME NEW s \in free, NEW t \in free, EndOf(m1, s) = t
                 PROVE  s = prev /\ t = node
      OBVIOUS
    <3>1. s \in D /\ s # seg
      BY <1>1
    <3>2. s = prev
      BY <2>3, <2>5, <3>1 DEF HeapSound, Merged
    <3> QED BY <1>4, <2>3, <2>5, <3>2
  <2>8. \A b \in rest : h1.memory[b] = m[b]
    BY <1>1, <1>2, <2>3
  <2>9. CASE EndOf(m1, prev) = node
    <3>1. /\ HeapSound(h2, rest)
          /\ \A b \in rest : h2.memory[b] = h1.memory[b]
      <4>1. prev \in FreeSegments(h1, rest) /\ node \in FreeSegments(h1, rest)
        BY <1>2, <2>3
      <4>2. EndOf(h1.memory, prev) = node /\ h1.memory[prev].nextHeader = node
        BY <2>3, <2>5, <2>9
      <4>3. \A s, t \in FreeSegments(h1, rest) : EndOf(h1.memory, s) = t => s = prev
        BY <2>3, <2>5, <2>7
      <4>4. HeapShape(h1, rest) /\ h2 = WithMemory(h1, MergeWithNext(h1.memory, prev, node))
        BY <2>3, <2>5, <2>6
      <4> HIDE DEF rest, prev, node, h2
      <4> QED BY <4>1, <4>2, <4>3, <4>4, MergeNextSound
    <3>2. h2.end = h.end /\ h2.size = h.size /\ h2.mappedPages = h.mappedPages
      BY <1>3 DEF HeapRecord, WithMemory
    <3>3. after = h2
      BY <2>2, <2>9
    <3> HIDE DEF after, rest, h2
    <3>4. Kept(h, rest, after) /\ HeapSound(after, rest)
      BY <1>5, <2>8, <3>1, <3>2, <3>3
    <3> QED BY <3>4 DEF after, rest
  <2>10. CASE EndOf(m1, prev) # node
    <3>1. Merged(h1, free)
      BY <2>5, <2>7, <2>10 DEF Merged
    <3>2. HeapSound(h1, rest)
      BY <2>3, <3>1 DEF HeapSound
    <3>3. after = h1
      BY <2>2, <2>10
    <3> HIDE DEF after, rest
    <3>4. Kept(h, rest, after) /\ HeapSound(after, rest)
      BY <1>5, <2>5, <2>8, <3>2, <3>3
    <3> QED BY <3>4 DEF after, rest
  <2> QED BY <2>9, <2>10
<1>7. CASE ~Touches(h, seg) /\ EndOf(m, seg) = node
  <2>1. Unlinks(h, seg)
    BY <1>7 DEF Unlinks
  <2>2. after = WithMemory(h, MergeWithNext(m, seg, node))
    BY <1>7 DEF Release, WithMemory
  <2> QED BY <1>7, <2>1, <2>2, UnlinkingKeeps
<1>8. CASE ~Touches(h, seg) /\ EndOf(m, seg) # node
  <2> DEFINE m1 == Insert(m, prev, seg, node)
             h1 == WithMemory(h, m1)
  <2>1. after = h1
    BY <1>8 DEF Release, WithMemory
  <2>2. EndOf(m, prev) # seg
    BY <1>8 DEF Touches
  <2>3. HeapSound(h1, rest) /\ \A b \in rest : h1.memory[b] = m[b]
    <3>1. Between(h, blocks, prev, seg, node)
      BY <1>2 DEF Between
    <3>2. EndOf(h.memory, prev) # seg /\ EndOf(h.memory, seg) # node
      BY <1>8, <2>2
    <3>3. h1 = WithMemory(h, Insert(h.memory, prev, seg, node))
      OBVIOUS
    <3> HIDE DEF node, prev, h1
    <3>4. HeapSound(h1, rest) /\ HeadersKept(h, rest, h1)
      BY <3>1, <3>2, <3>3, InsertSound
    <3> QED BY <3>4 DEF HeadersKept
  <2>4. h1.end = h.end /\ h1.size = h.size /\ h1.mappedPages = h.mappedPages
    BY <1>3 DEF HeapRecord, WithMemory
  <2> HIDE DEF after, h1, rest
  <2>5. Kept(h, rest, after) /\ HeapSound(after, rest)
    BY <1>5, <2>1, <2>3, <2>4
  <2> QED BY <2>5 DEF after, rest
<1> QED BY <1>6, <1>7, <1>8

-------------------------------------------------------------------------------
(* shrinkHeap.                                                             *)

(* The arithmetic of shrinkHeap: what it takes off is there.               *)
LEMMA ShrinkSizes ==
  ASSUME NEW pages \in Nat, NEW size \in Nat, size >= HEAP_SHRINK * 2 * PageSize
  PROVE  /\ HEAP_SHRINK * PageSize \in Nat \ {0}
         /\ size - HEAP_SHRINK * PageSize \in Nat
         /\ pages * PageSize >= size =>
              /\ pages - HEAP_SHRINK \in Nat
              /\ (pages - HEAP_SHRINK) * PageSize = pages * PageSize - HEAP_SHRINK * PageSize
<1>1. HEAP_SHRINK \in Nat \ {0} /\ PageSize \in Nat \ {0}
  BY HeapAssumption
<1> DEFINE cut == HEAP_SHRINK * PageSize
<1>2. cut \in Nat \ {0}
  BY <1>1
<1>3. HEAP_SHRINK * 2 * PageSize = cut + cut
  BY <1>1
<1>4. size - cut \in Nat
  BY <1>2, <1>3
<1>5. ASSUME pages * PageSize >= size PROVE pages - HEAP_SHRINK \in Nat
  <2> SUFFICES ASSUME pages < HEAP_SHRINK PROVE FALSE
    BY <1>1
  <2>1. pages * PageSize \in Nat /\ pages * PageSize <= cut
    <3>1. HEAP_SHRINK - pages \in Nat /\ (HEAP_SHRINK - pages) * PageSize \in Nat
      BY <1>1
    <3>2. (HEAP_SHRINK - pages) * PageSize = cut - pages * PageSize
      BY <1>1
    <3>3. pages * PageSize \in Nat
      BY <1>1
    <3> QED BY <1>2, <3>1, <3>2, <3>3
  <2> HIDE DEF cut
  <2> QED BY <1>2, <1>3, <1>5, <2>1
<1>6. (pages - HEAP_SHRINK) * PageSize = pages * PageSize - cut
  BY <1>1
<1> QED BY <1>2, <1>4, <1>5, <1>6

(* A smaller tail, a smaller heap.                                         *)
Shrunk(h, after) ==
  LET cut == HEAP_SHRINK * PageSize
  IN  /\ HeapRecord(after) /\ SizesAgree(after)
      /\ DOMAIN after.memory = DOMAIN h.memory
      /\ after.end = h.end - cut /\ cut \in Nat \ {0}
      /\ after.startSec = h.startSec /\ after.head = h.head
      /\ after.memory[Tail(h)].size = h.memory[Tail(h)].size - cut
      /\ \A a \in DOMAIN h.memory :
           /\ after.memory[a].magic = h.memory[a].magic
           /\ after.memory[a].nextHeader = h.memory[a].nextHeader
           /\ after.memory[a].previousHeader = h.memory[a].previousHeader
           /\ a # Tail(h) => after.memory[a] = h.memory[a]

(* shrinkHeap, member by member.                                           *)
LEMMA ShrinkMembers ==
  ASSUME NEW h, HeapRecord(h), SizesAgree(h), Shrinks(h), TailFits(h)
  PROVE  Shrunk(h, shrinkHeap(h))
<1> DEFINE m == h.memory
           D == DOMAIN m
           tail == Tail(h)
           cut == HEAP_SHRINK * PageSize
           left == m[tail].size - cut
           m1 == [m EXCEPT ![tail].size = left]
           after == shrinkHeap(h)
<1>1. /\ m \in [D -> Headers] /\ tail \in D /\ m[tail] \in Headers
      /\ m[tail].size \in Nat /\ h.end \in Nat /\ h.size \in Nat /\ h.mappedPages \in Nat
      /\ h.startSec \in Nat /\ h.head \in Nat
      /\ h = [memory |-> m, end |-> h.end, size |-> h.size,
              mappedPages |-> h.mappedPages, startSec |-> h.startSec, head |-> h.head]
  BY DEF HeapRecord, Headers, TailFits
<1>2. HeaderSize \in Nat /\ Begin \in Nat
  BY HeapAssumption
<1>3. m[tail].size >= HEAP_SHRINK * 2 * PageSize
  BY DEF Shrinks, Tail
<1>4. h.size = h.end - Begin /\ h.size = h.mappedPages * PageSize
  BY DEF SizesAgree
<1>5. tail \in Nat /\ tail >= Begin /\ tail + m[tail].size + HeaderSize <= h.end
  BY DEF EndOf, TailFits
<1>6. h.size >= m[tail].size
  BY <1>1, <1>2, <1>4, <1>5
<1>7. /\ cut \in Nat \ {0} /\ left \in Nat
      /\ h.mappedPages - HEAP_SHRINK \in Nat
      /\ (h.mappedPages - HEAP_SHRINK) * PageSize = h.mappedPages * PageSize - cut
  BY <1>1, <1>3, <1>4, <1>6, ShrinkSizes
<1>8. h.size - cut \in Nat /\ h.end - cut \in Nat /\ h.size - cut = h.end - cut - Begin
  BY <1>1, <1>2, <1>4, <1>5, <1>6, <1>7
<1>9. after = [memory |-> m1, end |-> h.end - cut, size |-> h.size - cut,
               mappedPages |-> h.mappedPages - HEAP_SHRINK,
               startSec |-> h.startSec, head |-> h.head]
  <2>1. after = [h EXCEPT !.memory[tail].size = @ - cut, !.size = @ - cut,
                          !.mappedPages = @ - HEAP_SHRINK, !.end = @ - cut]
    BY DEF shrinkHeap, Tail
  <2>2. after = [h EXCEPT !.memory = m1, !.size = @ - cut,
                          !.mappedPages = @ - HEAP_SHRINK, !.end = @ - cut]
    BY <2>1
  <2> HIDE DEF m1, cut, after
  <2> QED BY <1>1, <2>2
<1>10. /\ m1 \in [D -> Headers]
       /\ m1[tail].size = left
       /\ \A a \in D :
            /\ m1[a].magic = m[a].magic
            /\ m1[a].nextHeader = m[a].nextHeader
            /\ m1[a].previousHeader = m[a].previousHeader
            /\ a # tail => m1[a] = m[a]
  <2> HIDE DEF left, tail
  <2>1. m1 \in [D -> Headers]
    BY <1>1, <1>7, Assignments
  <2> QED BY <1>1, <1>7, <2>1 DEF Headers
<1>11. DOMAIN m1 = D
  BY <1>10
<1> HIDE DEF m1, after
<1>12. /\ after.memory = m1 /\ after.end = h.end - cut /\ after.size = h.size - cut
       /\ after.mappedPages = h.mappedPages - HEAP_SHRINK
       /\ after.startSec = h.startSec /\ after.head = h.head
  BY <1>9
<1>13. HeapRecord(after)
  BY <1>1, <1>7, <1>8, <1>9, <1>10, <1>11, <1>12 DEF HeapRecord
<1>14. SizesAgree(after)
  BY <1>4, <1>7, <1>8, <1>12 DEF SizesAgree
<1>15. Shrunk(h, after)
  BY <1>7, <1>10, <1>11, <1>12, <1>13, <1>14 DEF Shrunk
<1> QED BY <1>15 DEF after

(* Whether or not the heap shrinks, it stays a heap.                       *)
LEMMA ShrinkKeeps ==
  ASSUME NEW h, HeapRecord(h), SizesAgree(h), TailFits(h)
  PROVE  /\ HeapRecord(shrinkHeap(h)) /\ SizesAgree(shrinkHeap(h))
         /\ DOMAIN shrinkHeap(h).memory = DOMAIN h.memory
<1>1. CASE Shrinks(h)
  BY <1>1, ShrinkMembers DEF Shrunk
<1>2. CASE ~Shrinks(h)
  BY <1>2 DEF shrinkHeap
<1> QED BY <1>1, <1>2

(* If no block is left behind the new end, the tail was the last segment,  *)
(* and the heap is sound.                                                  *)
LEMMA ShrinkSound ==
  ASSUME NEW h, NEW blocks, HeapSound(h, blocks), SizesAgree(h),
         NEW after, after = shrinkHeap(h),
         \A b \in blocks : ~(EndOf(after.memory, b) > after.end)
  PROVE  HeapSound(after, blocks) /\ HeadersKept(h, blocks, after)
<1> DEFINE m == h.memory
           D == DOMAIN m
           free == FreeSegments(h, blocks)
           tail == Tail(h)
           cut == HEAP_SHRINK * PageSize
           m1 == after.memory
<1>1. CASE ~Shrinks(h)
  BY <1>1 DEF shrinkHeap, HeadersKept
<1>2. ASSUME Shrinks(h)
      PROVE  HeapSound(after, blocks) /\ HeadersKept(h, blocks, after)
  <2>1. Shrunk(h, after)
    BY <1>2, SoundTailFits, ShrinkMembers DEF HeapSound, HeapShape
  <2>2. /\ HeapRecord(after) /\ DOMAIN m1 = D
        /\ after.end = h.end - cut /\ cut \in Nat \ {0}
        /\ after.startSec = h.startSec /\ after.head = h.head
        /\ m1[tail].size = m[tail].size - cut
        /\ \A a \in D :
             /\ m1[a].magic = m[a].magic
             /\ m1[a].nextHeader = m[a].nextHeader
             /\ m1[a].previousHeader = m[a].previousHeader
             /\ a # tail => m1[a] = m[a]
    BY <2>1 DEF Shrunk
  <2> HIDE DEF cut
  <2>3. /\ \A s \in D : /\ s \in Nat /\ s >= Begin /\ s < h.end
                        /\ m[s].size \in Nat /\ m[s].magic = TRUE
                        /\ EndOf(m, s) \in Nat /\ EndOf(m, s) > s
        /\ free = D \ blocks /\ blocks \subseteq D
        /\ HeaderSize \in Nat \ {0} /\ h.end \in Nat /\ Begin \in Nat
    BY SegmentsType, HeapAssumption DEF HeapSound, HeapShape, FreeSegments
  <2>4. tail \in free /\ \A f \in free : f <= tail
    BY TailIsLast
  <2>5. /\ \A s \in D : EndOf(m, s) \in D \union {h.end} /\ EndOf(m, s) <= h.end
        /\ \A s, t \in D : s < t => EndOf(m, s) <= t
    BY DEF HeapSound, HeapShape, Tiled
  <2>6. /\ EndOf(m1, tail) = EndOf(m, tail) - cut
        /\ \A a \in D : a # tail => EndOf(m1, a) = EndOf(m, a)
    BY <2>2, <2>3, <2>4 DEF EndOf
  <2>7. \A s \in D : s <= tail
    <3>1. D \in SUBSET Nat /\ D # {} /\ \A s \in D : s <= h.end
      BY <2>3, <2>4
    <3>2. PICK last \in D : \A s \in D : s <= last
      BY <2>3, <3>1, LargestExists
    <3>3. EndOf(m, last) = h.end
      BY <2>3, <2>5, <3>2
    <3>4. last \notin blocks
      <4> SUFFICES ASSUME last \in blocks PROVE FALSE
        OBVIOUS
      <4>1. last # tail
        BY <2>3, <2>4
      <4>2. EndOf(m1, last) = h.end
        BY <2>6, <3>2, <3>3, <4>1
      <4> QED BY <2>2, <2>3, <4>2
    <3>5. last = tail
      BY <2>3, <2>4, <3>2, <3>4
    <3> QED BY <3>2, <3>5
  <2>8. EndOf(m, tail) = h.end
    BY <2>3, <2>4, <2>5, <2>7
  <2>9. EndOf(m1, tail) = after.end /\ tail \in D
    BY <2>2, <2>3, <2>4, <2>6, <2>8
  <2>10. after.end \in Nat /\ tail <= after.end
    <3>1. m1[tail].size \in Nat /\ after.end \in Nat
      BY <2>2, <2>9 DEF HeapRecord, Headers
    <3> QED BY <2>3, <2>9, <3>1 DEF EndOf
  <2>11. \A s \in D : s # tail => s < tail /\ EndOf(m1, s) = EndOf(m, s)
                                 /\ EndOf(m, s) <= tail /\ EndOf(m, s) \in D
    <3> SUFFICES ASSUME NEW s \in D, s # tail
                 PROVE  s < tail /\ EndOf(m1, s) = EndOf(m, s)
                        /\ EndOf(m, s) <= tail /\ EndOf(m, s) \in D
      OBVIOUS
    <3>1. s < tail
      BY <2>3, <2>7, <2>9
    <3>2. EndOf(m, s) <= tail
      BY <2>5, <2>9, <3>1
    <3>3. EndOf(m, s) # h.end
      BY <2>3, <2>9, <3>2
    <3> QED BY <2>5, <2>6, <3>1, <3>2, <3>3
  <2>12. FreeSegments(after, blocks) = free
    BY <2>2 DEF FreeSegments
  <2>13. Linked(after, free)
    BY <2>2, <2>3 DEF HeapSound, HeapShape, Linked
  <2>14. Tiled(after)
    <3>1. ASSUME NEW s \in D
          PROVE  /\ s \in Nat /\ s >= Begin /\ m1[s].magic
                 /\ EndOf(m1, s) \in D \union {after.end} /\ EndOf(m1, s) <= after.end
      <4>1. m1[s].magic = TRUE
        BY <2>2, <2>3
      <4>2. CASE s = tail
        BY <2>3, <2>9, <2>10, <4>1, <4>2
      <4>3. CASE s # tail
        BY <2>3, <2>9, <2>10, <2>11, <4>1, <4>3
      <4> QED BY <4>2, <4>3
    <3>2. ASSUME NEW s \in D, NEW t \in D, s < t PROVE EndOf(m1, s) <= t
      <4>1. s # tail
        BY <2>3, <2>7, <3>2
      <4> QED BY <2>5, <2>11, <3>2, <4>1
    <3> QED BY <2>2, <3>1, <3>2 DEF Tiled
  <2>15. Merged(after, free)
    <3> SUFFICES ASSUME NEW s \in free, NEW t \in free, EndOf(m1, s) = t PROVE FALSE
      BY DEF Merged
    <3>1. CASE s = tail
      <4>1. EndOf(m1, tail) > tail
        <5>1. m1[tail].size \in Nat
          BY <2>2, <2>9 DEF HeapRecord, Headers
        <5> QED BY <2>3, <2>9, <5>1 DEF EndOf
      <4> QED BY <2>3, <2>4, <3>1, <4>1
    <3>2. CASE s # tail
      BY <2>3, <2>11, <3>2 DEF HeapSound, Merged
    <3> QED BY <3>1, <3>2
  <2>16. HeadersKept(h, blocks, after)
    BY <2>2, <2>3, <2>4 DEF HeadersKept
  <2>17. IsFiniteSet(D) /\ h.startSec # Null /\ h.startSec \notin blocks
    BY DEF HeapSound, HeapShape
  <2> QED BY <2>2, <2>3, <2>12, <2>13, <2>14, <2>15, <2>16, <2>17 DEF HeapSound, HeapShape
<1> QED BY <1>1, <1>2

-------------------------------------------------------------------------------
(* The initial heap.                                                       *)

(* initHeap makes one free segment of the first pages.                     *)
LEMMA InitSound ==
  /\ HeapSound(initHeap, {}) /\ SizesAgree(initHeap)
<1> DEFINE D == {Begin}
           bytes == INIT_HEAP_SIZE * PageSize
           header == Header(bytes - HeaderSize, Begin, Begin)
           m == Put(<< >>, Begin, header)
           h == initHeap
<1>1. /\ HeaderSize \in Nat \ {0} /\ PageSize \in Nat /\ PageSize > HeaderSize
      /\ Begin \in Nat \ {0} /\ INIT_HEAP_SIZE \in Nat \ {0}
  BY HeapAssumption
<1>2. bytes \in Nat /\ bytes - HeaderSize \in Nat
  <2>1. INIT_HEAP_SIZE - 1 \in Nat
    BY <1>1
  <2>2. (INIT_HEAP_SIZE - 1) * PageSize \in Nat
    BY <1>1, <2>1
  <2>3. bytes = (INIT_HEAP_SIZE - 1) * PageSize + PageSize
    BY <1>1
  <2> QED BY <1>1, <2>2, <2>3
<1>3. h = [memory |-> m, end |-> Begin + bytes, size |-> bytes,
           mappedPages |-> INIT_HEAP_SIZE, startSec |-> Begin, head |-> Begin]
  BY DEF initHeap
<1>4. SizesAgree(h)
  <2> HIDE DEF m, h
  <2> QED BY <1>1, <1>2, <1>3 DEF SizesAgree
<1> HIDE DEF bytes
<1>5. header \in Headers /\ header.magic = TRUE /\ header.size = bytes - HeaderSize
      /\ header.nextHeader = Begin /\ header.previousHeader = Begin
  BY <1>1, <1>2 DEF Header, Headers
<1> HIDE DEF header
<1>6. m = [a \in D |-> header]
  <2>1. DOMAIN << >> = {}
    OBVIOUS
  <2>2. m = [a \in DOMAIN << >> \union {Begin} |-> IF a = Begin THEN header ELSE << >>[a]]
    BY DEF Put
  <2>3. DOMAIN << >> \union {Begin} = D
    BY <2>1
  <2> QED BY <2>2, <2>3
<1>7. m \in [D -> Headers] /\ DOMAIN m = D /\ m[Begin] = header
  BY <1>5, <1>6
<1> HIDE DEF m
<1> HIDE DEF h
<1>8. /\ h.memory = m /\ h.end = Begin + bytes /\ h.size = bytes
      /\ h.mappedPages = INIT_HEAP_SIZE /\ h.startSec = Begin /\ h.head = Begin
  BY <1>3
<1>9. HeapRecord(h)
  BY <1>1, <1>2, <1>3, <1>7, <1>8 DEF HeapRecord
<1>10. FreeSegments(h, {}) = D
  BY <1>7, <1>8 DEF FreeSegments
<1>11. Linked(h, D)
  BY <1>1, <1>5, <1>7, <1>8 DEF Linked
<1>12. EndOf(m, Begin) = h.end /\ EndOf(m, Begin) # Begin
  BY <1>1, <1>2, <1>5, <1>7, <1>8 DEF EndOf
<1>13. Tiled(h)
  <2>1. /\ Begin \in Nat /\ Begin >= Begin /\ m[Begin].magic
        /\ EndOf(m, Begin) \in D \union {h.end} /\ EndOf(m, Begin) <= h.end
    BY <1>1, <1>2, <1>5, <1>7, <1>8, <1>12
  <2>2. ~(Begin < Begin)
    BY <1>1
  <2> QED BY <1>7, <1>8, <2>1, <2>2 DEF Tiled
<1>14. Merged(h, D)
  BY <1>8, <1>12 DEF Merged
<1>15. IsFiniteSet(D)
  BY FS_Singleton
<1> QED BY <1>1, <1>4, <1>7, <1>8, <1>9, <1>10, <1>11, <1>13, <1>14, <1>15
        DEF h, HeapSound, HeapShape, Null

-------------------------------------------------------------------------------
(* The invariant.                                                          *)

(* A record of the heap has the types of TypeOK.                           *)
LEMMA HeapType ==
  ASSUME NEW h, HeapRecord(h)
  PROVE  /\ \A a \in DOMAIN h.memory : h.memory[a] \in
              [magic : BOOLEAN, size : Nat, nextHeader : Nat, previousHeader : Nat]
         /\ {h.end, h.size, h.mappedPages, h.startSec, h.head} \subseteq Nat
<1>1. \A a \in DOMAIN h.memory : h.memory[a] \in Headers
  BY DEF HeapRecord
<1> QED BY <1>1 DEF HeapRecord, Headers

(* The invariant holds at first.                                           *)
LEMMA InitInv == Init => Inv
<1> SUFFICES ASSUME Init PROVE Inv
  OBVIOUS
<1>1. heap = initHeap /\ live = {} /\ status = "running" /\ frames = Frames
  BY DEF Init
<1>2. HeapSound(heap, live) /\ SizesAgree(heap) /\ HeapRecord(heap)
  BY <1>1, InitSound DEF HeapSound, HeapShape
<1>3. frames \in 0 .. Frames /\ freeRam \in Nat /\ frames <= freeRam
  BY <1>1, HeapAssumption DEF Init
<1>4. status \in Statuses /\ live \subseteq DOMAIN heap.memory
  BY <1>1 DEF Statuses
<1> QED BY <1>2, <1>3, <1>4, HeapType DEF Inv, TypeOK

(* What new leaves of the frames.                                          *)
LEMMA FramesLeft ==
  ASSUME Inv, NEW sz, PagesTaken(sz) \in Nat, TakePages(sz)
  PROVE  frames' \in 0 .. Frames /\ freeRam' \in Nat /\ frames' <= freeRam'
BY HeapAssumption DEF Inv, TypeOK, TakePages

(* new that splits a segment: one more block, the others unmoved.          *)
LEMMA NewStep ==
  ASSUME Inv, NEW sz \in Sizes, New(sz)
  PROVE  /\ Inv' /\ HeapSound(heap', live')
         /\ \E block : /\ block \notin live /\ live' = live \union {block}
                       /\ \A b \in live : heap'.memory[b] = heap.memory[b]
<1> DEFINE grown == Grown(sz)
           seg == Found(sz)
           block == SplitOff(grown, seg, sz)
<1>1. HeapSound(heap, live) /\ SizesAgree(heap) /\ sz \in Nat \ {0} /\ status = "running"
  BY HeapAssumption DEF Inv, New, Running
<1>2. /\ HeapSound(grown, live) /\ SizesAgree(grown)
      /\ \A b \in live : grown.memory[b] = heap.memory[b]
      /\ PagesTaken(sz) \in Nat
      /\ seg # -1 => seg \in FreeSegments(grown, live) /\ grown.memory[seg].size >= sz
  BY <1>1, Growing
<1>3. seg \in FreeSegments(grown, live) /\ grown.memory[seg].size >= sz
  <2>1. seg # -1
    BY DEF New, Null
  <2> QED BY <1>2, <2>1
<1>4. /\ TakePages(sz) /\ ~WholeSegment(grown, seg, sz)
      /\ heap' = Split(grown, seg, sz) /\ live' = live \union {block}
      /\ status' = status
  BY DEF New
<1> HIDE DEF grown, seg, block
<1>5. /\ HeapSound(heap', live') /\ block \notin DOMAIN grown.memory
      /\ \A b \in live : heap'.memory[b] = grown.memory[b]
      /\ <<heap'.end, heap'.size, heap'.mappedPages>>
           = <<grown.end, grown.size, grown.mappedPages>>
  <2>1. LET after == Split(grown, seg, sz)
        IN  /\ HeapSound(after, live \union {block})
            /\ block \notin DOMAIN grown.memory
            /\ \A b \in live : after.memory[b] = grown.memory[b]
            /\ <<after.end, after.size, after.mappedPages>>
                 = <<grown.end, grown.size, grown.mappedPages>>
    BY <1>1, <1>2, <1>3, <1>4, SplitSound DEF block
  <2> QED BY <1>4, <2>1
<1>6. SizesAgree(heap')
  BY <1>2, <1>5 DEF SizesAgree
<1>7. frames' \in 0 .. Frames /\ freeRam' \in Nat /\ frames' <= freeRam'
  BY <1>2, <1>4, FramesLeft
<1>8. HeapRecord(heap') /\ live' \subseteq DOMAIN heap'.memory
  BY <1>5 DEF HeapSound, HeapShape
<1>9. status' \in Statuses
  BY <1>1, <1>4 DEF Statuses
<1>10. TypeOK'
  BY <1>7, <1>8, <1>9, HeapType DEF TypeOK
<1>11. Inv'
  BY <1>5, <1>6, <1>7, <1>8, <1>10 DEF Inv, HeapSound, HeapShape, HeapRecord, SizesAgree
<1>12. block \notin live
  BY <1>2, <1>5 DEF HeapSound, HeapShape
<1> QED BY <1>2, <1>4, <1>5, <1>11, <1>12

(* new that hands out a whole segment returns a pointer behind it.         *)
LEMMA NewWholeSegmentStep ==
  ASSUME Inv, NEW sz \in Sizes, NewWholeSegment(sz)
  PROVE  Inv' /\ status' = "overrun"
<1> DEFINE grown == Grown(sz)
           seg == Found(sz)
<1>1. HeapSound(heap, live) /\ SizesAgree(heap) /\ sz \in Nat \ {0} /\ status = "running"
  BY HeapAssumption DEF Inv, NewWholeSegment, Running
<1>2. /\ HeapSound(grown, live) /\ SizesAgree(grown)
      /\ PagesTaken(sz) \in Nat
      /\ seg # -1 => seg \in FreeSegments(grown, live)
  BY <1>1, Growing
<1>3. seg \in FreeSegments(grown, live)
  <2>1. seg # -1
    BY DEF NewWholeSegment, Null
  <2> QED BY <1>2, <2>1
<1>4. /\ TakePages(sz)
      /\ heap' = Unlink(grown, seg) /\ live' = live \union {seg}
  BY DEF NewWholeSegment
<1>5. status' = "overrun"
  <2>1. seg \in Nat
    BY <1>2, <1>3, SegmentsType DEF FreeSegments
  <2>2. WholeSegmentPointer(seg) # seg + HeaderSize
    <3>1. HeaderSize \in Nat \ {0} /\ HeaderElements \in Nat \ {0, 1}
      BY HeapAssumption
    <3>2. HeaderElements - 1 \in Nat \ {0}
      BY <3>1
    <3>3. HeaderSize * (HeaderElements - 1) # 0
      BY <3>1, <3>2
    <3>4. HeaderSize * HeaderElements = HeaderSize + HeaderSize * (HeaderElements - 1)
          /\ HeaderSize * (HeaderElements - 1) \in Nat /\ HeaderSize * HeaderElements \in Nat
      BY <3>1, <3>2
    <3> HIDE DEF seg
    <3> QED BY <2>1, <3>1, <3>3, <3>4 DEF WholeSegmentPointer
  <2> QED BY <2>2 DEF NewWholeSegment
<1> HIDE DEF grown, seg
<1>6. /\ HeapRecord(heap') /\ DOMAIN heap'.memory = DOMAIN grown.memory
      /\ <<heap'.end, heap'.size, heap'.mappedPages>>
           = <<grown.end, grown.size, grown.mappedPages>>
  <2>1. LET after == Unlink(grown, seg)
        IN  /\ HeapRecord(after)
            /\ DOMAIN after.memory = DOMAIN grown.memory
            /\ <<after.end, after.size, after.mappedPages>>
                 = <<grown.end, grown.size, grown.mappedPages>>
    BY <1>2, <1>3, UnlinkRecord
  <2> QED BY <1>4, <2>1
<1>7. SizesAgree(heap')
  BY <1>2, <1>6 DEF SizesAgree
<1>8. frames' \in 0 .. Frames /\ freeRam' \in Nat /\ frames' <= freeRam'
  BY <1>2, <1>4, FramesLeft
<1>9. live' \subseteq DOMAIN heap'.memory
  BY <1>2, <1>3, <1>4, <1>6 DEF HeapSound, HeapShape, FreeSegments
<1>10. TypeOK'
  BY <1>5, <1>6, <1>8, <1>9, HeapType DEF TypeOK, Statuses
<1> QED BY <1>5, <1>6, <1>7, <1>8, <1>10 DEF Inv, Running, HeapRecord, SizesAgree

(* delete: one block less, the others unmoved.                             *)
LEMMA DeleteStep ==
  ASSUME Inv, NEW seg \in live, Delete(seg)
  PROVE  /\ Inv'
         /\ status' = "running" =>
              /\ HeapSound(heap', live') /\ live' = live \ {seg}
              /\ \A b \in live' : heap'.memory[b] = heap.memory[b]
<1> DEFINE freed == Release(heap, seg)
           rest == live \ {seg}
<1>1. HeapSound(heap, live) /\ SizesAgree(heap) /\ status = "running"
  BY DEF Inv, Delete, Running
<1>2. /\ heap' = shrinkHeap(freed) /\ live' = rest
      /\ status' = IF \E b \in live' : EndOf(heap'.memory, b) > heap'.end THEN "unmapped"
                   ELSE IF Unlinks(heap, seg) THEN "unlinked"
                   ELSE "running"
      /\ frames' = frames /\ freeRam' = freeRam
  BY DEF Delete
<1>3. /\ Kept(heap, rest, freed)
      /\ ~Unlinks(heap, seg) => HeapSound(freed, rest)
  BY <1>1, ReleaseKeeps
<1> HIDE DEF freed, rest
<1>4. /\ HeapRecord(freed) /\ TailFits(freed) /\ SizesAgree(freed)
      /\ rest \subseteq DOMAIN freed.memory
      /\ \A b \in rest : freed.memory[b] = heap.memory[b]
  BY <1>1, <1>3 DEF Kept, SizesAgree
<1>5. HeapRecord(heap') /\ SizesAgree(heap') /\ live' \subseteq DOMAIN heap'.memory
  BY <1>2, <1>4, ShrinkKeeps
<1>6. ASSUME status' = "running"
      PROVE  /\ HeapSound(heap', live')
             /\ \A b \in live' : heap'.memory[b] = heap.memory[b]
  <2>1. ~Unlinks(heap, seg) /\ \A b \in rest : ~(EndOf(heap'.memory, b) > heap'.end)
    BY <1>2, <1>6
  <2>2. HeapSound(heap', rest) /\ HeadersKept(freed, rest, heap')
    BY <1>2, <1>3, <1>4, <2>1, ShrinkSound
  <2> QED BY <1>2, <1>4, <2>2 DEF HeadersKept
<1>7. TypeOK'
  <2>1. status' \in Statuses
    BY <1>2 DEF Statuses
  <2>2. frames' \in 0 .. Frames /\ freeRam' \in Nat
    BY <1>2 DEF Inv, TypeOK
  <2> QED BY <1>5, <2>1, <2>2, HeapType DEF TypeOK
<1>8. Inv'
  BY <1>2, <1>5, <1>6, <1>7 DEF Inv, Running, HeapRecord, SizesAgree, HeapSound, HeapShape
<1> QED BY <1>2, <1>6, <1>8 DEF rest

(* The failures of new change nothing.                                     *)
LEMMA FailStep ==
  ASSUME Inv, NEW sz \in Sizes, NewFindsCorruption(sz) \/ NewWithoutFrames(sz)
  PROVE  Inv' /\ status' # "running"
<1>1. /\ heap' = heap /\ frames' = frames /\ freeRam' = freeRam /\ live' = live
      /\ status' \in Statuses /\ status' # "running"
  BY DEF NewFindsCorruption, NewWithoutFrames, Statuses
<1> QED BY <1>1 DEF Inv, TypeOK, HeapRecord, SizesAgree, Running

(* Every step keeps the invariant.                                         *)
LEMMA NextInv == Inv /\ [Next]_vars => Inv'
<1> SUFFICES ASSUME Inv, [Next]_vars PROVE Inv'
  OBVIOUS
<1>1. ASSUME NEW sz \in Sizes, New(sz) PROVE Inv'
  BY <1>1, NewStep
<1>2. ASSUME NEW sz \in Sizes, NewWholeSegment(sz) PROVE Inv'
  BY <1>2, NewWholeSegmentStep
<1>3. ASSUME NEW sz \in Sizes, NewFindsCorruption(sz) \/ NewWithoutFrames(sz) PROVE Inv'
  BY <1>3, FailStep
<1>4. ASSUME NEW seg \in live, Delete(seg) PROVE Inv'
  BY <1>4, DeleteStep
<1>5. CASE UNCHANGED vars
  BY <1>5 DEF vars, Inv, TypeOK, HeapRecord, SizesAgree, Running, HeapSound, HeapShape,
              FreeSegments, Linked, Tiled, Merged
<1> QED BY <1>1, <1>2, <1>3, <1>4, <1>5 DEF Next

(* Whatever the heap has been through, its records agree, and while it     *)
(* runs its segments and its free list are sound (Heap.cpp:6-182).         *)
THEOREM Invariance == Spec => []Inv
<1>1. Init => Inv
  BY InitInv
<1>2. Inv /\ [Next]_vars => Inv'
  BY NextInv
<1> QED BY <1>1, <1>2, PTL DEF Spec

-------------------------------------------------------------------------------
(* What the invariant says in the terms of the specification.              *)

(* Without gap and overlap: the ends are the begins of the next ones.      *)
LEMMA SegmentsCover ==
  ASSUME NEW h, NEW blocks, HeapSound(h, blocks)
  PROVE  /\ DOMAIN h.memory \union {h.end}
              = {Begin} \union {EndOf(h.memory, s) : s \in DOMAIN h.memory}
         /\ \A s, t \in DOMAIN h.memory : EndOf(h.memory, s) = EndOf(h.memory, t) => s = t
<1> DEFINE m == h.memory
           D == DOMAIN m
           Ends == {EndOf(m, s) : s \in D}
<1>1. /\ \A s \in D : /\ s \in Nat /\ s >= Begin /\ s < h.end
                      /\ EndOf(m, s) \in Nat /\ EndOf(m, s) > s
      /\ h.end \in Nat /\ Begin \in Nat
  BY SegmentsType, HeapAssumption
<1>2. /\ \A s \in D : EndOf(m, s) \in D \union {h.end} /\ EndOf(m, s) <= h.end
      /\ \A s, t \in D : s < t => EndOf(m, s) <= t
  BY DEF HeapSound, HeapShape, Tiled
<1>3. Begin \in D
  BY DEF HeapSound, HeapShape, Linked, FreeSegments
<1>4. ASSUME NEW t, t \in D \union {h.end}, t # Begin PROVE t \in Ends
  <2> DEFINE S == {s \in D : s < t}
  <2>1. t \in Nat /\ Begin < t /\ t <= h.end
    BY <1>1, <1>3, <1>4
  <2>2. S \in SUBSET Nat /\ S # {} /\ \A s \in S : s <= t
    BY <1>1, <1>3, <2>1
  <2>3. PICK s \in S : \A r \in S : r <= s
    <3> HIDE DEF S
    <3> QED BY <2>1, <2>2, LargestExists
  <2>4. EndOf(m, s) <= t
    BY <1>2, <1>4, <2>1
  <2>5. ASSUME EndOf(m, s) # t PROVE FALSE
    <3>1. EndOf(m, s) < t
      BY <1>1, <2>1, <2>4, <2>5
    <3>2. EndOf(m, s) \in D
      BY <1>1, <1>2, <2>1, <3>1
    <3>3. EndOf(m, s) <= s
      BY <2>3, <3>1, <3>2
    <3> QED BY <1>1, <3>3
  <2> QED BY <2>5
<1>5. \A e \in Ends : e \in D \union {h.end}
  BY <1>2
<1>6. \A s, t \in D : s < t => EndOf(m, s) # EndOf(m, t)
  BY <1>1, <1>2
<1>7. D \union {h.end} = {Begin} \union Ends
  <2> HIDE DEF Ends
  <2> QED BY <1>3, <1>4, <1>5
<1> QED BY <1>1, <1>6, <1>7

(* What is not live is in the free list.                                   *)
LEMMA SoundFreeList ==
  ASSUME NEW h, NEW blocks, HeapSound(h, blocks)
  PROVE  /\ FreeList(h) = FreeSegments(h, blocks)
         /\ FreeList(h) \union blocks = DOMAIN h.memory
         /\ FreeList(h) \intersect blocks = {}
<1>1. FreeList(h) = FreeSegments(h, blocks)
  BY FreeListIsFree
<1>2. blocks \subseteq DOMAIN h.memory
  BY DEF HeapSound, HeapShape
<1> QED BY <1>1, <1>2 DEF FreeSegments

(* HeapWellFormed follows from the invariant.                              *)
LEMMA InvWellFormed == Inv => HeapWellFormed
<1> SUFFICES ASSUME Inv PROVE HeapWellFormed
  OBVIOUS
<1>1. TypeOK /\ SizeMatchesMapping
  BY DEF Inv, SizesAgree, SizeMatchesMapping
<1>2. ASSUME Running
      PROVE  /\ Segments \union {heap.end}
                  = {Begin} \union {EndOf(heap.memory, s) : s \in Segments}
             /\ \A s, t \in Segments :
                  EndOf(heap.memory, s) = EndOf(heap.memory, t) => s = t
             /\ FreeList(heap) \intersect live = {}
             /\ \A b \in live : At(heap.memory, b).magic
  <2>1. HeapSound(heap, live)
    BY <1>2 DEF Inv
  <2>2. Segments = DOMAIN heap.memory /\ FreeList(heap) \intersect live = {}
    BY <2>1, SoundFreeList DEF Segments
  <2>3. \A b \in live : At(heap.memory, b).magic
    <3>1. \A b \in live : b \in DOMAIN heap.memory
      BY <2>1 DEF HeapSound, HeapShape
    <3>2. \A b \in live : At(heap.memory, b) = heap.memory[b] /\ heap.memory[b].magic = TRUE
      BY <2>1, <3>1, SegmentsType
    <3>3. \A b \in live : At(heap.memory, b).magic = TRUE
      BY <3>2
    <3> QED BY <3>3
  <2> QED BY <2>1, <2>2, <2>3, SegmentsCover
<1> QED BY <1>1, <1>2 DEF HeapWellFormed, SegmentsTileHeap

(* So does FreeListIsSound.                                                *)
LEMMA InvFreeListSound == Inv => FreeListIsSound
<1> SUFFICES ASSUME Inv, Running
             PROVE  FreeListIsSound
  BY DEF FreeListIsSound, FreeListSorted, FreeSegmentsMerged, StartSecNotLive
<1> DEFINE m == heap.memory
           free == FreeSegments(heap, live)
<1>1. HeapSound(heap, live)
  BY DEF Inv
<1>2. FreeList(heap) = free
  BY <1>1, SoundFreeList
<1>3. /\ \A s \in free : s \in Nat /\ m[s].magic = TRUE
      /\ Begin \in Nat
  BY <1>1, SegmentsType, HeapAssumption DEF FreeSegments
<1>4. heap.head = Begin
  BY <1>1 DEF HeapSound, HeapShape, Linked
<1>5. ASSUME NEW s \in free
      PROVE  LET next == m[s].nextHeader
                 behind == {t \in free : t > s}
             IN  /\ m[s].magic
                 /\ m[next].previousHeader = s
                 /\ IF behind = {} THEN next = heap.head
                    ELSE next \in behind /\ \A t \in behind : next <= t
  <2> DEFINE next == m[s].nextHeader
             behind == {t \in free : t > s}
  <2>1. /\ m[s].magic = TRUE
        /\ next \in free /\ m[next].previousHeader = s
        /\ \/ next > s /\ \A g \in free : g > s => g >= next
           \/ next = Begin /\ \A g \in free : g <= s
    BY <1>1, <1>3 DEF HeapSound, HeapShape, Linked
  <2>2. CASE next > s /\ \A g \in free : g > s => g >= next
    <3>1. next \in behind /\ \A t \in behind : next <= t
      BY <1>3, <2>1, <2>2
    <3> QED BY <2>1, <3>1
  <2>3. CASE next = Begin /\ \A g \in free : g <= s
    <3>1. behind = {}
      BY <1>3, <2>3
    <3> QED BY <1>4, <2>1, <2>3, <3>1
  <2> QED BY <2>1, <2>2, <2>3
<1>6. FreeListSorted
  BY <1>2, <1>4, <1>5 DEF FreeListSorted
<1>7. FreeSegmentsMerged
  BY <1>1, <1>2 DEF FreeSegmentsMerged, HeapSound, Merged
<1>8. StartSecNotLive
  <2>1. heap.startSec \notin live
    BY <1>1 DEF HeapSound, HeapShape
  <2> QED BY <1>2, <2>1 DEF StartSecNotLive, FreeSegments, At
<1> QED BY <1>6, <1>7, <1>8 DEF FreeListIsSound

(* Types of the heap's state, segments that tile the heap, and a heap that *)
(* knows its size, after any sequence of new and delete (Heap.cpp:6-182).  *)
THEOREM WellFormed == Spec => []HeapWellFormed
BY Invariance, InvWellFormed, PTL

(* The free list is one ring through exactly the free segments, in the     *)
(* order of their addresses, without neighbours, and next fit never starts *)
(* from a live block (Heap.cpp:36-60, 127-182).                            *)
THEOREM FreeListSound == Spec => []FreeListIsSound
BY Invariance, InvFreeListSound, PTL

-------------------------------------------------------------------------------
(* The blocks are an arena.                                                *)

Block(h, b) == [address |-> b, size |-> HeaderSize + h.memory[b].size]

LiveBlocks(h, blocks) == {Block(h, b) : b \in blocks}

(* The blocks of a sound heap fit into the arena.                          *)
LEMMA BlocksAreApart ==
  ASSUME HeapSound(heap', live')
  PROVE  Blocks!Fits(LiveBlocks(heap', live'))
<1> DEFINE m == heap'.memory
           D == DOMAIN m
<1>1. /\ \A s \in D : /\ s \in Nat /\ s >= Begin /\ m[s].size \in Nat
                      /\ EndOf(m, s) = s + m[s].size + HeaderSize
      /\ HeaderSize \in Nat /\ Begin \in Nat /\ heap'.end \in Nat /\ live' \subseteq D
  BY SegmentsType, HeapAssumption DEF EndOf, HeapSound, HeapShape
<1>2. /\ \A s \in D : EndOf(m, s) <= heap'.end
      /\ \A s, t \in D : s < t => EndOf(m, s) <= t
  BY DEF HeapSound, HeapShape, Tiled
<1>3. ASSUME NEW b \in live'
      PROVE  Blocks!Bytes(Block(heap', b)) = b .. b + (HeaderSize + m[b].size) - 1
  BY DEF Blocks!Bytes, Block
<1>4. ASSUME NEW b \in live'
      PROVE  b .. b + (HeaderSize + m[b].size) - 1 \subseteq Begin .. heap'.end - 1
  BY <1>1, <1>2
<1>5. ASSUME NEW b \in live', NEW c \in live', b # c
      PROVE  (b .. b + (HeaderSize + m[b].size) - 1)
               \intersect (c .. c + (HeaderSize + m[c].size) - 1) = {}
  <2>1. b \in D /\ c \in D /\ (b < c \/ c < b)
    BY <1>1, <1>5
  <2> QED BY <1>1, <1>2, <2>1
<1>6. \A x \in LiveBlocks(heap', live') : Blocks!Bytes(x) \subseteq Begin .. heap'.end - 1
  BY <1>3, <1>4 DEF LiveBlocks
<1>7. \A x, y \in LiveBlocks(heap', live') :
        x # y => Blocks!Bytes(x) \intersect Blocks!Bytes(y) = {}
  BY <1>3, <1>5 DEF LiveBlocks
<1> QED BY <1>6, <1>7 DEF Blocks!Fits

(* A step of the heap is a step of the arena, or the last before a failure.*)
LEMMA ArenaStep ==
  ASSUME Inv, [Next]_vars
  PROVE  [status' = "running" => Blocks!Next]_vars
<1> DEFINE before == LiveBlocks(heap, live)
           after == LiveBlocks(heap', live')
<1>1. SUFFICES ASSUME status' = "running", ~UNCHANGED vars
               PROVE  Blocks!Next
  OBVIOUS
<1>2. SUFFICES /\ HeapSound(heap', live')
               /\ \/ \E x \in after : x \notin before /\ after = before \union {x}
                  \/ \E x \in before : after = before \ {x}
                  \/ after = before
  BY BlocksAreApart DEF Blocks!Next, LiveBlocks, Block
<1>3. \A b, c : b # c => Block(heap, b) # Block(heap, c)
  BY DEF Block
<1>4. ASSUME NEW sz \in Sizes, New(sz)
      PROVE  /\ HeapSound(heap', live')
             /\ \E x \in after : x \notin before /\ after = before \union {x}
  <2>1. HeapSound(heap', live')
    BY <1>4, NewStep
  <2>2. PICK block : /\ block \notin live /\ live' = live \union {block}
                     /\ \A b \in live : heap'.memory[b] = heap.memory[b]
    BY <1>4, NewStep
  <2>3. \A b \in live : Block(heap', b) = Block(heap, b)
    BY <2>2 DEF Block
  <2>4. \A b \in live : Block(heap', block) # Block(heap, b)
    BY <2>2 DEF Block
  <2>5. after = before \union {Block(heap', block)}
    BY <2>2, <2>3 DEF LiveBlocks
  <2>6. Block(heap', block) \notin before
    BY <2>4 DEF LiveBlocks
  <2> QED BY <2>1, <2>5, <2>6
<1>5. ASSUME NEW seg \in live, Delete(seg)
      PROVE  /\ HeapSound(heap', live')
             /\ \E x \in before : after = before \ {x}
  <2>1. /\ HeapSound(heap', live') /\ live' = live \ {seg}
        /\ \A b \in live' : heap'.memory[b] = heap.memory[b]
    BY <1>1, <1>5, DeleteStep
  <2>2. \A b \in live' : Block(heap', b) = Block(heap, b)
    BY <2>1 DEF Block
  <2>3. after = before \ {Block(heap, seg)}
    BY <1>3, <2>1, <2>2 DEF LiveBlocks
  <2>4. Block(heap, seg) \in before
    BY DEF LiveBlocks
  <2> QED BY <2>1, <2>3, <2>4
<1>6. ASSUME NEW sz \in Sizes, NewWholeSegment(sz) PROVE FALSE
  BY <1>1, <1>6, NewWholeSegmentStep
<1>7. ASSUME NEW sz \in Sizes, NewFindsCorruption(sz) \/ NewWithoutFrames(sz) PROVE FALSE
  BY <1>1, <1>7, FailStep
<1> HIDE DEF before, after
<1> QED BY <1>1, <1>4, <1>5, <1>6, <1>7 DEF Next

(* operator new and operator delete implement the arena: blocks with their *)
(* headers are inside the heap, apart, and stay where they are, as long as *)
(* none of the failures in Statuses has happened (Heap.cpp:36-182).        *)
THEOREM ImplementsArena == Spec => RefinesArena
<1>1. Init => Blocks!Init
  <2> SUFFICES ASSUME Init PROVE Blocks!Init
    OBVIOUS
  <2>1. heap.end \in Nat
    BY InitInv DEF Inv, HeapRecord
  <2> QED BY <2>1, HeapAssumption DEF Init, Blocks!Init
<1>2. Inv /\ [Next]_vars => [status' = "running" => Blocks!Next]_vars
  BY ArenaStep
<1> QED BY <1>1, <1>2, Invariance, PTL DEF Spec, RefinesArena

===============================================================================
