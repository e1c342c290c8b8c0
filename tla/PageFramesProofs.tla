--------------------------- MODULE PageFramesProofs ----------------------------
(* Lemmas about the operators of PageFrames: what each call returns,       *)
(* preserves or bounds, for every page size and every memory map.          *)
EXTENDS PageFrames, FiniteSetTheorems, SequenceTheorems, TLAPS

-------------------------------------------------------------------------------
(* Arithmetic.                                                             *)

(* A counter stays below the modulus.                                      *)
LEMMA WrapType ==
  ASSUME NEW n \in Int
  PROVE  Wrap(n) \in 0 .. CounterModulus - 1
BY SizesAssumption DEF Wrap

(* A counter that has not reached the modulus counts.                      *)
LEMMA WrapSmall ==
  ASSUME NEW n \in 0 .. CounterModulus - 1
  PROVE  Wrap(n) = n
BY SizesAssumption DEF Wrap

(* Counters that differ by whole rounds are equal.                         *)
LEMMA WrapRounds ==
  ASSUME NEW a \in Int, NEW q \in Int
  PROVE  Wrap(a + q * CounterModulus) = Wrap(a)
<1>1. ASSUME NEW M \in Nat \ {0}
      PROVE  (a + q * M) % M = a % M
  <2> DEFINE b == a + q * M
             k == (b \div M) - (a \div M) - q
  <2>0. b \in Int
    OBVIOUS
  <2>1. /\ a = M * (a \div M) + (a % M) /\ a \div M \in Int
        /\ a % M \in 0 .. M - 1
    OBVIOUS
  <2>2. /\ b = M * (b \div M) + (b % M) /\ b \div M \in Int
        /\ b % M \in 0 .. M - 1
    BY <2>0
  <2>3. k \in Int /\ M * k = (a % M) - (b % M)
    <3>1. M * k = M * (b \div M) - M * (a \div M) - M * q
      BY <2>1, <2>2
    <3> QED BY <2>1, <2>2, <3>1
  <2>4. \A i \in Int : -M < M * i /\ M * i < M => i = 0
    <3> SUFFICES ASSUME NEW i \in Int, -M < M * i, M * i < M
                 PROVE  i = 0
      OBVIOUS
    <3>1. i >= 1 => M * i >= M
      OBVIOUS
    <3>2. i <= -1 => M * i <= -M
      OBVIOUS
    <3> QED BY <3>1, <3>2
  <2>5. -M < M * k /\ M * k < M
    BY <2>1, <2>2, <2>3
  <2> HIDE DEF b, k
  <2>6. k = 0
    BY <2>3, <2>4, <2>5
  <2>7. M * 0 = 0
    OBVIOUS
  <2> QED BY <2>1, <2>2, <2>3, <2>6, <2>7 DEF b
<1> QED BY <1>1, SizesAssumption DEF Wrap

(* A counter is off by whole rounds.                                      *)
LEMMA WrapQuotient ==
  ASSUME NEW a \in Int
  PROVE  \E q \in Int : Wrap(a) = a + q * CounterModulus
<1>1. a = CounterModulus * (a \div CounterModulus) + Wrap(a) /\ a \div CounterModulus \in Int
  BY SizesAssumption DEF Wrap
<1> DEFINE q == -(a \div CounterModulus)
<1>2. q \in Int
  BY <1>1
<1>3. Wrap(a) \in Int /\ CounterModulus \in Int
  BY WrapType, SizesAssumption
<1>4. Wrap(a) = a + q * CounterModulus
  BY <1>1, <1>3
<1> QED BY <1>2, <1>4

(* The page of a page's own address is that page.                          *)
LEMMA PageOfAddress ==
  ASSUME NEW i \in Nat
  PROVE  PageOf(i * PageSize) = i
<1>1. i * PageSize \in Nat /\ PageSize \in Nat \ {0}
  BY SizesAssumption
<1>2. \A a \in Nat, p \in Nat \ {0} : a = i * p => a \div p = i
  OBVIOUS
<1> QED BY <1>1, <1>2 DEF PageOf

-------------------------------------------------------------------------------
(* Finite sets of naturals.                                                *)

(* A nonempty set of slots has a topmost one.                              *)
LEMMA MaxExists ==
  ASSUME NEW n \in Nat, NEW S \in SUBSET (1 .. n), S # {}
  PROVE  \E k \in S : \A l \in S : l <= k
<1> DEFINE T == {t \in Nat : n - t \in S}
<1>1. PICK s \in S : TRUE
  OBVIOUS
<1>2. n - s \in Nat /\ n - (n - s) = s
  OBVIOUS
<1>3. T \subseteq Nat /\ T # {}
  BY <1>2, n - s \in T
<1>4. PICK x \in T : \A y \in T : ~ (<<y, x>> \in OpToRel(<, Nat))
  BY <1>3, NatLessThanWellFounded, WFMin, Zenon
<1>5. \A y \in T : ~(y < x)
  BY <1>3, <1>4 DEF OpToRel
<1>6. \A l \in S : n - l \in T
  OBVIOUS
<1>7. n - x \in S /\ x \in Nat
  OBVIOUS
<1> HIDE DEF T
<1>8. \A l \in S : l <= n - x
  BY <1>5, <1>6, <1>7
<1> QED BY <1>7, <1>8

(* Rank: a finite set of naturals has, for every k, exactly one member     *)
(* with k smaller members.                                                 *)
LEMMA RankExists ==
  ASSUME NEW S \in SUBSET Nat, IsFiniteSet(S),
         NEW k \in 0 .. Cardinality(S) - 1
  PROVE  \E n \in S : Cardinality({m \in S : m < n}) = k
<1> DEFINE Below(n) == {m \in S : m < n}
           c == Cardinality(S)
           rank == [n \in S |-> Cardinality(Below(n))]
<1>0. c \in Nat
  BY FS_CardinalityType
<1>1. \A n \in S : IsFiniteSet(Below(n)) /\ Cardinality(Below(n)) \in 0 .. c - 1
  <2> TAKE n \in S
  <2>1. Below(n) \in SUBSET S /\ Below(n) # S
    OBVIOUS
  <2>2. IsFiniteSet(Below(n)) /\ Cardinality(Below(n)) <= c
        /\ Cardinality(Below(n)) # c
    BY <2>1, FS_Subset
  <2>3. Cardinality(Below(n)) \in Nat
    BY <2>2, FS_CardinalityType
  <2> QED BY <2>2, <2>3, <1>0
<1>2. \A a, b \in S : a < b => Cardinality(Below(a)) < Cardinality(Below(b))
  <2> SUFFICES ASSUME NEW a \in S, NEW b \in S, a < b
               PROVE  Cardinality(Below(a)) < Cardinality(Below(b))
    OBVIOUS
  <2>1. Below(a) \in SUBSET Below(b)
    <3>1. \A m \in S : m < a => m < b
      OBVIOUS
    <3> QED BY <3>1
  <2>3. a \in Below(b) /\ a \notin Below(a)
    OBVIOUS
  <2>2. Cardinality(Below(a)) <= Cardinality(Below(b))
        /\ Cardinality(Below(a)) # Cardinality(Below(b))
    BY <2>1, <2>3, <1>1, FS_Subset
  <2> QED BY <2>2, <1>1, <1>0
<1>3. rank \in [S -> 0 .. c - 1]
  BY <1>1
<1>4. \A a, b \in S : rank[a] = rank[b] => a = b
  <2> SUFFICES ASSUME NEW a \in S, NEW b \in S, rank[a] = rank[b], a # b
               PROVE  FALSE
    OBVIOUS
  <2>1. a < b \/ b < a
    OBVIOUS
  <2> QED BY <2>1, <1>1, <1>2, <1>0
<1>5. rank \in Injection(S, 0 .. c - 1)
  BY <1>3, <1>4 DEF Injection, IsInjective
<1>6. IsFiniteSet(0 .. c - 1) /\ Cardinality(0 .. c - 1) = c
  BY <1>0, FS_Interval
<1>7. rank \in Surjection(S, 0 .. c - 1)
  BY <1>5, <1>6, FS_Injection
<1>8. PICK n \in S : rank[n] = k
  BY <1>7 DEF Surjection
<1> QED BY <1>8

(* A nonempty finite set of naturals has a largest and a smallest member.  *)
LEMMA LargestExists ==
  ASSUME NEW S \in SUBSET Nat, IsFiniteSet(S), S # {}
  PROVE  \E n \in S : \A m \in S : m <= n
<1>1. Cardinality(S) \in Nat /\ Cardinality(S) # 0
  BY FS_CardinalityType, FS_EmptySet
<1>2. PICK n \in S : Cardinality({m \in S : m < n}) = Cardinality(S) - 1
  BY <1>1, RankExists
<1> DEFINE below == {m \in S : m < n}
<1>3. n \notin below /\ below \subseteq S \ {n} /\ n \in Nat
  OBVIOUS
<1>4. IsFiniteSet(S \ {n}) /\ Cardinality(S \ {n}) = Cardinality(S) - 1
  BY FS_RemoveElement
<1>5. below = S \ {n}
  BY <1>2, <1>3, <1>4, FS_Subset
<1>6. \A m \in S : m <= n
  BY <1>3, <1>5
<1> QED BY <1>6

LEMMA SmallestExists ==
  ASSUME NEW S \in SUBSET Nat, S # {}
  PROVE  \E n \in S : \A m \in S : n <= m
<1>1. PICK n \in S : \A m \in S : ~(<<m, n>> \in OpToRel(<, Nat))
  BY NatLessThanWellFounded, WFMin, Zenon
<1>2. \A m \in S : ~(m < n)
  BY <1>1 DEF OpToRel
<1>3. n \in Nat /\ \A m \in S : m \in Nat
  OBVIOUS
<1> QED BY <1>2, <1>3

(* Ascending lists every member once.                                      *)
LEMMA AscendingLists ==
  ASSUME NEW S \in SUBSET Nat, IsFiniteSet(S)
  PROVE  /\ Cardinality(S) \in Nat
         /\ \A k \in 1 .. Cardinality(S) : Ascending(S)[k] \in S
         /\ \A k, l \in 1 .. Cardinality(S) : Ascending(S)[k] = Ascending(S)[l] => k = l
<1>1. Cardinality(S) \in Nat
  BY FS_CardinalityType
<1>2. \A k \in 1 .. Cardinality(S) :
         /\ Ascending(S)[k] \in S
         /\ Cardinality({m \in S : m < Ascending(S)[k]}) = k - 1
  <2> TAKE k \in 1 .. Cardinality(S)
  <2>1. \E n \in S : Cardinality({m \in S : m < n}) = k - 1
    BY <1>1, RankExists, k - 1 \in 0 .. Cardinality(S) - 1
  <2>2. Ascending(S)[k] = CHOOSE n \in S : Cardinality({m \in S : m < n}) = k - 1
    BY DEF Ascending
  <2> QED BY <2>1, <2>2
<1>3. ASSUME NEW k \in 1 .. Cardinality(S), NEW l \in 1 .. Cardinality(S),
             Ascending(S)[k] = Ascending(S)[l]
      PROVE  k = l
  <2>1. k - 1 = l - 1
    BY <1>2, <1>3, Zenon
  <2> QED BY <2>1, <1>1
<1> QED BY <1>1, <1>2, <1>3

-------------------------------------------------------------------------------
(* Sizes.                                                                  *)

(* The firmware describes finitely many pages.                             *)
LEMMA DescribedPagesFinite ==
  ASSUME NEW mMap \in Seq(Descriptors)
  PROVE  IsFiniteSet(UNION {PagesOf(mMap[i]) : i \in DOMAIN mMap})
<1> DEFINE I == DOMAIN mMap
           f == [i \in I |-> PagesOf(mMap[i])]
           R == {PagesOf(mMap[i]) : i \in I}
<1>1. I = 1 .. Len(mMap) /\ Len(mMap) \in Nat /\ IsFiniteSet(I)
  BY FS_Interval, LenProperties
<1>2. \A i \in I : IsFiniteSet(PagesOf(mMap[i]))
  <2> TAKE i \in I
  <2>1. mMap[i] \in Descriptors
    BY <1>1
  <2>2. mMap[i].page \in Nat /\ mMap[i].numPages \in Nat
    BY <2>1 DEF Descriptors
  <2>3. mMap[i].page \in Int /\ mMap[i].page + mMap[i].numPages - 1 \in Int
    BY <2>2
  <2>4. \A a, b \in Int : IsFiniteSet(a .. b)
    BY FS_Interval
  <2>5. PagesOf(mMap[i]) = mMap[i].page .. mMap[i].page + mMap[i].numPages - 1
    BY DEF PagesOf, Span
  <2> QED BY <2>3, <2>4, <2>5
<1>3. f \in Surjection(I, R)
  <2>1. f \in [I -> R]
    OBVIOUS
  <2>2. \A r \in R : \E i \in I : f[i] = r
    OBVIOUS
  <2> QED BY <2>1, <2>2 DEF Surjection
<1>4. IsFiniteSet(R)
  BY <1>1, <1>3, FS_Surjection
<1>5. \A r \in R : IsFiniteSet(r)
  BY <1>2
<1>6. IsFiniteSet(UNION R)
  BY <1>4, <1>5, FS_UNION
<1> QED BY <1>6

LEMMA MemoryPagesType ==
  ASSUME NEW mMap \in Seq(Descriptors)
  PROVE  MemoryPages(mMap) \in Nat
BY DescribedPagesFinite, FS_CardinalityType DEF MemoryPages

(* The bitmap covers every page InitPush looks at.                         *)
LEMMA BitmapSizeType ==
  ASSUME NEW mMap \in Seq(Descriptors)
  PROVE  /\ BitmapSize(mMap) \in Nat \ {0}
         /\ PageStackSize(mMap) \in Nat
         /\ StrayBit(mMap) \in Nat
         /\ BitmapSize(mMap) <= StrayBit(mMap)
         /\ BitmapIndices(mMap) = 0 .. StrayBit(mMap)
<1>1. MemoryPages(mMap) \in Nat
  BY MemoryPagesType
<1>2. BitmapSize(mMap) \in Nat \ {0}
  BY <1>1, SizesAssumption DEF BitmapSize
<1>3. \A b \in Nat \ {0}, s \in Nat \ {0} : s * b \in Nat /\ s <= s * b
  OBVIOUS
<1>4. \A b \in Nat, s \in Nat \ {0} : b * s \in Nat
  OBVIOUS
<1> QED BY <1>1, <1>2, <1>3, <1>4, SizesAssumption DEF StrayBit, BitmapIndices, PageStackSize

-------------------------------------------------------------------------------
(* The calls.                                                              *)

(* A call changes a bounded number of bits.                                *)
LEMMA NewlySetCardinality ==
  ASSUME NEW mMap \in Seq(Descriptors), NEW pmm \in Allocators(mMap), NEW pages
  PROVE  Cardinality(NewlySet(pmm, pages)) \in Nat
<1>1. IsFiniteSet(BitmapIndices(mMap))
  BY BitmapSizeType, FS_Interval, 0 \in Int, StrayBit(mMap) \in Int
<1>2. NewlySet(pmm, pages) \in SUBSET BitmapIndices(mMap)
  BY DEF NewlySet, Allocators
<1> QED BY <1>1, <1>2, FS_Subset, FS_CardinalityType

(* LockPages and ReservePages set the bits of the span, and no other bit.  *)
LEMMA LockPagesEffect ==
  ASSUME NEW mMap \in Seq(Descriptors), NEW pmm \in Allocators(mMap),
         NEW page, NEW count
  PROVE  /\ LockPages(pmm, page, count) \in Allocators(mMap)
         /\ LockPages(pmm, page, count).stack = pmm.stack
         /\ \A i \in BitmapIndices(mMap) :
              LockPages(pmm, page, count).bitmap[i]
                = (pmm.bitmap[i] \/ i \in Span(page, count))
<1> DEFINE n == Cardinality(NewlySet(pmm, Span(page, count)))
<1>1. n \in Nat
  BY NewlySetCardinality
<1>2. /\ pmm.freeMemory - n \in Int
      /\ pmm.usedMemory + n \in Int
  BY <1>1 DEF Allocators
<1>3. /\ Wrap(pmm.freeMemory - n) \in 0 .. CounterModulus - 1
      /\ Wrap(pmm.usedMemory + n) \in 0 .. CounterModulus - 1
  BY <1>2, WrapType
<1>4. SetBits(pmm, Span(page, count)) \in [BitmapIndices(mMap) -> BOOLEAN]
  BY DEF SetBits, Allocators
<1>5. \A i \in BitmapIndices(mMap) :
        SetBits(pmm, Span(page, count))[i] = (pmm.bitmap[i] \/ i \in Span(page, count))
  BY DEF SetBits, Allocators
<1> QED BY <1>3, <1>4, <1>5 DEF LockPages, Allocators

LEMMA ReservePagesEffect ==
  ASSUME NEW mMap \in Seq(Descriptors), NEW pmm \in Allocators(mMap), NEW pages
  PROVE  /\ ReservePages(pmm, pages) \in Allocators(mMap)
         /\ ReservePages(pmm, pages).stack = pmm.stack
         /\ \A i \in BitmapIndices(mMap) :
              ReservePages(pmm, pages).bitmap[i] = (pmm.bitmap[i] \/ i \in pages)
<1> DEFINE n == Cardinality(NewlySet(pmm, pages))
<1>1. n \in Nat
  BY NewlySetCardinality
<1>2. /\ pmm.freeMemory - n \in Int
      /\ pmm.reservedMemory + n \in Int
  BY <1>1 DEF Allocators
<1>3. /\ Wrap(pmm.freeMemory - n) \in 0 .. CounterModulus - 1
      /\ Wrap(pmm.reservedMemory + n) \in 0 .. CounterModulus - 1
  BY <1>2, WrapType
<1>4. SetBits(pmm, pages) \in [BitmapIndices(mMap) -> BOOLEAN]
  BY DEF SetBits, Allocators
<1>5. \A i \in BitmapIndices(mMap) :
        SetBits(pmm, pages)[i] = (pmm.bitmap[i] \/ i \in pages)
  BY DEF SetBits, Allocators
<1> QED BY <1>3, <1>4, <1>5 DEF ReservePages, Allocators

(* The slot RequestPage stops at is a usable one, and nothing above it is. *)
LEMMA TopUsableIsTop ==
  ASSUME NEW pmm, pmm.stack \in Seq(Nat), Usable(pmm) # {}
  PROVE  /\ TopUsable(pmm) \in Usable(pmm)
         /\ \A l \in Usable(pmm) : l <= TopUsable(pmm)
<1>1. Len(pmm.stack) \in Nat /\ DOMAIN pmm.stack = 1 .. Len(pmm.stack)
  BY LenProperties
<1>2. Usable(pmm) \in SUBSET (1 .. Len(pmm.stack))
  BY <1>1 DEF Usable
<1>3. \E k \in Usable(pmm) : \A l \in Usable(pmm) : l <= k
  BY <1>1, <1>2, MaxExists, Zenon
<1> QED BY <1>3, Zenon DEF TopUsable

(* RequestPage keeps the slots below the one it stops at and leaves every  *)
(* bit as it was: the page's bit is cleared, and it was clear.             *)
LEMMA RequestPageEffect ==
  ASSUME NEW mMap \in Seq(Descriptors), NEW pmm \in Allocators(mMap), Usable(pmm) # {},
         PageOf(RequestedAddress(pmm)) \in BitmapIndices(mMap)
  PROVE  /\ RequestPage(pmm) \in Allocators(mMap)
         /\ RequestPage(pmm).bitmap = pmm.bitmap
         /\ Len(RequestPage(pmm).stack) = TopUsable(pmm) - 1
         /\ \A k \in 1 .. TopUsable(pmm) - 1 : RequestPage(pmm).stack[k] = pmm.stack[k]
<1> DEFINE top == TopUsable(pmm)
           page == PageOf(RequestedAddress(pmm))
<1>1. /\ pmm.stack \in Seq(Nat)
      /\ pmm.bitmap \in [BitmapIndices(mMap) -> BOOLEAN]
      /\ pmm.usedMemory + 1 \in Int
      /\ pmm.freeMemory - 1 \in Int
  BY DEF Allocators
<1>2. Len(pmm.stack) \in Nat /\ DOMAIN pmm.stack = 1 .. Len(pmm.stack)
      /\ \A k \in 1 .. Len(pmm.stack) : pmm.stack[k] \in Nat
  BY <1>1, LenProperties, ElementOfSeq
<1>3. top \in Usable(pmm)
  BY <1>1, TopUsableIsTop
<1>4. top \in 1 .. Len(pmm.stack) /\ ~InUse(pmm, PageOf(pmm.stack[top]))
  BY <1>2, <1>3 DEF Usable
<1>5. pmm.bitmap[page] = FALSE
  BY <1>1, <1>4 DEF InUse, RequestedAddress
<1>6. [pmm.bitmap EXCEPT ![page] = FALSE] = pmm.bitmap
  BY <1>1, <1>5
<1>7. /\ SubSeq(pmm.stack, 1, top - 1) \in Seq(Nat)
      /\ Len(SubSeq(pmm.stack, 1, top - 1)) = top - 1
      /\ \A k \in 1 .. top - 1 : SubSeq(pmm.stack, 1, top - 1)[k] = pmm.stack[k]
  <2>1. \A k \in 1 .. top - 1 : pmm.stack[k] \in Nat
    BY <1>2, <1>4
  <2> HIDE DEF top
  <2>2. top - 1 \in Int /\ 1 \in Int /\ top \in Nat \ {0}
    BY <1>2, <1>4
  <2>3. /\ SubSeq(pmm.stack, 1, top - 1) \in Seq(Nat)
        /\ Len(SubSeq(pmm.stack, 1, top - 1)) = IF 1 <= top - 1 THEN (top - 1) - 1 + 1 ELSE 0
        /\ \A k \in 1 .. (top - 1) - 1 + 1 :
             SubSeq(pmm.stack, 1, top - 1)[k] = pmm.stack[1 + k - 1]
    BY <2>1, <2>2, SubSeqProperties
  <2> QED BY <2>2, <2>3
<1>8. /\ Wrap(pmm.usedMemory + 1) \in 0 .. CounterModulus - 1
      /\ Wrap(pmm.freeMemory - 1) \in 0 .. CounterModulus - 1
  BY <1>1, WrapType
<1>9. /\ RequestPage(pmm) \in Allocators(mMap)
      /\ RequestPage(pmm).bitmap = pmm.bitmap
      /\ RequestPage(pmm).stack = SubSeq(pmm.stack, 1, top - 1)
  BY <1>1, <1>6, <1>7, <1>8 DEF RequestPage, Allocators
<1> QED BY <1>7, <1>9

-------------------------------------------------------------------------------
(* The pool of pages that can be requested.                                *)

Pool(p) == {PageOf(p.stack[k]) : k \in Usable(p)}

(* Every word on the stack is the address of a page of memory, no page is  *)
(* there twice.                                                            *)
Words(p, mMap) ==
  \A k \in DOMAIN p.stack :
    /\ PageOf(p.stack[k]) \in BitmapIndices(mMap)
    /\ PageOf(p.stack[k]) \in 0 .. MemoryPages(mMap) - 1
    /\ \A l \in DOMAIN p.stack : PageOf(p.stack[k]) = PageOf(p.stack[l]) => k = l

(* What a request takes out of the pool and what it leaves.                *)
Takes(p, mMap, f, q) ==
  /\ q \in Allocators(mMap) /\ Words(q, mMap) /\ q.bitmap = p.bitmap
  /\ DOMAIN q.stack \subseteq DOMAIN p.stack
  /\ \A k \in DOMAIN q.stack : q.stack[k] = p.stack[k]
  /\ f \in Pool(p) /\ f \notin Pool(q) /\ Pool(q) \subseteq Pool(p)
  /\ Cardinality(Usable(p)) \in Nat
  /\ Cardinality(Usable(q)) = Cardinality(Usable(p)) - 1

LEMMA RequestTakes ==
  ASSUME NEW mMap \in Seq(Descriptors), NEW p, p \in Allocators(mMap), Words(p, mMap),
         Usable(p) # {}
  PROVE  Takes(p, mMap, PageOf(RequestedAddress(p)), RequestPage(p))
<1> DEFINE top == TopUsable(p)
           f == PageOf(RequestedAddress(p))
           q == RequestPage(p)
<1>1. /\ p.stack \in Seq(Nat) /\ Len(p.stack) \in Nat
      /\ DOMAIN p.stack = 1 .. Len(p.stack)
  BY LenProperties DEF Allocators
<1>2. top \in Usable(p) /\ \A l \in Usable(p) : l <= top
  BY <1>1, TopUsableIsTop
<1>3. top \in DOMAIN p.stack
  BY <1>2 DEF Usable
<1>4. f = PageOf(p.stack[top])
  BY DEF RequestedAddress
<1>5. f \in BitmapIndices(mMap) /\ f \in Pool(p)
  BY <1>2, <1>3, <1>4 DEF Pool, Words
<1>6. /\ q \in Allocators(mMap) /\ q.bitmap = p.bitmap
      /\ Len(q.stack) = top - 1
      /\ \A k \in 1 .. top - 1 : q.stack[k] = p.stack[k]
  BY <1>5, RequestPageEffect
<1> HIDE DEF f, q, top
<1>7. top \in Nat /\ top > 0 /\ top <= Len(p.stack)
  BY <1>1, <1>3
<1>8. DOMAIN q.stack = 1 .. top - 1 /\ 1 .. top - 1 \subseteq DOMAIN p.stack
  <2>1. q.stack \in Seq(Nat)
    BY <1>6 DEF Allocators
  <2>2. DOMAIN q.stack = 1 .. Len(q.stack)
    BY <2>1, LenProperties
  <2> QED BY <2>2, <1>1, <1>6, <1>7
<1>9. Words(q, mMap)
  BY <1>6, <1>8 DEF Words
<1>10. Usable(q) = Usable(p) \ {top}
  <2>1. \A k \in 1 .. top - 1 : k \in Usable(q) <=> k \in Usable(p)
    BY <1>6, <1>8 DEF Usable, InUse
  <2>2. \A k \in Usable(q) : k \in 1 .. top - 1
    BY <1>8 DEF Usable
  <2>3. \A k \in Usable(p) : k # top => k \in 1 .. top - 1
    <3> TAKE k \in Usable(p)
    <3>1. k \in Nat /\ k > 0 /\ k <= top
      BY <1>1, <1>2 DEF Usable
    <3> QED BY <3>1, <1>7
  <2>4. top \notin 1 .. top - 1
    BY <1>7
  <2> QED BY <2>1, <2>2, <2>3, <2>4
<1>11. /\ Cardinality(Usable(p)) \in Nat
       /\ Cardinality(Usable(q)) = Cardinality(Usable(p)) - 1
  <2>1. IsFiniteSet(1 .. Len(p.stack))
    BY <1>1, FS_Interval, 1 \in Int, Len(p.stack) \in Int
  <2>2. Usable(p) \in SUBSET (1 .. Len(p.stack))
    BY <1>1 DEF Usable
  <2>3. IsFiniteSet(Usable(p))
    BY <2>1, <2>2, FS_Subset
  <2> QED BY <2>3, <1>2, <1>10, FS_RemoveElement, FS_CardinalityType
<1>12. Pool(q) \subseteq Pool(p) /\ f \notin Pool(q)
  <2>1. \A k \in Usable(q) : /\ k \in DOMAIN p.stack /\ k # top /\ k \in Usable(p)
                             /\ q.stack[k] = p.stack[k]
    BY <1>6, <1>8, <1>10 DEF Usable
  <2> QED BY <2>1, <1>3, <1>4 DEF Pool, Words
<1>13. \A k \in DOMAIN q.stack : q.stack[k] = p.stack[k]
  BY <1>6, <1>8
<1>14. Takes(p, mMap, f, q)
  BY <1>5, <1>6, <1>8, <1>9, <1>11, <1>12, <1>13 DEF Takes
<1> QED BY <1>14 DEF f, q

(* A page in the pool is memory, and its bit is clear.                     *)
LEMMA PoolPages ==
  ASSUME NEW mMap \in Seq(Descriptors), NEW p, p \in Allocators(mMap), Words(p, mMap),
         NEW f \in Pool(p)
  PROVE  f \in BitmapIndices(mMap) /\ ~p.bitmap[f] /\ f \in 0 .. MemoryPages(mMap) - 1
<1>1. PICK k \in Usable(p) : f = PageOf(p.stack[k])
  BY DEF Pool
<1>2. k \in DOMAIN p.stack /\ ~InUse(p, f)
  BY <1>1 DEF Usable
<1>3. DOMAIN p.bitmap = BitmapIndices(mMap)
  BY DEF Allocators
<1> QED BY <1>1, <1>2, <1>3 DEF Words, InUse

-------------------------------------------------------------------------------
(* The constructor.                                                        *)

LEMMA ZeroedType ==
  ASSUME NEW mMap \in Seq(Descriptors), NEW stray \in BOOLEAN
  PROVE  Zeroed(mMap, stray) \in Allocators(mMap)
<1>1. 0 \in 0 .. CounterModulus - 1
  BY SizesAssumption
<1>2. Wrap(MemoryPages(mMap)) \in 0 .. CounterModulus - 1
  BY MemoryPagesType, WrapType
<1>3. [i \in BitmapIndices(mMap) |-> i = StrayBit(mMap) /\ stray]
        \in [BitmapIndices(mMap) -> BOOLEAN]
  OBVIOUS
<1>4. << >> \in Seq(Nat)
  OBVIOUS
<1> QED BY <1>1, <1>2, <1>3, <1>4 DEF Zeroed, Allocators

(* InitPush pushes addresses of pages with a clear bit, each once.         *)
LEMMA InitPushEntries ==
  ASSUME NEW mMap \in Seq(Descriptors), NEW bitmap \in [BitmapIndices(mMap) -> BOOLEAN]
  PROVE  LET stack == InitPush(bitmap, BitmapSize(mMap))
         IN  /\ stack \in Seq(Nat)
             /\ \A k \in DOMAIN stack :
                  /\ PageOf(stack[k]) \in BitmapIndices(mMap)
                  /\ PageOf(stack[k]) < BitmapSize(mMap)
                  /\ stack[k] = PageOf(stack[k]) * PageSize
                  /\ \A l \in DOMAIN stack : PageOf(stack[k]) = PageOf(stack[l]) => k = l
             /\ \A k \in DOMAIN stack : ~bitmap[PageOf(stack[k])]
<1> DEFINE clear == {i \in 0 .. BitmapSize(mMap) - 1 : ~bitmap[i]}
           asc == Ascending(clear)
           n == Cardinality(clear)
           stack == InitPush(bitmap, BitmapSize(mMap))
<1>1. /\ BitmapSize(mMap) \in Nat \ {0}
      /\ StrayBit(mMap) \in Nat
      /\ BitmapSize(mMap) <= StrayBit(mMap)
      /\ BitmapIndices(mMap) = 0 .. StrayBit(mMap)
  BY BitmapSizeType
<1>2. clear \in SUBSET Nat /\ clear \subseteq BitmapIndices(mMap)
  BY <1>1
<1>3. IsFiniteSet(clear)
  <2>1. IsFiniteSet(BitmapIndices(mMap))
    BY <1>1, FS_Interval, 0 \in Int, StrayBit(mMap) \in Int
  <2> HIDE DEF clear
  <2> QED BY <1>2, <2>1, FS_Subset
<1>4. stack = [k \in 1 .. n |-> asc[k] * PageSize]
  BY DEF InitPush
<1> HIDE DEF clear
<1>5. /\ n \in Nat
      /\ \A k \in 1 .. n : asc[k] \in clear
      /\ \A k, l \in 1 .. n : asc[k] = asc[l] => k = l
  BY <1>2, <1>3, AscendingLists
<1> HIDE DEF asc, n, stack
<1>6. \A i \in clear : i * PageSize \in Nat /\ PageOf(i * PageSize) = i
  BY <1>2, PageOfAddress, SizesAssumption
<1>7. stack \in [1 .. n -> Nat] /\ DOMAIN stack = 1 .. n
  BY <1>4, <1>5, <1>6
<1>8. stack \in Seq(Nat)
  BY <1>5, <1>7
<1>9. \A k \in DOMAIN stack : PageOf(stack[k]) = asc[k] /\ stack[k] = asc[k] * PageSize
  BY <1>4, <1>5, <1>6, <1>7
<1>10. \A k \in DOMAIN stack :
         /\ PageOf(stack[k]) \in BitmapIndices(mMap)
         /\ PageOf(stack[k]) < BitmapSize(mMap)
         /\ stack[k] = PageOf(stack[k]) * PageSize
         /\ \A l \in DOMAIN stack : PageOf(stack[k]) = PageOf(stack[l]) => k = l
  <2> TAKE k \in DOMAIN stack
  <2>1. k \in 1 .. n /\ asc[k] \in clear
    BY <1>5, <1>7
  <2>2. PageOf(stack[k]) = asc[k] /\ stack[k] = asc[k] * PageSize
    BY <1>9
  <2>3. ASSUME NEW l \in DOMAIN stack, PageOf(stack[k]) = PageOf(stack[l])
        PROVE  k = l
    <3>1. l \in 1 .. n /\ PageOf(stack[l]) = asc[l]
      BY <1>7, <1>9
    <3> QED BY <1>5, <2>1, <2>2, <2>3, <3>1
  <2>4. asc[k] < BitmapSize(mMap)
    BY <1>1, <2>1 DEF clear
  <2> QED BY <1>2, <2>1, <2>2, <2>3, <2>4
<1>11. \A k \in DOMAIN stack : ~bitmap[PageOf(stack[k])]
  <2>1. \A i \in clear : ~bitmap[i]
    BY DEF clear
  <2> QED BY <1>5, <1>7, <1>9, <2>1
<1> QED BY <1>8, <1>10, <1>11 DEF stack

(* The constructor leaves a well-formed allocator: the stack lists pages   *)
(* the bitmap covers, each once, and the pages of the allocator's own data *)
(* and of the firmware's regions have their bits set.                      *)
LEMMA ConstructedEffect ==
  ASSUME NEW mMap \in Seq(Descriptors), NEW stray \in BOOLEAN
  PROVE  LET pmm == Constructed(mMap, stray)
         IN  /\ pmm \in Allocators(mMap)
             /\ \A k \in DOMAIN pmm.stack :
                  /\ PageOf(pmm.stack[k]) \in BitmapIndices(mMap)
                  /\ PageOf(pmm.stack[k]) < BitmapSize(mMap)
                  /\ pmm.stack[k] = PageOf(pmm.stack[k]) * PageSize
                  /\ \A l \in DOMAIN pmm.stack :
                       PageOf(pmm.stack[k]) = PageOf(pmm.stack[l]) => k = l
             /\ \A i \in BitmapIndices(mMap) :
                  \/ i \in FirmwarePages(mMap)
                  \/ i \in Span(LargestFreeMemSeg(mMap).page,
                                (MetadataBytes(mMap) - 1) \div PageSize + 1)
                  => pmm.bitmap[i]
<1> DEFINE zeroed == Zeroed(mMap, stray)
           count == (1 + PageStackSize(mMap) + BitmapSize(mMap)) \div PageSize + 1
           locked == LockPages(zeroed, LargestFreeMemSeg(mMap).page, count)
           reserved == ReservePages(locked, FirmwarePages(mMap))
           stack == InitPush(reserved.bitmap, BitmapSize(mMap))
           pmm == Constructed(mMap, stray)
<1>1. PageStackSize(mMap) \in Nat /\ BitmapSize(mMap) \in Nat
  BY BitmapSizeType
<1>2. (MetadataBytes(mMap) - 1) \div PageSize + 1 = count
  <2>1. MetadataBytes(mMap) - 1 = 1 + PageStackSize(mMap) + BitmapSize(mMap)
    BY <1>1 DEF MetadataBytes
  <2> QED BY <2>1
<1>3. pmm = [reserved EXCEPT !.stack = stack]
  BY DEF Constructed, LockMetadata
<1>4. zeroed \in Allocators(mMap)
  BY ZeroedType
<1> HIDE DEF zeroed, count
<1>5. /\ locked \in Allocators(mMap)
      /\ \A i \in BitmapIndices(mMap) :
           locked.bitmap[i]
             = (zeroed.bitmap[i] \/ i \in Span(LargestFreeMemSeg(mMap).page, count))
  BY <1>4, LockPagesEffect
<1> HIDE DEF locked
<1>6. /\ reserved \in Allocators(mMap)
      /\ \A i \in BitmapIndices(mMap) :
           reserved.bitmap[i] = (locked.bitmap[i] \/ i \in FirmwarePages(mMap))
  BY <1>5, ReservePagesEffect
<1> HIDE DEF reserved
<1>7. reserved.bitmap \in [BitmapIndices(mMap) -> BOOLEAN]
  BY <1>6 DEF Allocators
<1>8. /\ stack \in Seq(Nat)
      /\ \A k \in DOMAIN stack :
           /\ PageOf(stack[k]) \in BitmapIndices(mMap)
           /\ PageOf(stack[k]) < BitmapSize(mMap)
           /\ stack[k] = PageOf(stack[k]) * PageSize
           /\ \A l \in DOMAIN stack : PageOf(stack[k]) = PageOf(stack[l]) => k = l
  BY <1>7, InitPushEntries
<1> HIDE DEF stack, pmm
<1>9. /\ pmm \in Allocators(mMap)
      /\ pmm.stack = stack
      /\ pmm.bitmap = reserved.bitmap
  BY <1>3, <1>6, <1>8 DEF Allocators
<1>10. \A i \in BitmapIndices(mMap) :
         \/ i \in FirmwarePages(mMap)
         \/ i \in Span(LargestFreeMemSeg(mMap).page,
                       (MetadataBytes(mMap) - 1) \div PageSize + 1)
         => pmm.bitmap[i]
  BY <1>2, <1>5, <1>6, <1>9
<1> QED BY <1>8, <1>9, <1>10 DEF pmm

(* InitPush looks at bits of pages of memory only.                         *)
LEMMA BitmapFits ==
  ASSUME NEW mMap \in Seq(Descriptors), MemoryPages(mMap) > 0
  PROVE  BitmapSize(mMap) <= MemoryPages(mMap)
<1> DEFINE n == MemoryPages(mMap)
           B == ByteBits
           q == n \div B
<1>1. n \in Nat /\ n > 0
  BY MemoryPagesType
<1>2. B \in Nat /\ B > 1
  BY SizesAssumption
<1> HIDE DEF n, B
<1>3. q \in Nat /\ (n % B) \in Nat /\ n = B * q + (n % B)
  BY <1>1, <1>2
<1> HIDE DEF q
<1>4. B * q >= 2 * q
  BY <1>2, <1>3
<1>5. B * q \in Nat
  BY <1>2, <1>3
<1>6. q + 1 <= n
  BY <1>1, <1>3, <1>4, <1>5
<1>7. BitmapSize(mMap) = q + 1
  BY DEF BitmapSize, q, n, B
<1> QED BY <1>6, <1>7 DEF n

(* The pool of the start holds pages of memory, each once; the pages that  *)
(* are locked first have their bits set.                                   *)
LEMMA LockedStart ==
  ASSUME NEW mMap \in Seq(Descriptors), MemoryPages(mMap) > 0, NEW page, NEW count
  PROVE  LET pmm == LockPages(Constructed(mMap, FALSE), page, count)
         IN  /\ pmm \in Allocators(mMap) /\ Words(pmm, mMap)
             /\ \A i \in BitmapIndices(mMap) : i \in Span(page, count) => pmm.bitmap[i]
<1> DEFINE made == Constructed(mMap, FALSE)
           pmm == LockPages(made, page, count)
<1>1. /\ made \in Allocators(mMap)
      /\ \A k \in DOMAIN made.stack :
           /\ PageOf(made.stack[k]) \in BitmapIndices(mMap)
           /\ PageOf(made.stack[k]) < BitmapSize(mMap)
           /\ \A l \in DOMAIN made.stack :
                PageOf(made.stack[k]) = PageOf(made.stack[l]) => k = l
  BY ConstructedEffect
<1> HIDE DEF made
<1>2. /\ pmm \in Allocators(mMap) /\ pmm.stack = made.stack
      /\ \A i \in BitmapIndices(mMap) :
           pmm.bitmap[i] = (made.bitmap[i] \/ i \in Span(page, count))
  BY <1>1, LockPagesEffect
<1>3. BitmapIndices(mMap) \subseteq Nat
  BY BitmapSizeType
<1>4. \A i \in BitmapIndices(mMap) :
        i < BitmapSize(mMap) => i \in 0 .. MemoryPages(mMap) - 1
  BY <1>3, BitmapSizeType, BitmapFits, MemoryPagesType
<1> HIDE DEF pmm
<1>5. Words(pmm, mMap)
  BY <1>1, <1>2, <1>4 DEF Words
<1> QED BY <1>2, <1>5 DEF pmm, made

===============================================================================
