-------------------------- MODULE VirtualMemoryProofs --------------------------
(***************************************************************************)
(* For any memory map, any number of entries of a table and any pages the  *)
(* kernel maps and unmaps: the page tables are a tree of four levels that  *)
(* only grows, every frame has one use, the identity map stays, and seen   *)
(* through GetMapping each call changes the entry of its own page and no   *)
(* other.                                                                  *)
(***************************************************************************)
EXTENDS VirtualMemory, PageFramesProofs

Indices == 0 .. Radix - 1

VirtualPages == 0 .. Radix * Radix * Radix * Radix - 1

Entries == [frame : Nat, flags : SUBSET Flags]

(* The flags of an entry that leads to a table.                            *)
TableFlags == {"Present", "ReadWrite"}

-------------------------------------------------------------------------------
(* Indices.                                                                *)

LEMMA RadixType == Radix \in Nat \ {0, 1} /\ Indices \subseteq Nat
BY VirtualMemoryAssumption DEF Indices

(* What a shift leaves and what the mask takes make up the number.         *)
LEMMA ShiftAndMask ==
  ASSUME NEW a \in Nat
  PROVE  /\ a \div Radix \in Nat
         /\ (a % Radix) \in Indices
         /\ a = Radix * (a \div Radix) + (a % Radix)
<1> DEFINE R == Radix
<1>1. R \in Nat /\ R > 0
  BY RadixType
<1> HIDE DEF R
<1>2. /\ a \div R \in Nat /\ (a % R) \in 0 .. R - 1
      /\ a = R * (a \div R) + (a % R)
  BY <1>1
<1> QED BY <1>2 DEF R, Indices

LEMMA ShiftBelow ==
  ASSUME NEW a \in Nat, NEW b \in Nat, a < b * Radix
  PROVE  a \div Radix < b
<1> DEFINE q == a \div Radix
<1>1. q \in Nat /\ (a % Radix) \in Nat /\ a = Radix * q + (a % Radix)
  BY ShiftAndMask, RadixType
<1>2. Radix \in Nat /\ Radix > 0
  BY RadixType
<1> HIDE DEF q
<1>3. SUFFICES ASSUME q >= b PROVE FALSE
  BY <1>1 DEF q
<1>4. q * Radix >= b * Radix
  BY <1>1, <1>2, <1>3
<1>5. Radix * q = q * Radix /\ Radix * q \in Nat /\ b * Radix \in Nat
  BY <1>1, <1>2
<1>6. a >= Radix * q
  BY <1>1, <1>5
<1> QED BY <1>4, <1>5, <1>6

LEMMA ShiftedType ==
  ASSUME NEW page \in Nat
  PROVE  /\ Shifted(page) \in Seq(Nat) /\ Len(Shifted(page)) = 4
         /\ Shifted(page)[1] = page
         /\ \A k \in 1 .. 3 : Shifted(page)[k + 1] = Shifted(page)[k] \div Radix
<1> DEFINE a == page \div Radix
           b == a \div Radix
           c == b \div Radix
<1>1. a \in Nat /\ b \in Nat /\ c \in Nat
  BY ShiftAndMask
<1>2. Shifted(page) = <<page, a, b, c>>
  BY DEF Shifted
<1>3. /\ <<page, a, b, c>>[1] = page
      /\ <<page, a, b, c>>[2] = <<page, a, b, c>>[1] \div Radix
      /\ <<page, a, b, c>>[3] = <<page, a, b, c>>[2] \div Radix
      /\ <<page, a, b, c>>[4] = <<page, a, b, c>>[3] \div Radix
  OBVIOUS
<1> HIDE DEF a, b, c
<1>4. \A k \in 1 .. 3 : k = 1 \/ k = 2 \/ k = 3
  OBVIOUS
<1> QED BY <1>1, <1>2, <1>3, <1>4

(* The processor finds an entry for every page.                            *)
LEMMA IndicesType ==
  ASSUME NEW page \in Nat
  PROVE  getIndizes(page) \in [0 .. 3 -> Indices]
<1> SUFFICES ASSUME NEW level \in 0 .. 3
             PROVE  (Shifted(page)[level + 1] % Radix) \in Indices
  BY DEF getIndizes
<1>1. level + 1 \in 1 .. 4
  OBVIOUS
<1>2. Shifted(page)[level + 1] \in Nat
  BY <1>1, ShiftedType, ElementOfSeq
<1> QED BY <1>2, ShiftAndMask

(* No two pages have the same four indices.                                *)
LEMMA IndicesDiffer ==
  ASSUME NEW p \in VirtualPages, NEW q \in VirtualPages,
         \A level \in 0 .. 3 : getIndizes(p)[level] = getIndizes(q)[level]
  PROVE  p = q
<1> DEFINE x == Shifted(p)
           y == Shifted(q)
<1>1. p \in Nat /\ q \in Nat
  BY RadixType DEF VirtualPages
<1>2. /\ x \in Seq(Nat) /\ Len(x) = 4 /\ x[1] = p
      /\ \A k \in 1 .. 3 : x[k + 1] = x[k] \div Radix
      /\ y \in Seq(Nat) /\ Len(y) = 4 /\ y[1] = q
      /\ \A k \in 1 .. 3 : y[k + 1] = y[k] \div Radix
  BY <1>1, ShiftedType
<1>3. \A level \in 0 .. 3 : (x[level + 1] % Radix) = (y[level + 1] % Radix)
  BY DEF getIndizes
<1> HIDE DEF x, y
<1>4. /\ (x[1] % Radix) = (y[1] % Radix) /\ (x[2] % Radix) = (y[2] % Radix)
      /\ (x[3] % Radix) = (y[3] % Radix) /\ (x[4] % Radix) = (y[4] % Radix)
  <2>1. 0 \in 0 .. 3 /\ 1 \in 0 .. 3 /\ 2 \in 0 .. 3 /\ 3 \in 0 .. 3
    OBVIOUS
  <2>2. 0 + 1 = 1 /\ 1 + 1 = 2 /\ 2 + 1 = 3 /\ 3 + 1 = 4
    OBVIOUS
  <2> QED BY <1>3, <2>1, <2>2
<1>5. /\ x[1] \in Nat /\ x[2] \in Nat /\ x[3] \in Nat /\ x[4] \in Nat
      /\ y[1] \in Nat /\ y[2] \in Nat /\ y[3] \in Nat /\ y[4] \in Nat
      /\ x[2] = x[1] \div Radix /\ x[3] = x[2] \div Radix /\ x[4] = x[3] \div Radix
      /\ y[2] = y[1] \div Radix /\ y[3] = y[2] \div Radix /\ y[4] = y[3] \div Radix
  <2>1. 1 \in 1 .. 3 /\ 2 \in 1 .. 3 /\ 3 \in 1 .. 3
    OBVIOUS
  <2>2. 1 + 1 = 2 /\ 2 + 1 = 3 /\ 3 + 1 = 4
    OBVIOUS
  <2>3. \A k \in 1 .. 4 : x[k] \in Nat /\ y[k] \in Nat
    BY <1>2, ElementOfSeq
  <2> QED BY <1>2, <2>1, <2>2, <2>3
<1>6. \A a, b \in Nat : a \div Radix = b \div Radix /\ (a % Radix) = (b % Radix) => a = b
  <2> TAKE a, b \in Nat
  <2>1. a = Radix * (a \div Radix) + (a % Radix) /\ b = Radix * (b \div Radix) + (b % Radix)
    BY ShiftAndMask
  <2> QED BY <2>1
<1>7. \A a \in VirtualPages : ((a \div Radix) \div Radix) \div Radix < Radix
  <2> TAKE a \in VirtualPages
  <2> DEFINE R == Radix
             q1 == a \div R
             q2 == q1 \div R
  <2>1. R \in Nat /\ R * R \in Nat /\ R * R * R \in Nat /\ a \in Nat /\ a < R * R * R * R
    BY RadixType DEF VirtualPages
  <2>2. q1 \in Nat /\ q2 \in Nat
    BY <2>1, ShiftAndMask
  <2>3. q1 < R * R * R
    BY <2>1, ShiftBelow
  <2>4. q2 < R * R
    BY <2>1, <2>2, <2>3, ShiftBelow
  <2>5. q2 \div R < R
    BY <2>1, <2>2, <2>4, ShiftBelow
  <2> QED BY <2>5
<1>8. \A a \in Nat : a < Radix => (a % Radix) = a
  BY RadixType
<1>9. x[4] = y[4]
  BY <1>4, <1>5, <1>7, <1>8, <1>2
<1> QED BY <1>1, <1>2, <1>4, <1>5, <1>6, <1>9

-------------------------------------------------------------------------------
(* The tree and the paths through it.                                      *)

(* An entry of a table above the last level leads to a table one level     *)
(* down; lev is the level of each table, PML4 being 3.                     *)
Leads(T, lev, t, i) ==
  /\ T[t][i].frame \in DOMAIN T
  /\ lev[T[t][i].frame] = lev[t] - 1
  /\ T[t][i].flags = TableFlags

(* No table has two entries that lead to it, and each but PML4 has one.    *)
OneParent(T, lev) ==
  /\ \A t, u \in DOMAIN T, i, j \in Indices :
       /\ lev[t] > 0 /\ lev[u] > 0
       /\ Present(T[t][i]) /\ Present(T[u][j]) /\ T[t][i].frame = T[u][j].frame
       => t = u /\ i = j
  /\ \A c \in DOMAIN T \ {root} :
       \E t \in DOMAIN T, i \in Indices :
         lev[t] > 0 /\ Present(T[t][i]) /\ T[t][i].frame = c

Tree(T, lev) ==
  /\ IsFiniteSet(DOMAIN T) /\ DOMAIN T \subseteq Nat
  /\ T \in [DOMAIN T -> [Indices -> Entries]]
  /\ lev \in [DOMAIN T -> 0 .. 3]
  /\ root \in DOMAIN T /\ \A t \in DOMAIN T : lev[t] = 3 <=> t = root
  /\ \A t \in DOMAIN T, i \in Indices :
       /\ ~Present(T[t][i]) => T[t][i] = ZeroEntry
       /\ lev[t] > 0 /\ Present(T[t][i]) => Leads(T, lev, t, i)
  /\ OneParent(T, lev)

(* The entry for the page in the k-th table of its path.                   *)
EntryFor(T, page, t, k) == T[t][getIndizes(page)[4 - k]]

(* s is as far as the tables on the way to a page exist.                   *)
IsPath(T, page, s) ==
  /\ s \in Seq(Nat) /\ Len(s) \in 1 .. 4 /\ s[1] = root
  /\ \A k \in 1 .. 3 :
       /\ k < Len(s) => /\ Present(EntryFor(T, page, s[k], k))
                        /\ s[k + 1] = EntryFor(T, page, s[k], k).frame
       /\ k = Len(s) => ~Present(EntryFor(T, page, s[k], k))

LEMMA EntryIndex ==
  ASSUME NEW page \in Nat, NEW k \in 1 .. 4
  PROVE  getIndizes(page)[4 - k] \in Indices
<1>1. 4 - k \in 0 .. 3
  OBVIOUS
<1> QED BY <1>1, IndicesType

(* Above the last level an entry that is present leads one level down.     *)
LEMMA EntryLeads ==
  ASSUME NEW T, NEW lev, Tree(T, lev), NEW page \in Nat, NEW k \in 1 .. 3,
         NEW t \in DOMAIN T, lev[t] = 4 - k, Present(EntryFor(T, page, t, k))
  PROVE  /\ EntryFor(T, page, t, k).frame \in DOMAIN T
         /\ EntryFor(T, page, t, k).frame \in Nat
         /\ lev[EntryFor(T, page, t, k).frame] = 4 - (k + 1)
         /\ EntryFor(T, page, t, k).flags = TableFlags
<1> DEFINE i == getIndizes(page)[4 - k]
<1>1. i \in Indices
  BY EntryIndex
<1>2. EntryFor(T, page, t, k) = T[t][i]
  BY DEF EntryFor
<1> HIDE DEF i
<1>3. lev[t] > 0
  OBVIOUS
<1>4. Leads(T, lev, t, i)
  BY <1>1, <1>2, <1>3 DEF Tree
<1>5. 4 - (k + 1) = lev[t] - 1
  OBVIOUS
<1>6. DOMAIN T \subseteq Nat
  BY DEF Tree
<1> QED BY <1>2, <1>4, <1>5, <1>6 DEF Leads

(* A path goes down one level with each table.                             *)
LEMMA PathLevels ==
  ASSUME NEW T, NEW lev, Tree(T, lev), NEW page \in Nat, NEW s, IsPath(T, page, s)
  PROVE  \A k \in 1 .. 4 : k <= Len(s) => s[k] \in DOMAIN T /\ lev[s[k]] = 4 - k
<1> DEFINE In(k) == k <= Len(s) => s[k] \in DOMAIN T /\ lev[s[k]] = 4 - k
<1>1. PICK n \in 1 .. 4 : Len(s) = n
  BY DEF IsPath
<1>2. In(1)
  BY DEF IsPath, Tree
<1>3. ASSUME NEW k \in 1 .. 3, In(k)
      PROVE  In(k + 1)
  <2>1. SUFFICES ASSUME k < n PROVE s[k + 1] \in DOMAIN T /\ lev[s[k + 1]] = 4 - (k + 1)
    BY <1>1
  <2>2. Present(EntryFor(T, page, s[k], k)) /\ s[k + 1] = EntryFor(T, page, s[k], k).frame
    BY <1>1, <2>1 DEF IsPath
  <2>3. s[k] \in DOMAIN T /\ lev[s[k]] = 4 - k
    BY <1>1, <1>3, <2>1
  <2> QED BY <2>2, <2>3, EntryLeads
<1> HIDE DEF In
<1>4. In(2) /\ In(3) /\ In(4)
  BY <1>2, <1>3, 1 + 1 = 2, 2 + 1 = 3, 3 + 1 = 4, 1 \in 1 .. 3, 2 \in 1 .. 3, 3 \in 1 .. 3
<1>5. \A k \in 1 .. 4 : k = 1 \/ k = 2 \/ k = 3 \/ k = 4
  OBVIOUS
<1> QED BY <1>2, <1>4, <1>5 DEF In

(* Path is the one.                                                        *)
LEMMA PathIsPath ==
  ASSUME NEW T, NEW lev, Tree(T, lev), NEW page \in Nat
  PROVE  IsPath(T, page, Path(T, page))
<1> DEFINE pdp == EntryFor(T, page, root, 1)
           pd == EntryFor(T, page, pdp.frame, 2)
           pt == EntryFor(T, page, pd.frame, 3)
           s == Path(T, page)
<1>1. root \in DOMAIN T /\ lev[root] = 4 - 1 /\ root \in Nat
  BY DEF Tree
<1>2. Present(pdp) => pdp.frame \in DOMAIN T /\ lev[pdp.frame] = 4 - 2 /\ pdp.frame \in Nat
  BY <1>1, EntryLeads, 1 + 1 = 2, 1 \in 1 .. 3
<1>3. Present(pdp) /\ Present(pd) =>
        pd.frame \in DOMAIN T /\ lev[pd.frame] = 4 - 3 /\ pd.frame \in Nat
  BY <1>2, EntryLeads, 2 + 1 = 3, 2 \in 1 .. 3
<1>4. Present(pdp) /\ Present(pd) /\ Present(pt) => pt.frame \in Nat
  BY <1>3, EntryLeads, 3 \in 1 .. 3
<1>5. s = IF ~Present(pdp) THEN <<root>>
          ELSE IF ~Present(pd) THEN <<root, pdp.frame>>
          ELSE IF ~Present(pt) THEN <<root, pdp.frame, pd.frame>>
          ELSE <<root, pdp.frame, pd.frame, pt.frame>>
  <2>1. 4 - 1 = 3 /\ 4 - 2 = 2 /\ 4 - 3 = 1
    OBVIOUS
  <2> QED BY <2>1 DEF Path, EntryFor
<1> DEFINE f2 == pdp.frame
           f3 == pd.frame
           f4 == pt.frame
           Hop(k, t, next) == Present(EntryFor(T, page, t, k)) /\ next = EntryFor(T, page, t, k).frame
<1>6. Present(pdp) => Hop(1, root, f2) /\ f2 \in Nat
  BY <1>2
<1>7. Present(pdp) /\ Present(pd) => Hop(2, f2, f3) /\ f3 \in Nat
  BY <1>3
<1>8. Present(pdp) /\ Present(pd) /\ Present(pt) => Hop(3, f3, f4) /\ f4 \in Nat
  BY <1>4
<1>9. /\ Present(EntryFor(T, page, root, 1)) <=> Present(pdp)
      /\ Present(EntryFor(T, page, f2, 2)) <=> Present(pd)
      /\ Present(EntryFor(T, page, f3, 3)) <=> Present(pt)
  OBVIOUS
<1>10. \/ ~Present(pdp) /\ s = <<root>>
       \/ Present(pdp) /\ ~Present(pd) /\ s = <<root, f2>>
       \/ Present(pdp) /\ Present(pd) /\ ~Present(pt) /\ s = <<root, f2, f3>>
       \/ Present(pdp) /\ Present(pd) /\ Present(pt) /\ s = <<root, f2, f3, f4>>
  BY <1>5
<1>11. root \in Nat
  BY <1>1
<1> HIDE DEF pdp, pd, pt, s, f2, f3, f4
<1>12. s \in Seq(Nat) /\ Len(s) \in 1 .. 4 /\ s[1] = root
  <2>1. CASE ~Present(pdp) /\ s = <<root>>
    BY <2>1, <1>11
  <2>2. CASE Present(pdp) /\ ~Present(pd) /\ s = <<root, f2>>
    BY <2>2, <1>6, <1>11
  <2>3. CASE Present(pdp) /\ Present(pd) /\ ~Present(pt) /\ s = <<root, f2, f3>>
    BY <2>3, <1>6, <1>7, <1>11
  <2>4. CASE Present(pdp) /\ Present(pd) /\ Present(pt) /\ s = <<root, f2, f3, f4>>
    <3>1. f2 \in Nat /\ f3 \in Nat /\ f4 \in Nat
      BY <2>4, <1>6, <1>7, <1>8
    <3> QED BY <2>4, <3>1, <1>11
  <2> QED BY <2>1, <2>2, <2>3, <2>4, <1>10
<1>13. /\ 1 < Len(s) => Hop(1, s[1], s[2])
       /\ 2 < Len(s) => Hop(2, s[2], s[3])
       /\ 3 < Len(s) => Hop(3, s[3], s[4])
  <2> HIDE DEF Hop
  <2> QED BY <1>6, <1>7, <1>8, <1>10
<1>14. /\ 1 = Len(s) => ~Present(EntryFor(T, page, s[1], 1))
       /\ 2 = Len(s) => ~Present(EntryFor(T, page, s[2], 2))
       /\ 3 = Len(s) => ~Present(EntryFor(T, page, s[3], 3))
  BY <1>9, <1>10
<1>15. \A k \in 1 .. 3 : /\ k < Len(s) => Hop(k, s[k], s[k + 1])
                         /\ k = Len(s) => ~Present(EntryFor(T, page, s[k], k))
  <2> HIDE DEF Hop
  <2> TAKE k \in 1 .. 3
  <2>1. k = 1 \/ k = 2 \/ k = 3
    OBVIOUS
  <2>2. 1 + 1 = 2 /\ 2 + 1 = 3 /\ 3 + 1 = 4
    OBVIOUS
  <2> QED BY <2>1, <2>2, <1>13, <1>14
<1>16. IsPath(T, page, s)
  BY <1>12, <1>15 DEF IsPath
<1> QED BY <1>16 DEF s

(* There is no other.                                                      *)
LEMMA PathIsOne ==
  ASSUME NEW T, NEW page, NEW s, NEW u, IsPath(T, page, s), IsPath(T, page, u)
  PROVE  s = u
<1> DEFINE Same(k) == k <= Len(s) /\ k <= Len(u) /\ s[k] = u[k]
<1>1. PICK n \in 1 .. 4, m \in 1 .. 4 : n = Len(s) /\ m = Len(u)
  BY DEF IsPath
<1>2. s \in Seq(Nat) /\ u \in Seq(Nat) /\ Same(1)
  BY <1>1 DEF IsPath
<1>3. ASSUME NEW k \in 1 .. 3, Same(k), k < n \/ k < m
      PROVE  Same(k + 1)
  <2>1. k < n => /\ Present(EntryFor(T, page, s[k], k))
                 /\ s[k + 1] = EntryFor(T, page, s[k], k).frame
    BY <1>1 DEF IsPath
  <2>2. k < m => /\ Present(EntryFor(T, page, u[k], k))
                 /\ u[k + 1] = EntryFor(T, page, u[k], k).frame
    BY <1>1 DEF IsPath
  <2>3. k = n => ~Present(EntryFor(T, page, s[k], k))
    BY <1>1 DEF IsPath
  <2>4. k = m => ~Present(EntryFor(T, page, u[k], k))
    BY <1>1 DEF IsPath
  <2>5. k <= n /\ k <= m /\ s[k] = u[k]
    BY <1>1, <1>3
  <2>6. k < n /\ k < m
    BY <1>3, <2>1, <2>2, <2>3, <2>4, <2>5
  <2>7. k + 1 <= n /\ k + 1 <= m
    BY <2>6
  <2> QED BY <1>1, <2>1, <2>2, <2>5, <2>6, <2>7
<1>4. \A k \in 1 .. 4 : k <= n \/ k <= m => Same(k)
  <2> HIDE DEF Same
  <2>1. 1 < n \/ 1 < m => Same(2)
    BY <1>2, <1>3, 1 + 1 = 2, 1 \in 1 .. 3
  <2>2. Same(2) /\ (2 < n \/ 2 < m) => Same(3)
    BY <1>3, 2 + 1 = 3, 2 \in 1 .. 3
  <2>3. Same(3) /\ (3 < n \/ 3 < m) => Same(4)
    BY <1>3, 3 + 1 = 4, 3 \in 1 .. 3
  <2> TAKE k \in 1 .. 4
  <2>4. k = 1 \/ k = 2 \/ k = 3 \/ k = 4
    OBVIOUS
  <2> QED BY <1>2, <2>1, <2>2, <2>3, <2>4
<1>5. n = m
  <2>1. n <= m
    BY <1>1, <1>4
  <2>2. m <= n
    BY <1>1, <1>4
  <2> QED BY <2>1, <2>2
<1>6. \A k \in 1 .. n : s[k] = u[k]
  BY <1>4
<1> HIDE DEF Same
<1> QED BY <1>1, <1>2, <1>5, <1>6, SeqEqual

(* GetMapping is the entry at the end of a path of four tables.            *)
LEMMA MappingAtEnd ==
  ASSUME NEW T, NEW page, NEW s, s = Path(T, page), Len(s) \in 1 .. 4
  PROVE  /\ Len(s) = 4 => GetMapping(T, page) = EntryFor(T, page, s[4], 4)
         /\ Len(s) < 4 => GetMapping(T, page) = ZeroEntry
<1>1. 4 - 4 = 0
  OBVIOUS
<1> QED BY <1>1 DEF GetMapping, EntryFor

LEMMA EntryType ==
  ASSUME NEW T, NEW lev, Tree(T, lev), NEW page \in Nat, NEW k \in 1 .. 4, NEW t \in DOMAIN T
  PROVE  EntryFor(T, page, t, k) \in Entries
<1> DEFINE i == getIndizes(page)[4 - k]
<1>1. i \in Indices
  BY EntryIndex
<1> HIDE DEF i
<1>2. T[t][i] \in Entries
  BY <1>1 DEF Tree
<1> QED BY <1>2 DEF EntryFor, i

LEMMA ZeroEntryType ==
  ZeroEntry \in Entries /\ ~Present(ZeroEntry) /\ ZeroEntry.frame = 0 /\ ZeroEntry.flags = {}
BY DEF ZeroEntry, Entries, Present

LEMMA MappingType ==
  ASSUME NEW T, NEW lev, Tree(T, lev), NEW page \in Nat
  PROVE  GetMapping(T, page) \in Entries
<1> DEFINE s == Path(T, page)
<1>1. IsPath(T, page, s)
  BY PathIsPath
<1>2. Len(s) \in 1 .. 4
  BY <1>1 DEF IsPath
<1>3. Len(s) = 4 => s[4] \in DOMAIN T
  BY <1>1, PathLevels, 4 \in 1 .. 4
<1> HIDE DEF s
<1>4. CASE Len(s) = 4
  BY <1>2, <1>3, <1>4, MappingAtEnd, EntryType, 4 \in 1 .. 4 DEF s
<1>5. CASE Len(s) < 4
  BY <1>2, <1>5, MappingAtEnd, ZeroEntryType DEF s
<1>6. \A n \in 1 .. 4 : n = 4 \/ n < 4
  OBVIOUS
<1> QED BY <1>2, <1>4, <1>5, <1>6

(* No two pages have the same entry.                                       *)
LEMMA PathsApart ==
  ASSUME NEW T, NEW lev, Tree(T, lev), NEW p \in VirtualPages, NEW q \in VirtualPages,
         NEW s, IsPath(T, p, s), Len(s) = 4,
         NEW u, IsPath(T, q, u), Len(u) = 4,
         s[4] = u[4], getIndizes(p)[0] = getIndizes(q)[0]
  PROVE  p = q
<1>1. p \in Nat /\ q \in Nat
  BY RadixType DEF VirtualPages
<1> DEFINE a == getIndizes(p)
           b == getIndizes(q)
<1>2. ASSUME NEW k \in 1 .. 3, s[k + 1] = u[k + 1]
      PROVE  s[k] = u[k] /\ a[4 - k] = b[4 - k]
  <2> DEFINE i == a[4 - k]
             j == b[4 - k]
  <2>1. i \in Indices /\ j \in Indices
    BY <1>1, EntryIndex
  <2>2. /\ Present(EntryFor(T, p, s[k], k)) /\ s[k + 1] = EntryFor(T, p, s[k], k).frame
        /\ Present(EntryFor(T, q, u[k], k)) /\ u[k + 1] = EntryFor(T, q, u[k], k).frame
    <3>1. k < 4
      OBVIOUS
    <3> QED BY <3>1 DEF IsPath
  <2>3. s[k] \in DOMAIN T /\ lev[s[k]] = 4 - k /\ u[k] \in DOMAIN T /\ lev[u[k]] = 4 - k
    BY <1>1, PathLevels
  <2>4. EntryFor(T, p, s[k], k) = T[s[k]][i] /\ EntryFor(T, q, u[k], k) = T[u[k]][j]
    BY DEF EntryFor
  <2>5. 4 - k > 0
    OBVIOUS
  <2> HIDE DEF i, j
  <2>6. OneParent(T, lev)
    BY DEF Tree
  <2>7. Present(T[s[k]][i]) /\ Present(T[u[k]][j]) /\ T[s[k]][i].frame = T[u[k]][j].frame
    BY <1>2, <2>2, <2>4
  <2>8. lev[s[k]] > 0 /\ lev[u[k]] > 0
    BY <2>3, <2>5
  <2>9. s[k] = u[k] /\ i = j
    BY <2>1, <2>3, <2>6, <2>7, <2>8 DEF OneParent
  <2> QED BY <2>9 DEF i, j
<1> HIDE DEF a, b
<1>3. s[3] = u[3] /\ a[1] = b[1]
  BY <1>2, 3 \in 1 .. 3, 3 + 1 = 4, 4 - 3 = 1
<1>4. s[2] = u[2] /\ a[2] = b[2]
  BY <1>2, <1>3, 2 \in 1 .. 3, 2 + 1 = 3, 4 - 2 = 2
<1>5. a[3] = b[3]
  BY <1>2, <1>4, 1 \in 1 .. 3, 1 + 1 = 2, 4 - 1 = 3
<1>6. a[0] = b[0]
  BY DEF a, b
<1>7. \A level \in 0 .. 3 : a[level] = b[level]
  <2>1. \A level \in 0 .. 3 : level = 0 \/ level = 1 \/ level = 2 \/ level = 3
    OBVIOUS
  <2> QED BY <2>1, <1>3, <1>4, <1>5, <1>6
<1> QED BY <1>7, IndicesDiffer DEF a, b

-------------------------------------------------------------------------------
(* A missing table.                                                        *)

(* What NewTable makes of the tables.                                      *)
Planted(T, t, i, f) ==
  [g \in DOMAIN T \union {f} |->
     IF g = f THEN EmptyTable
     ELSE IF g = t THEN [T[g] EXCEPT ![i] = SetEntry(T[t][i], f, TableFlags)]
     ELSE T[g]]

PlantedAs(P, T, t, i, f) ==
  /\ DOMAIN P = DOMAIN T \union {f}
  /\ P \in [DOMAIN P -> [Indices -> Entries]]
  /\ \A j \in Indices : P[f][j] = ZeroEntry
  /\ P[t][i] = [frame |-> f, flags |-> TableFlags]
  /\ Present(P[t][i])
  /\ \A g \in DOMAIN T, j \in Indices : g # t \/ j # i => P[g][j] = T[g][j]

Levelled(T, lev, t, f) ==
  [g \in DOMAIN T \union {f} |-> IF g = f THEN lev[t] - 1 ELSE lev[g]]

LEMMA PlantedEntries ==
  ASSUME NEW T, NEW lev, Tree(T, lev), NEW t \in DOMAIN T, NEW i \in Indices,
         ~Present(T[t][i]), NEW f \in Nat \ DOMAIN T
  PROVE  PlantedAs(Planted(T, t, i, f), T, t, i, f)
<1> DEFINE P == Planted(T, t, i, f)
           entry == SetEntry(T[t][i], f, TableFlags)
<1>1. T \in [DOMAIN T -> [Indices -> Entries]] /\ T[t][i] = ZeroEntry
  BY DEF Tree
<1>2. entry = [frame |-> f, flags |-> TableFlags]
  BY <1>1, ZeroEntryType DEF SetEntry
<1>3. entry \in Entries /\ Present(entry)
  BY <1>2 DEF Entries, TableFlags, Flags, Present
<1>4. EmptyTable = [j \in Indices |-> ZeroEntry]
  BY DEF EmptyTable, Indices
<1>5. EmptyTable \in [Indices -> Entries]
  BY <1>4, ZeroEntryType
<1> HIDE DEF entry
<1>6. P = [g \in DOMAIN T \union {f} |->
             IF g = f THEN EmptyTable
             ELSE IF g = t THEN [T[g] EXCEPT ![i] = entry]
             ELSE T[g]]
  BY DEF Planted, entry
<1> HIDE DEF P
<1>7. DOMAIN P = DOMAIN T \union {f}
  BY <1>6
<1>8. P[f] = EmptyTable
  BY <1>6
<1>9. P[t] = [T[t] EXCEPT ![i] = entry]
  BY <1>6
<1>10. \A g \in DOMAIN T : g # t => P[g] = T[g]
  BY <1>6
<1>11. P[t] \in [Indices -> Entries]
  BY <1>1, <1>3, <1>9
<1>12. \A g \in DOMAIN P : P[g] \in [Indices -> Entries]
  BY <1>1, <1>5, <1>7, <1>8, <1>10, <1>11
<1>13. P \in [DOMAIN P -> [Indices -> Entries]]
  BY <1>6, <1>7, <1>12
<1>14. \A j \in Indices : P[f][j] = ZeroEntry
  BY <1>4, <1>8
<1>15. P[t][i] = entry
  BY <1>1, <1>9
<1>16. \A g \in DOMAIN T, j \in Indices : g # t \/ j # i => P[g][j] = T[g][j]
  BY <1>1, <1>9, <1>10
<1>17. PlantedAs(P, T, t, i, f)
  BY <1>2, <1>3, <1>7, <1>13, <1>14, <1>15, <1>16 DEF PlantedAs
<1> QED BY <1>17 DEF P

(* The tree has one table more.                                            *)
LEMMA PlantedTree ==
  ASSUME NEW T, NEW lev, Tree(T, lev), NEW t \in DOMAIN T, lev[t] > 0, NEW i \in Indices,
         ~Present(T[t][i]), NEW f \in Nat \ DOMAIN T
  PROVE  Tree(Planted(T, t, i, f), Levelled(T, lev, t, f))
<1> DEFINE P == Planted(T, t, i, f)
           L == Levelled(T, lev, t, f)
<1>a. PlantedAs(P, T, t, i, f)
  BY PlantedEntries
<1>1. /\ DOMAIN P = DOMAIN T \union {f}
      /\ P \in [DOMAIN P -> [Indices -> Entries]]
      /\ \A j \in Indices : P[f][j] = ZeroEntry
      /\ P[t][i] = [frame |-> f, flags |-> TableFlags]
      /\ Present(P[t][i])
      /\ \A g \in DOMAIN T, j \in Indices : g # t \/ j # i => P[g][j] = T[g][j]
  BY <1>a DEF PlantedAs
<1>2. /\ IsFiniteSet(DOMAIN T) /\ DOMAIN T \subseteq Nat
      /\ lev \in [DOMAIN T -> 0 .. 3]
      /\ root \in DOMAIN T /\ \A g \in DOMAIN T : lev[g] = 3 <=> g = root
  BY DEF Tree
<1>3. /\ \A g \in DOMAIN T : L[g] = lev[g]
      /\ L[f] = lev[t] - 1 /\ DOMAIN L = DOMAIN T \union {f}
  BY DEF Levelled
<1>4. lev[t] - 1 \in 0 .. 2 /\ lev[t] \in 1 .. 3
  BY <1>2
<1>5. L \in [DOMAIN P -> 0 .. 3]
  <2>1. L \in [DOMAIN T \union {f} -> 0 .. 3]
    BY <1>2, <1>4 DEF Levelled
  <2> QED BY <2>1, <1>1
<1> HIDE DEF P, L
<1>6. IsFiniteSet(DOMAIN P) /\ DOMAIN P \subseteq Nat
  BY <1>1, <1>2, FS_AddElement
<1>7. root \in DOMAIN P /\ \A g \in DOMAIN P : L[g] = 3 <=> g = root
  BY <1>1, <1>2, <1>3, <1>4
<1>8. ~Present(ZeroEntry)
  BY ZeroEntryType
<1>9. P[t][i].frame = f /\ P[t][i].flags = TableFlags
  BY <1>1
<1>10. ASSUME NEW g \in DOMAIN P, NEW j \in Indices, L[g] > 0, Present(P[g][j])
       PROVE  Leads(P, L, g, j)
  <2>1. g \in DOMAIN T
    BY <1>1, <1>8, <1>10
  <2>2. CASE g = t /\ j = i
    BY <2>2, <1>1, <1>3, <1>9 DEF Leads
  <2>3. CASE g # t \/ j # i
    <3>1. P[g][j] = T[g][j]
      BY <2>1, <2>3, <1>1
    <3>2. lev[g] > 0
      BY <2>1, <1>3, <1>10
    <3>3. Leads(T, lev, g, j)
      BY <2>1, <3>1, <3>2, <1>10 DEF Tree
    <3> QED BY <3>1, <3>3, <2>1, <1>1, <1>3 DEF Leads
  <2> QED BY <2>2, <2>3
<1>11. ASSUME NEW g \in DOMAIN P, NEW j \in Indices, ~Present(P[g][j])
       PROVE  P[g][j] = ZeroEntry
  <2>1. \A h \in DOMAIN T : ~Present(T[h][j]) => T[h][j] = ZeroEntry
    BY DEF Tree
  <2> QED BY <2>1, <1>1, <1>11
<1>12. OneParent(T, lev)
  BY DEF Tree
<1>13. \A g \in DOMAIN T, j \in Indices :
         lev[g] > 0 /\ Present(T[g][j]) => T[g][j].frame \in DOMAIN T
  BY DEF Tree, Leads
<1>14. ASSUME NEW g \in DOMAIN P, NEW h \in DOMAIN P, NEW j \in Indices, NEW k \in Indices,
              L[g] > 0, L[h] > 0, Present(P[g][j]), Present(P[h][k]),
              P[g][j].frame = P[h][k].frame
       PROVE  g = h /\ j = k
  <2>1. g \in DOMAIN T /\ h \in DOMAIN T /\ lev[g] > 0 /\ lev[h] > 0
    BY <1>1, <1>3, <1>8, <1>14
  <2>2. CASE (g # t \/ j # i) /\ (h # t \/ k # i)
    <3>1. P[g][j] = T[g][j] /\ P[h][k] = T[h][k]
      BY <2>1, <2>2, <1>1
    <3> QED BY <3>1, <2>1, <1>12, <1>14 DEF OneParent
  <2>3. CASE g = t /\ j = i /\ (h # t \/ k # i)
    <3>1. P[h][k] = T[h][k]
      BY <2>1, <2>3, <1>1
    <3> QED BY <3>1, <2>1, <2>3, <1>9, <1>13, <1>14
  <2>4. CASE h = t /\ k = i /\ (g # t \/ j # i)
    <3>1. P[g][j] = T[g][j]
      BY <2>1, <2>4, <1>1
    <3> QED BY <3>1, <2>1, <2>4, <1>9, <1>13, <1>14
  <2> QED BY <2>2, <2>3, <2>4
<1>15. ASSUME NEW c \in DOMAIN P \ {root}
       PROVE  \E g \in DOMAIN P, j \in Indices :
                L[g] > 0 /\ Present(P[g][j]) /\ P[g][j].frame = c
  <2>1. CASE c = f
    BY <2>1, <1>1, <1>3, <1>4, <1>9
  <2>2. CASE c \in DOMAIN T
    <3>1. PICK g \in DOMAIN T, j \in Indices :
            lev[g] > 0 /\ Present(T[g][j]) /\ T[g][j].frame = c
      BY <2>2, <1>12, <1>15 DEF OneParent
    <3>2. P[g][j] = T[g][j]
      BY <3>1, <1>1
    <3> QED BY <3>1, <3>2, <1>1, <1>3
  <2> QED BY <2>1, <2>2, <1>1, <1>15
<1>16. OneParent(P, L)
  BY <1>14, <1>15 DEF OneParent
<1>17. Tree(P, L)
  BY <1>1, <1>5, <1>6, <1>7, <1>10, <1>11, <1>16 DEF Tree
<1> QED BY <1>17 DEF P, L

(* One set of tables continues another: no table is lost, paths keep their *)
(* tables, and no page is translated differently.                          *)
PathKept(T, U, page) ==
  /\ DOMAIN Path(T, page) \subseteq DOMAIN Path(U, page)
  /\ \A k \in DOMAIN Path(T, page) : Path(U, page)[k] = Path(T, page)[k]

Continues(T, U) ==
  /\ DOMAIN T \subseteq DOMAIN U
  /\ \A page \in Nat : PathKept(T, U, page) /\ GetMapping(U, page) = GetMapping(T, page)

LEMMA ContinuesReflexive ==
  ASSUME NEW T
  PROVE  Continues(T, T)
BY DEF Continues, PathKept

LEMMA ContinuesTransitive ==
  ASSUME NEW T, NEW U, NEW V, Continues(T, U), Continues(U, V)
  PROVE  Continues(T, V)
<1>1. DOMAIN T \subseteq DOMAIN V
  BY DEF Continues
<1>2. ASSUME NEW page \in Nat
      PROVE  PathKept(T, V, page) /\ GetMapping(V, page) = GetMapping(T, page)
  <2>1. PathKept(T, U, page) /\ PathKept(U, V, page)
    BY DEF Continues
  <2>2. PathKept(T, V, page)
    BY <2>1 DEF PathKept
  <2> QED BY <2>2 DEF Continues
<1> QED BY <1>1, <1>2 DEF Continues

(* The path of a page in the planted tables: longer by the new table if it *)
(* ended where that was planted.                                           *)
Extended(s, page, t, i, f) ==
  IF Len(s) < 4 /\ s[Len(s)] = t /\ getIndizes(page)[4 - Len(s)] = i THEN Append(s, f) ELSE s

LEMMA PlantedPath ==
  ASSUME NEW T, NEW lev, Tree(T, lev), NEW t \in DOMAIN T, lev[t] > 0, NEW i \in Indices,
         ~Present(T[t][i]), NEW f \in Nat \ DOMAIN T, NEW page \in Nat
  PROVE  IsPath(Planted(T, t, i, f), page, Extended(Path(T, page), page, t, i, f))
<1> DEFINE P == Planted(T, t, i, f)
           s == Path(T, page)
           u == Extended(s, page, t, i, f)
<1>1. PlantedAs(P, T, t, i, f)
  BY PlantedEntries
<1>2. IsPath(T, page, s)
  BY PathIsPath
<1>3. \A k \in 1 .. 4 : k <= Len(s) => s[k] \in DOMAIN T /\ lev[s[k]] = 4 - k
  BY <1>2, PathLevels
<1>4. PICK n \in 1 .. 4 : Len(s) = n
  BY <1>2 DEF IsPath
<1>5. s \in Seq(Nat) /\ s[1] = root
  BY <1>2 DEF IsPath
<1>6. \A k \in 1 .. 3 : /\ k < n => /\ Present(EntryFor(T, page, s[k], k))
                                    /\ s[k + 1] = EntryFor(T, page, s[k], k).frame
                        /\ k = n => ~Present(EntryFor(T, page, s[k], k))
  BY <1>2, <1>4 DEF IsPath
<1>7. u = IF n < 4 /\ s[n] = t /\ getIndizes(page)[4 - n] = i THEN Append(s, f) ELSE s
  BY <1>4 DEF Extended
<1>a. SUFFICES IsPath(P, page, u)
  OBVIOUS
<1> HIDE DEF P, s, u
<1>8. ASSUME NEW k \in 1 .. 3, k <= n
      PROVE  /\ s[k] = t /\ getIndizes(page)[4 - k] = i =>
                  /\ EntryFor(T, page, s[k], k) = T[t][i]
                  /\ EntryFor(P, page, s[k], k) = P[t][i]
             /\ ~(s[k] = t /\ getIndizes(page)[4 - k] = i) =>
                  EntryFor(P, page, s[k], k) = EntryFor(T, page, s[k], k)
  <2>1. s[k] \in DOMAIN T
    BY <1>3, <1>4, <1>8
  <2>2. getIndizes(page)[4 - k] \in Indices
    BY EntryIndex
  <2> QED BY <1>1, <2>1, <2>2 DEF EntryFor, PlantedAs
<1>9. \A k \in 1 .. 3 : k < n => /\ Present(EntryFor(P, page, s[k], k))
                                 /\ s[k + 1] = EntryFor(P, page, s[k], k).frame
  <2> TAKE k \in 1 .. 3
  <2> HAVE k < n
  <2>1. k <= n
    OBVIOUS
  <2>2. EntryFor(P, page, s[k], k) = EntryFor(T, page, s[k], k)
    BY <1>6, <1>8, <2>1
  <2> QED BY <1>6, <2>2
<1>10. CASE ~(n < 4 /\ s[n] = t /\ getIndizes(page)[4 - n] = i)
  <2>1. u = s
    BY <1>7, <1>10
  <2>2. ASSUME NEW k \in 1 .. 3, k = n
        PROVE  ~Present(EntryFor(P, page, s[k], k))
    <3>1. EntryFor(P, page, s[k], k) = EntryFor(T, page, s[k], k)
      BY <1>8, <1>10, <2>2
    <3> QED BY <1>6, <2>2, <3>1
  <2> QED BY <1>4, <1>5, <1>9, <2>1, <2>2 DEF IsPath
<1>11. CASE n < 4 /\ s[n] = t /\ getIndizes(page)[4 - n] = i
  <2>1. u = Append(s, f)
    BY <1>7, <1>11
  <2>2. u \in Seq(Nat) /\ Len(u) = n + 1 /\ u[n + 1] = f
    BY <1>4, <1>5, <2>1
  <2>3. \A k \in 1 .. n : u[k] = s[k]
    BY <1>4, <1>5, <2>1
  <2>4. n \in 1 .. 3 /\ n <= n
    BY <1>11
  <2>5. EntryFor(P, page, s[n], n) = P[t][i]
    BY <1>8, <1>11, <2>4
  <2>6. Present(EntryFor(P, page, s[n], n)) /\ f = EntryFor(P, page, s[n], n).frame
    BY <1>1, <2>5 DEF PlantedAs
  <2>7. ASSUME NEW k \in 1 .. 3, k < n + 1
        PROVE  Present(EntryFor(P, page, u[k], k)) /\ u[k + 1] = EntryFor(P, page, u[k], k).frame
    <3>1. CASE k = n
      BY <3>1, <2>2, <2>3, <2>6
    <3>2. CASE k < n
      <4>1. k \in 1 .. n /\ k + 1 \in 1 .. n
        BY <3>2
      <4> QED BY <3>2, <4>1, <2>3, <1>9
    <3> QED BY <3>1, <3>2, <2>7
  <2>8. ASSUME NEW k \in 1 .. 3, k = n + 1
        PROVE  ~Present(EntryFor(P, page, u[k], k))
    <3>1. getIndizes(page)[4 - k] \in Indices
      BY EntryIndex
    <3>2. EntryFor(P, page, f, k) = ZeroEntry
      BY <1>1, <3>1 DEF EntryFor, PlantedAs
    <3> QED BY <3>2, <2>2, <2>8, ZeroEntryType
  <2>9. Len(u) \in 1 .. 4 /\ u[1] = root
    <3>1. n + 1 \in 1 .. 4 /\ 1 \in 1 .. n
      BY <1>11
    <3> QED BY <1>5, <2>2, <2>3, <3>1
  <2> QED BY <2>2, <2>7, <2>8, <2>9 DEF IsPath
<1> QED BY <1>10, <1>11

LEMMA PlantedContinues ==
  ASSUME NEW T, NEW lev, Tree(T, lev), NEW t \in DOMAIN T, lev[t] > 0, NEW i \in Indices,
         ~Present(T[t][i]), NEW f \in Nat \ DOMAIN T
  PROVE  /\ Continues(T, Planted(T, t, i, f))
         /\ \A page \in Nat : Path(Planted(T, t, i, f), page)
                                = Extended(Path(T, page), page, t, i, f)
<1> DEFINE P == Planted(T, t, i, f)
<1>1. PlantedAs(P, T, t, i, f)
  BY PlantedEntries
<1>2. Tree(P, Levelled(T, lev, t, f))
  BY PlantedTree
<1>3. ASSUME NEW page \in Nat
      PROVE  /\ Path(P, page) = Extended(Path(T, page), page, t, i, f)
             /\ PathKept(T, P, page) /\ GetMapping(P, page) = GetMapping(T, page)
  <2> DEFINE s == Path(T, page)
             u == Path(P, page)
  <2>1. IsPath(P, page, Extended(s, page, t, i, f))
    BY PlantedPath
  <2>2. IsPath(T, page, s) /\ IsPath(P, page, u)
    BY <1>2, PathIsPath
  <2> HIDE DEF P
  <2>3. u = Extended(s, page, t, i, f)
    <3> HIDE DEF s, u
    <3> QED BY <2>1, <2>2, PathIsOne
  <2>4. PICK n \in 1 .. 4 : Len(s) = n
    BY <2>2 DEF IsPath
  <2>5. s \in Seq(Nat) /\ Len(u) \in 1 .. 4
    BY <2>2 DEF IsPath
  <2>6. \A k \in 1 .. 4 : k <= Len(s) => s[k] \in DOMAIN T /\ lev[s[k]] = 4 - k
    BY <2>2, PathLevels
  <2>7. \/ u = s /\ Len(u) = n
        \/ n < 4 /\ u = Append(s, f) /\ Len(u) = n + 1 /\ u[n + 1] = f
    <3> HIDE DEF u, s
    <3> QED BY <2>3, <2>4, <2>5 DEF Extended
  <2>8. DOMAIN s = 1 .. n /\ DOMAIN u = 1 .. Len(u) /\ \A k \in 1 .. n : u[k] = s[k]
    <3> HIDE DEF u, s
    <3> QED BY <2>4, <2>5, <2>7
  <2>9. PathKept(T, P, page)
    <3>1. n <= Len(u)
      BY <2>7
    <3> QED BY <2>4, <2>5, <2>8, <3>1 DEF PathKept
  <2>10. Len(s) = 4 => GetMapping(T, page) = EntryFor(T, page, s[4], 4)
    BY <2>4, MappingAtEnd
  <2>11. Len(s) < 4 => GetMapping(T, page) = ZeroEntry
    BY <2>4, MappingAtEnd
  <2>12. Len(u) = 4 => GetMapping(P, page) = EntryFor(P, page, u[4], 4)
    BY <2>5, MappingAtEnd
  <2>13. Len(u) < 4 => GetMapping(P, page) = ZeroEntry
    BY <2>5, MappingAtEnd
  <2> HIDE DEF s, u
  <2>14. getIndizes(page)[4 - 4] \in Indices
    BY EntryIndex, 4 \in 1 .. 4
  <2>15. CASE n = 4
    <3>1. u = s /\ Len(u) = 4
      BY <2>7, <2>15
    <3>2. s[4] \in DOMAIN T /\ lev[s[4]] = 4 - 4
      BY <2>4, <2>6, <2>15, 4 \in 1 .. 4
    <3>3. s[4] # t
      BY <3>2
    <3>4. EntryFor(P, page, s[4], 4) = EntryFor(T, page, s[4], 4)
      BY <1>1, <2>14, <3>2, <3>3 DEF EntryFor, PlantedAs
    <3> QED BY <2>3, <2>4, <2>9, <2>10, <2>12, <2>15, <3>1, <3>4 DEF s, u
  <2>16. CASE n < 4
    <3>1. GetMapping(T, page) = ZeroEntry
      BY <2>4, <2>11, <2>16
    <3>2. GetMapping(P, page) = ZeroEntry
      <4>1. CASE Len(u) < 4
        BY <4>1, <2>13
      <4>2. CASE Len(u) = 4
        <5>1. u[4] = f
          BY <2>7, <4>2, <2>16
        <5>2. EntryFor(P, page, f, 4) = ZeroEntry
          BY <1>1, <2>14 DEF EntryFor, PlantedAs
        <5> QED BY <5>1, <5>2, <4>2, <2>12
      <4>3. \A m \in 1 .. 4 : m < 4 \/ m = 4
        OBVIOUS
      <4> QED BY <4>1, <4>2, <4>3, <2>5
    <3> QED BY <2>3, <2>9, <3>1, <3>2 DEF s, u
  <2> QED BY <2>15, <2>16
<1>4. DOMAIN T \subseteq DOMAIN P
  BY <1>1 DEF PlantedAs
<1> HIDE DEF P
<1>5. Continues(T, P)
  BY <1>3, <1>4 DEF Continues
<1> QED BY <1>3, <1>5 DEF P

-------------------------------------------------------------------------------
(* The pool.                                                               *)

(* Every word on the stack is from the start.                              *)
FromStart(p) ==
  \A k \in DOMAIN p.stack : k \in DOMAIN Locked.stack /\ p.stack[k] = Locked.stack[k]

(* The frames of a set are in use: none can be requested, and none would   *)
(* be pushed if it was freed, because its bit is clear.                    *)
Held(p, S) ==
  \A f \in S : f \in BitmapIndices(MemoryMap) /\ ~p.bitmap[f] /\ f \notin Pool(p)

LEMMA HeldSubset ==
  ASSUME NEW p, NEW S, NEW U \in SUBSET S, Held(p, S)
  PROVE  Held(p, U)
BY DEF Held

LEMMA MemoryType ==
  MemoryMap \in Seq(Descriptors) /\ memorySize \in Nat \ {0}
<1>1. MemoryMap \in Seq(Descriptors)
  BY VirtualMemoryAssumption
<1>2. memorySize \in Nat
  BY <1>1, MemoryPagesType DEF memorySize
<1>3. memorySize # 0
  BY IdentityAssumption DEF memorySize
<1> QED BY <1>1, <1>2, <1>3

(* The words of the start are addresses of pages of memory, each once.     *)
LEMMA LockedWords ==
  /\ Locked \in Allocators(MemoryMap)
  /\ \A k \in DOMAIN Locked.stack :
       /\ PageOf(Locked.stack[k]) \in BitmapIndices(MemoryMap)
       /\ PageOf(Locked.stack[k]) \in PhysicalPages
       /\ \A l \in DOMAIN Locked.stack :
            PageOf(Locked.stack[k]) = PageOf(Locked.stack[l]) => k = l
<1>1. Locked = LockPages(Constructed(MemoryMap, FALSE), KernelStart, KernelPages)
  BY DEF Locked
<1>2. MemoryPages(MemoryMap) > 0
  BY MemoryType DEF memorySize
<1>3. Locked \in Allocators(MemoryMap) /\ Words(Locked, MemoryMap)
  BY <1>1, <1>2, MemoryType, LockedStart
<1> QED BY <1>3 DEF Words, PhysicalPages, memorySize

(* What a request takes out of the pool is a page nobody has.              *)
RequestGives(p, S, f, q) ==
  /\ f \in PhysicalPages /\ f \notin S
  /\ q \in Allocators(MemoryMap) /\ FromStart(q)
  /\ Held(q, S \union {f})
  /\ Cardinality(Usable(p)) \in Nat
  /\ Cardinality(Usable(q)) = Cardinality(Usable(p)) - 1

LEMMA Requested ==
  ASSUME NEW p, p \in Allocators(MemoryMap), FromStart(p), Usable(p) # {}, NEW S, Held(p, S)
  PROVE  RequestGives(p, S, PageOf(RequestedAddress(p)), RequestPage(p))
<1> DEFINE f == PageOf(RequestedAddress(p))
           q == RequestPage(p)
<1>1. Words(p, MemoryMap)
  BY LockedWords DEF FromStart, Words, PhysicalPages, memorySize
<1>2. Takes(p, MemoryMap, f, q)
  BY <1>1, MemoryType, RequestTakes
<1> HIDE DEF f, q
<1>3. f \in Pool(p)
  BY <1>2 DEF Takes
<1>4. f \in BitmapIndices(MemoryMap) /\ ~p.bitmap[f] /\ f \in PhysicalPages
  BY <1>1, <1>3, MemoryType, PoolPages DEF PhysicalPages, memorySize
<1>5. FromStart(q)
  BY <1>2 DEF Takes, FromStart
<1>6. f \notin S
  BY <1>3 DEF Held
<1>7. Held(q, S \union {f})
  BY <1>2, <1>4 DEF Takes, Held
<1>8. RequestGives(p, S, f, q)
  BY <1>2, <1>4, <1>5, <1>6, <1>7 DEF Takes, RequestGives
<1> QED BY <1>8 DEF f, q

(* FreePage takes nothing from anybody, whatever address it is given.      *)
LEMMA FreeKeepsHeld ==
  ASSUME NEW p, p \in Allocators(MemoryMap), NEW address \in Nat, NEW S, Held(p, S)
  PROVE  FreePage(p, address) \in Allocators(MemoryMap) /\ Held(FreePage(p, address), S)
<1> DEFINE f == PageOf(address)
           q == FreePage(p, address)
<1>1. CASE ~InUse(p, f)
  <2>1. q = p
    BY <1>1 DEF FreePage
  <2> QED BY <2>1
<1>2. CASE InUse(p, f)
  <2>1. /\ p.stack \in Seq(Nat) /\ Len(p.stack) \in Nat
        /\ DOMAIN p.stack = 1 .. Len(p.stack)
        /\ p.bitmap \in [BitmapIndices(MemoryMap) -> BOOLEAN]
        /\ p.freeMemory + 1 \in Int /\ p.usedMemory - 1 \in Int
    BY LenProperties DEF Allocators
  <2>2. f \in BitmapIndices(MemoryMap) /\ p.bitmap[f]
    BY <1>2, <2>1 DEF InUse
  <2>3. Append(p.stack, address) \in Seq(Nat)
    BY <2>1
  <2>4. [p.bitmap EXCEPT ![f] = FALSE] \in [BitmapIndices(MemoryMap) -> BOOLEAN]
    BY <2>1
  <2>5. /\ Wrap(p.freeMemory + 1) \in 0 .. CounterModulus - 1
        /\ Wrap(p.usedMemory - 1) \in 0 .. CounterModulus - 1
    BY <2>1, WrapType
  <2>6. /\ q \in Allocators(MemoryMap)
        /\ q.bitmap = [p.bitmap EXCEPT ![f] = FALSE]
        /\ q.stack = Append(p.stack, address)
    BY <1>2, <2>3, <2>4, <2>5 DEF FreePage, Allocators
  <2> HIDE DEF q
  <2>7. /\ DOMAIN q.stack = 1 .. Len(p.stack) + 1
        /\ q.stack[Len(p.stack) + 1] = address
        /\ \A k \in DOMAIN p.stack : q.stack[k] = p.stack[k]
    BY <2>1, <2>6
  <2>8. \A g \in BitmapIndices(MemoryMap) : g # f => q.bitmap[g] = p.bitmap[g]
    BY <2>1, <2>6
  <2>9. DOMAIN q.bitmap = DOMAIN p.bitmap
    BY <2>1, <2>6
  <2>10. \A g \in Pool(q) : g = f \/ g \in Pool(p)
    <3>1. SUFFICES ASSUME NEW k \in Usable(q), PageOf(q.stack[k]) # f
                   PROVE  PageOf(q.stack[k]) \in Pool(p)
      BY DEF Pool
    <3>2. k \in DOMAIN p.stack
      <4>1. k \in 1 .. Len(p.stack) + 1
        BY <2>7 DEF Usable
      <4>2. k # Len(p.stack) + 1
        BY <2>7, <3>1
      <4> QED BY <2>1, <4>1, <4>2
    <3>3. q.stack[k] = p.stack[k]
      BY <2>7, <3>2
    <3>4. ~InUse(q, PageOf(q.stack[k]))
      BY DEF Usable
    <3>5. ~InUse(p, PageOf(p.stack[k]))
      BY <2>1, <2>8, <2>9, <3>1, <3>3, <3>4 DEF InUse
    <3> QED BY <3>2, <3>3, <3>5 DEF Pool, Usable
  <2>11. \A g \in S : g # f
    BY <2>2 DEF Held
  <2>12. Held(q, S)
    BY <2>8, <2>10, <2>11 DEF Held
  <2> QED BY <2>6, <2>12 DEF q
<1> QED BY <1>1, <1>2

-------------------------------------------------------------------------------
(* MapMemory.                                                              *)

(* A walk that is at the k-th table of the page's path, with pages left    *)
(* for the tables that are missing; S are frames in use that hold none.    *)
Stage(w, S, page, k) ==
  /\ w = Walk(w.pmm, w.tables, w.at)
  /\ w.pmm \in Allocators(MemoryMap) /\ FromStart(w.pmm)
  /\ \E lev : Tree(w.tables, lev)
  /\ Held(w.pmm, S \union DOMAIN w.tables) /\ S \intersect DOMAIN w.tables = {}
  /\ k <= Len(Path(w.tables, page)) /\ Path(w.tables, page)[k] = w.at
  /\ Cardinality(Usable(w.pmm)) >= 4 - Len(Path(w.tables, page))

LEMMA DescendPresent ==
  ASSUME NEW w, NEW S, NEW page \in Nat, NEW k \in 1 .. 3, Stage(w, S, page, k),
         Present(EntryFor(w.tables, page, w.at, k))
  PROVE  /\ Stage(Descend(w, getIndizes(page)[4 - k]), S, page, k + 1)
         /\ Continues(w.tables, Descend(w, getIndizes(page)[4 - k]).tables)
<1> DEFINE T == w.tables
           s == Path(T, page)
           e == EntryFor(T, page, w.at, k)
           d == Descend(w, getIndizes(page)[4 - k])
<1>1. PICK lev : Tree(T, lev)
  BY DEF Stage
<1>2. IsPath(T, page, s)
  BY <1>1, PathIsPath
<1>3. PICK n \in 1 .. 4 : Len(s) = n
  BY <1>2 DEF IsPath
<1>4. k <= n /\ s[k] = w.at
  BY <1>3 DEF Stage
<1>5. k < n /\ s[k + 1] = e.frame
  <2>1. k = n => ~Present(EntryFor(T, page, s[k], k))
    BY <1>2, <1>3 DEF IsPath
  <2>2. k < n => s[k + 1] = EntryFor(T, page, s[k], k).frame
    BY <1>2, <1>3 DEF IsPath
  <2> QED BY <1>4, <2>1, <2>2
<1>6. w = [pmm |-> w.pmm, tables |-> T, at |-> w.at]
  BY DEF Stage, Walk
<1>7. d = [w EXCEPT !.at = e.frame]
  BY DEF Descend, EntryFor
<1> HIDE DEF e
<1>8. d = [pmm |-> w.pmm, tables |-> T, at |-> e.frame]
  BY <1>6, <1>7
<1>9. d.pmm = w.pmm /\ d.tables = T /\ d.at = e.frame /\ d = Walk(d.pmm, d.tables, d.at)
  BY <1>8 DEF Walk
<1> HIDE DEF d
<1>10. k + 1 <= Len(Path(d.tables, page)) /\ Path(d.tables, page)[k + 1] = d.at
  BY <1>3, <1>5, <1>9
<1>11. Stage(d, S, page, k + 1)
  BY <1>9, <1>10 DEF Stage
<1>12. Continues(T, d.tables)
  BY <1>9, ContinuesReflexive
<1> QED BY <1>11, <1>12 DEF d

LEMMA DescendMissing ==
  ASSUME NEW w, NEW S, NEW page \in Nat, NEW k \in 1 .. 3, Stage(w, S, page, k),
         ~Present(EntryFor(w.tables, page, w.at, k))
  PROVE  /\ Stage(Descend(w, getIndizes(page)[4 - k]), S, page, k + 1)
         /\ Continues(w.tables, Descend(w, getIndizes(page)[4 - k]).tables)
<1> DEFINE T == w.tables
           t == w.at
           s == Path(T, page)
           i == getIndizes(page)[4 - k]
           f == PageOf(RequestedAddress(w.pmm))
           q == RequestPage(w.pmm)
           P == Planted(T, t, i, f)
           d == Descend(w, i)
<1>1. PICK lev : Tree(T, lev)
  BY DEF Stage
<1>2. IsPath(T, page, s)
  BY <1>1, PathIsPath
<1>3. PICK n \in 1 .. 4 : Len(s) = n
  BY <1>2 DEF IsPath
<1>4. k <= n /\ s[k] = t
  BY <1>3 DEF Stage
<1>5. k = n
  <2>1. k < n => Present(EntryFor(T, page, s[k], k))
    BY <1>2, <1>3 DEF IsPath
  <2> QED BY <1>4, <2>1
<1>6. t \in DOMAIN T /\ lev[t] = 4 - k
  BY <1>1, <1>2, <1>3, <1>4, PathLevels
<1>7. i \in Indices
  BY EntryIndex
<1>8. ~Present(T[t][i])
  BY DEF EntryFor
<1>9. Cardinality(Usable(w.pmm)) >= 4 - k
  BY <1>3, <1>5 DEF Stage
<1>10. Usable(w.pmm) # {}
  <2>1. Cardinality({}) = 0
    BY FS_EmptySet
  <2>2. 4 - k > 0
    OBVIOUS
  <2> QED BY <1>9, <2>1, <2>2
<1>11. RequestGives(w.pmm, S \union DOMAIN T, f, q)
  BY <1>10, Requested DEF Stage
<1>12. /\ f \in PhysicalPages /\ f \notin S /\ f \notin DOMAIN T
       /\ q \in Allocators(MemoryMap) /\ FromStart(q)
       /\ Held(q, (S \union DOMAIN T) \union {f})
       /\ Cardinality(Usable(w.pmm)) \in Nat
       /\ Cardinality(Usable(q)) = Cardinality(Usable(w.pmm)) - 1
  BY <1>11 DEF RequestGives
<1>13. f \in Nat \ DOMAIN T
  BY <1>12, MemoryType DEF PhysicalPages
<1>14. lev[t] > 0
  BY <1>6
<1>15. Tree(P, Levelled(T, lev, t, f))
  BY <1>1, <1>6, <1>7, <1>8, <1>13, <1>14, PlantedTree
<1>16. Continues(T, P) /\ Path(P, page) = Extended(s, page, t, i, f)
  BY <1>1, <1>6, <1>7, <1>8, <1>13, <1>14, PlantedContinues
<1>17. DOMAIN P = DOMAIN T \union {f}
  <2>1. PlantedAs(P, T, t, i, f)
    BY <1>1, <1>6, <1>7, <1>8, <1>13, <1>14, PlantedEntries
  <2> QED BY <2>1 DEF PlantedAs
<1>18. d = Walk(q, P, f)
  <2>1. d = NewTable(w, i)
    BY <1>8 DEF Descend
  <2>2. NewTable(w, i) = Walk(q, P, f)
    BY DEF NewTable, Planted, TableFlags
  <2> QED BY <2>1, <2>2
<1>19. /\ Path(P, page) = Append(s, f) /\ s \in Seq(Nat)
       /\ Len(Path(P, page)) = k + 1 /\ Path(P, page)[k + 1] = f
  <2>1. s \in Seq(Nat)
    BY <1>2 DEF IsPath
  <2>2. Extended(s, page, t, i, f) = Append(s, f)
    <3> HIDE DEF s
    <3> QED BY <1>3, <1>4, <1>5 DEF Extended
  <2> HIDE DEF s, P, f
  <2> QED BY <1>3, <1>5, <1>13, <1>16, <2>1, <2>2
<1> HIDE DEF P, q, f, i, s, d
<1>20. d.pmm = q /\ d.tables = P /\ d.at = f /\ d = Walk(d.pmm, d.tables, d.at)
  BY <1>18 DEF Walk
<1>21. Held(q, S \union DOMAIN P)
  <2>1. S \union DOMAIN P = (S \union DOMAIN T) \union {f}
    BY <1>17
  <2> QED BY <1>12, <2>1
<1>22. S \intersect DOMAIN P = {}
  <2>1. S \intersect DOMAIN T = {}
    BY DEF Stage
  <2> QED BY <1>12, <1>17, <2>1
<1>23. k + 1 <= Len(Path(P, page)) /\ Cardinality(Usable(q)) >= 4 - Len(Path(P, page))
  BY <1>9, <1>12, <1>19
<1>24. Stage(d, S, page, k + 1)
  BY <1>12, <1>15, <1>19, <1>20, <1>21, <1>22, <1>23 DEF Stage
<1> QED BY <1>16, <1>20, <1>24 DEF d, i

(* One level down.                                                         *)
LEMMA DescendStage ==
  ASSUME NEW w, NEW S, NEW page \in Nat, NEW k \in 1 .. 3, Stage(w, S, page, k)
  PROVE  /\ Stage(Descend(w, getIndizes(page)[4 - k]), S, page, k + 1)
         /\ Continues(w.tables, Descend(w, getIndizes(page)[4 - k]).tables)
BY DescendPresent, DescendMissing

(* The entry of a page is replaced.                                        *)
WithEntry(T, t, i, entry) == [T EXCEPT ![t][i] = entry]

OnlyPageChanges(T, U, page, entry) ==
  /\ \E lev : Tree(U, lev)
  /\ DOMAIN U = DOMAIN T
  /\ \A other \in Nat : Path(U, other) = Path(T, other)
  /\ GetMapping(U, page) = entry
  /\ \A other \in VirtualPages \ {page} : GetMapping(U, other) = GetMapping(T, other)

LEMMA LeafChanges ==
  ASSUME NEW T, NEW lev, Tree(T, lev), NEW page \in VirtualPages, Len(Path(T, page)) = 4,
         NEW entry \in Entries, ~Present(entry) => entry = ZeroEntry
  PROVE  OnlyPageChanges(T, WithEntry(T, Path(T, page)[4], getIndizes(page)[0], entry),
                         page, entry)
<1> DEFINE c == Path(T, page)[4]
           i == getIndizes(page)[0]
           U == WithEntry(T, c, i, entry)
<1>1. VirtualPages \subseteq Nat /\ page \in Nat
  BY RadixType DEF VirtualPages
<1>2. IsPath(T, page, Path(T, page))
  BY <1>1, PathIsPath
<1>3. c \in DOMAIN T /\ lev[c] = 4 - 4
  BY <1>1, <1>2, PathLevels, 4 \in 1 .. 4
<1>4. i \in Indices
  BY <1>1, EntryIndex, 4 \in 1 .. 4, 4 - 4 = 0
<1>5. T \in [DOMAIN T -> [Indices -> Entries]]
  BY DEF Tree
<1> HIDE DEF c, i
<1>6. /\ U \in [DOMAIN T -> [Indices -> Entries]] /\ DOMAIN U = DOMAIN T
      /\ U[c][i] = entry
      /\ \A t \in DOMAIN T, j \in Indices : t # c \/ j # i => U[t][j] = T[t][j]
  <2>1. U = [T EXCEPT ![c] = [T[c] EXCEPT ![i] = entry]]
    BY DEF WithEntry
  <2>2. T[c] \in [Indices -> Entries]
    BY <1>3, <1>5
  <2> DEFINE row == [T[c] EXCEPT ![i] = entry]
  <2>3. /\ row \in [Indices -> Entries] /\ row[i] = entry
        /\ \A j \in Indices : j # i => row[j] = T[c][j]
    BY <1>4, <2>2
  <2> HIDE DEF row
  <2>4. U = [T EXCEPT ![c] = row]
    BY <2>1 DEF row
  <2> HIDE DEF U
  <2>5. U[c] = row /\ DOMAIN U = DOMAIN T /\ \A t \in DOMAIN T : t # c => U[t] = T[t]
    BY <1>3, <1>5, <2>4
  <2>6. U \in [DOMAIN T -> [Indices -> Entries]]
    BY <1>5, <2>3, <2>4
  <2> QED BY <2>3, <2>5, <2>6
<1> HIDE DEF U
<1>7. \A t \in DOMAIN T, j \in Indices : lev[t] > 0 => U[t][j] = T[t][j]
  <2>1. ~(lev[c] > 0)
    BY <1>3
  <2> QED BY <1>6, <2>1
<1>8. Tree(U, lev)
  <2>1. /\ IsFiniteSet(DOMAIN T) /\ DOMAIN T \subseteq Nat
        /\ lev \in [DOMAIN T -> 0 .. 3]
        /\ root \in DOMAIN T /\ \A t \in DOMAIN T : lev[t] = 3 <=> t = root
    BY DEF Tree
  <2>2. \A t \in DOMAIN T, j \in Indices : ~Present(U[t][j]) => U[t][j] = ZeroEntry
    <3>1. \A t \in DOMAIN T, j \in Indices : ~Present(T[t][j]) => T[t][j] = ZeroEntry
      BY DEF Tree
    <3> QED BY <3>1, <1>6
  <2>3. \A t \in DOMAIN T, j \in Indices : lev[t] > 0 /\ Present(U[t][j]) => Leads(U, lev, t, j)
    <3>1. \A t \in DOMAIN T, j \in Indices : lev[t] > 0 /\ Present(T[t][j]) => Leads(T, lev, t, j)
      BY DEF Tree
    <3> QED BY <3>1, <1>6, <1>7 DEF Leads
  <2>4. OneParent(U, lev)
    <3>1. OneParent(T, lev)
      BY DEF Tree
    <3> QED BY <3>1, <1>6, <1>7 DEF OneParent
  <2> QED BY <2>1, <2>2, <2>3, <2>4, <1>6 DEF Tree
<1>9. ASSUME NEW other \in Nat
      PROVE  Path(U, other) = Path(T, other)
  <2> DEFINE s == Path(T, other)
             u == Path(U, other)
  <2>1. IsPath(T, other, s) /\ IsPath(U, other, u)
    BY <1>8, PathIsPath
  <2>2. \A k \in 1 .. 4 : k <= Len(s) => s[k] \in DOMAIN T /\ lev[s[k]] = 4 - k
    BY <2>1, PathLevels
  <2> HIDE DEF s, u
  <2>3. PICK n \in 1 .. 4 : Len(s) = n
    BY <2>1 DEF IsPath
  <2>4. ASSUME NEW k \in 1 .. 3, k <= n
        PROVE  EntryFor(U, other, s[k], k) = EntryFor(T, other, s[k], k)
    <3>1. s[k] \in DOMAIN T /\ lev[s[k]] = 4 - k
      BY <2>2, <2>3, <2>4
    <3>2. lev[s[k]] > 0
      BY <3>1
    <3>3. getIndizes(other)[4 - k] \in Indices
      BY EntryIndex
    <3> QED BY <1>7, <3>1, <3>2, <3>3 DEF EntryFor
  <2>5. IsPath(U, other, s)
    <3>1. \A k \in 1 .. 3 : /\ k < n => /\ Present(EntryFor(T, other, s[k], k))
                                        /\ s[k + 1] = EntryFor(T, other, s[k], k).frame
                            /\ k = n => ~Present(EntryFor(T, other, s[k], k))
      BY <2>1, <2>3 DEF IsPath
    <3>2. \A k \in 1 .. 3 : /\ k < n => /\ Present(EntryFor(U, other, s[k], k))
                                        /\ s[k + 1] = EntryFor(U, other, s[k], k).frame
                            /\ k = n => ~Present(EntryFor(U, other, s[k], k))
      <4> TAKE k \in 1 .. 3
      <4>1. CASE k <= n
        BY <4>1, <2>4, <3>1
      <4>2. CASE ~(k <= n)
        BY <4>2
      <4> QED BY <4>1, <4>2
    <3>3. s \in Seq(Nat) /\ s[1] = root
      BY <2>1 DEF IsPath
    <3> QED BY <2>3, <3>2, <3>3 DEF IsPath
  <2>6. s = u
    BY <2>1, <2>5, PathIsOne
  <2> QED BY <2>6 DEF s, u
<1>10. GetMapping(U, page) = entry
  <2> DEFINE u == Path(U, page)
  <2>1. u = Path(T, page) /\ Len(u) = 4 /\ u[4] = c
    BY <1>1, <1>9 DEF c
  <2>2. GetMapping(U, page) = EntryFor(U, page, u[4], 4)
    <3>1. Len(u) \in 1 .. 4
      BY <2>1
    <3> QED BY <2>1, <3>1, MappingAtEnd
  <2> QED BY <2>1, <2>2, <1>6, 4 - 4 = 0 DEF EntryFor, i
<1>11. ASSUME NEW other \in VirtualPages \ {page}
       PROVE  GetMapping(U, other) = GetMapping(T, other)
  <2> DEFINE s == Path(T, other)
             u == Path(U, other)
  <2>1. s = u
    BY <1>1, <1>9
  <2>2. IsPath(T, other, s)
    BY <1>1, PathIsPath
  <2>3. PICK n \in 1 .. 4 : Len(s) = n
    BY <2>2 DEF IsPath
  <2>4. /\ Len(s) = 4 => GetMapping(T, other) = EntryFor(T, other, s[4], 4)
        /\ Len(s) < 4 => GetMapping(T, other) = ZeroEntry
    BY <2>3, MappingAtEnd
  <2>5. /\ Len(u) = 4 => GetMapping(U, other) = EntryFor(U, other, u[4], 4)
        /\ Len(u) < 4 => GetMapping(U, other) = ZeroEntry
    BY <2>1, <2>3, MappingAtEnd
  <2>6. n = 4 => s[4] \in DOMAIN T
    <3>1. \A k \in 1 .. 4 : k <= Len(s) => s[k] \in DOMAIN T /\ lev[s[k]] = 4 - k
      BY <1>1, <2>2, PathLevels
    <3> HIDE DEF s
    <3> QED BY <2>3, <3>1
  <2>7. n = 4 => s[4] # c \/ getIndizes(other)[0] # i
    BY <1>2, <2>2, <2>3, PathsApart DEF c, i
  <2>8. getIndizes(other)[0] \in Indices
    BY <1>1, EntryIndex, 4 \in 1 .. 4, 4 - 4 = 0
  <2> HIDE DEF s, u
  <2>9. CASE n = 4
    <3>1. EntryFor(U, other, s[4], 4) = EntryFor(T, other, s[4], 4)
      BY <2>6, <2>7, <2>8, <2>9, <1>6, 4 - 4 = 0 DEF EntryFor
    <3> QED BY <3>1, <2>1, <2>3, <2>4, <2>5, <2>9
  <2>10. CASE n < 4
    BY <2>1, <2>3, <2>4, <2>5, <2>10
  <2> QED BY <2>9, <2>10
<1>12. OnlyPageChanges(T, U, page, entry)
  BY <1>6, <1>8, <1>9, <1>10, <1>11 DEF OnlyPageChanges
<1> QED BY <1>12 DEF U, c, i

(* What MapMemory leaves: of p and T, with S frames that hold no table.    *)
MapsOnly(T, S, page, frame, flags, p, U) ==
  /\ p \in Allocators(MemoryMap)
  /\ \E lev : Tree(U, lev)
  /\ Held(p, S \union DOMAIN U) /\ S \intersect DOMAIN U = {}
  /\ DOMAIN T \subseteq DOMAIN U
  /\ \A other \in Nat : PathKept(T, U, other)
  /\ GetMapping(U, page)
       = [frame |-> frame, flags |-> GetMapping(T, page).flags \union flags \union {"Present"}]
  /\ \A other \in VirtualPages \ {page} : GetMapping(U, other) = GetMapping(T, other)

LEMMA MapMemoryEffect ==
  ASSUME NEW p, NEW T, NEW S, NEW page \in VirtualPages, NEW frame \in Nat,
         NEW flags \in SUBSET Flags,
         Stage(Walk(p, T, root), S, page, 1)
  PROVE  MapsOnly(T, S, page, frame, flags,
                  MapMemory(Walk(p, T, root), page, frame, flags).pmm,
                  MapMemory(Walk(p, T, root), page, frame, flags).tables)
<1> DEFINE w == Walk(p, T, root)
           index == getIndizes(page)
           w1 == Descend(w, index[3])
           w2 == Descend(w1, index[2])
           w3 == Descend(w2, index[1])
           V == w3.tables
           old == V[w3.at][index[0]]
           entry == SetEntry(old, frame, flags \union {"Present"})
           U == WithEntry(V, w3.at, index[0], entry)
<1>1. page \in Nat
  BY RadixType DEF VirtualPages
<1>2. w.tables = T
  BY DEF Walk
<1>3. Stage(w, S, page, 1)
  OBVIOUS
<1> HIDE DEF w
<1>4. Stage(w1, S, page, 2) /\ Continues(T, w1.tables)
  BY <1>1, <1>2, <1>3, DescendStage, 1 \in 1 .. 3, 4 - 1 = 3, 1 + 1 = 2
<1> HIDE DEF w1
<1>5. Stage(w2, S, page, 3) /\ Continues(w1.tables, w2.tables)
  BY <1>1, <1>4, DescendStage, 2 \in 1 .. 3, 4 - 2 = 2, 2 + 1 = 3
<1> HIDE DEF w2
<1>6. Stage(w3, S, page, 4) /\ Continues(w2.tables, w3.tables)
  BY <1>1, <1>5, DescendStage, 3 \in 1 .. 3, 4 - 3 = 1, 3 + 1 = 4
<1> HIDE DEF w3
<1>7. Continues(T, V)
  <2>1. Continues(T, w2.tables)
    BY <1>4, <1>5, ContinuesTransitive
  <2> QED BY <2>1, <1>6, ContinuesTransitive
<1>8. PICK lev : Tree(V, lev)
  BY <1>6 DEF Stage
<1> DEFINE s == Path(V, page)
<1>9. IsPath(V, page, s)
  BY <1>1, <1>8, PathIsPath
<1>10. Len(s) = 4 /\ s[4] = w3.at
  <2>1. Len(s) \in 1 .. 4
    BY <1>9 DEF IsPath
  <2> QED BY <1>6, <2>1 DEF Stage
<1>11. w3.at \in DOMAIN V
  <2>1. \A k \in 1 .. 4 : k <= Len(s) => s[k] \in DOMAIN V /\ lev[s[k]] = 4 - k
    BY <1>1, <1>8, <1>9, PathLevels
  <2> HIDE DEF s
  <2> QED BY <1>10, <2>1
<1>12. old = GetMapping(V, page) /\ old = GetMapping(T, page)
  <2>1. GetMapping(V, page) = EntryFor(V, page, s[4], 4)
    <3>1. Len(s) \in 1 .. 4
      BY <1>10
    <3> QED BY <1>10, <3>1, MappingAtEnd
  <2>2. GetMapping(V, page) = GetMapping(T, page)
    BY <1>1, <1>7 DEF Continues
  <2> HIDE DEF s
  <2> QED BY <1>10, <2>1, <2>2, 4 - 4 = 0 DEF EntryFor
<1>13. old \in Entries
  BY <1>1, <1>8, <1>12, MappingType
<1> HIDE DEF old
<1>14. entry = [frame |-> frame, flags |-> old.flags \union (flags \union {"Present"})]
  BY DEF SetEntry
<1>15. entry \in Entries /\ Present(entry)
  <2>1. old.flags \in SUBSET Flags
    BY <1>13 DEF Entries
  <2> HIDE DEF entry
  <2> QED BY <1>14, <2>1 DEF Entries, Present, Flags
<1> HIDE DEF entry
<1>16. OnlyPageChanges(V, U, page, entry)
  <2>1. OnlyPageChanges(V, WithEntry(V, s[4], index[0], entry), page, entry)
    BY <1>8, <1>10, <1>15, LeafChanges
  <2> HIDE DEF s
  <2> QED BY <1>10, <2>1
<1>17. /\ MapMemory(w, page, frame, flags).pmm = w3.pmm
       /\ MapMemory(w, page, frame, flags).tables = U
  <2> DEFINE r == MapMemory(w, page, frame, flags)
  <2>1. w3 = [pmm |-> w3.pmm, tables |-> V, at |-> w3.at]
    BY <1>6 DEF Stage, Walk
  <2>2. r = [w3 EXCEPT !.tables = U, !.at = w.at]
    <3>1. r = [w3 EXCEPT !.tables[w3.at][index[0]] =
                            SetEntry(@, frame, flags \union {"Present"}),
                         !.at = w.at]
      BY DEF MapMemory, w1, w2, w3
    <3> QED BY <3>1 DEF WithEntry, entry, old
  <2> HIDE DEF r, U, V
  <2>3. r = [pmm |-> w3.pmm, tables |-> U, at |-> w.at]
    BY <2>1, <2>2
  <2> QED BY <2>3 DEF r
<1>18. /\ DOMAIN U = DOMAIN V
       /\ \A other \in Nat : Path(U, other) = Path(V, other)
       /\ GetMapping(U, page) = entry
       /\ \A other \in VirtualPages \ {page} : GetMapping(U, other) = GetMapping(V, other)
       /\ \E level : Tree(U, level)
  BY <1>16 DEF OnlyPageChanges
<1>19. VirtualPages \subseteq Nat
  BY RadixType DEF VirtualPages
<1> HIDE DEF U
<1>20. /\ DOMAIN T \subseteq DOMAIN U
       /\ \A other \in Nat : PathKept(T, U, other)
       /\ \A other \in VirtualPages \ {page} : GetMapping(U, other) = GetMapping(T, other)
  BY <1>7, <1>18, <1>19 DEF Continues, PathKept
<1>21. /\ w3.pmm \in Allocators(MemoryMap)
       /\ Held(w3.pmm, S \union DOMAIN U) /\ S \intersect DOMAIN U = {}
  <2>1. Held(w3.pmm, S \union DOMAIN V) /\ S \intersect DOMAIN V = {}
    BY <1>6 DEF Stage
  <2>2. w3.pmm \in Allocators(MemoryMap)
    BY <1>6 DEF Stage
  <2> QED BY <2>1, <2>2, <1>18
<1>22. GetMapping(U, page)
         = [frame |-> frame, flags |-> GetMapping(T, page).flags \union flags \union {"Present"}]
  BY <1>12, <1>14, <1>18
<1> DEFINE q == w3.pmm
<1> HIDE DEF q
<1>23. MapsOnly(T, S, page, frame, flags, q, U)
  BY <1>18, <1>20, <1>21, <1>22 DEF MapsOnly, q
<1> QED BY <1>17, <1>23 DEF w, q

-------------------------------------------------------------------------------
(* UnmapMemory.                                                            *)

LEMMA EmptyChainType ==
  ASSUME NEW T, NEW path
  PROVE  EmptyChain(T, path) \in 0 .. 3
<1> DEFINE Empty(j) == T[path[j]] = EmptyTable
           Chain(n) == /\ \A k \in 1 .. n : Empty(5 - k)
                       /\ n < 3 => ~Empty(4 - n)
<1> HIDE DEF Empty
<1>1. \E n \in 0 .. 3 : Chain(n)
  <2>1. CASE ~Empty(4)
    <3>1. 4 - 0 = 4 /\ 1 .. 0 = {} /\ 0 \in 0 .. 3
      OBVIOUS
    <3>2. Chain(0)
      BY <2>1, <3>1
    <3> QED BY <3>1, <3>2
  <2>2. CASE Empty(4) /\ ~Empty(3)
    <3>1. 4 - 1 = 3 /\ 5 - 1 = 4 /\ 1 \in 0 .. 3 /\ \A k \in 1 .. 1 : k = 1
      OBVIOUS
    <3>2. Chain(1)
      BY <2>2, <3>1
    <3> QED BY <3>1, <3>2
  <2>3. CASE Empty(4) /\ Empty(3) /\ ~Empty(2)
    <3>1. 4 - 2 = 2 /\ 5 - 1 = 4 /\ 5 - 2 = 3 /\ 2 \in 0 .. 3 /\ \A k \in 1 .. 2 : k = 1 \/ k = 2
      OBVIOUS
    <3>2. Chain(2)
      BY <2>3, <3>1
    <3> QED BY <3>1, <3>2
  <2>4. CASE Empty(4) /\ Empty(3) /\ Empty(2)
    <3>1. /\ 5 - 1 = 4 /\ 5 - 2 = 3 /\ 5 - 3 = 2 /\ 3 \in 0 .. 3 /\ ~(3 < 3)
          /\ \A k \in 1 .. 3 : k = 1 \/ k = 2 \/ k = 3
      OBVIOUS
    <3>2. Chain(3)
      BY <2>4, <3>1
    <3> QED BY <3>1, <3>2
  <2> QED BY <2>1, <2>2, <2>3, <2>4
<1>2. EmptyChain(T, path) = CHOOSE n \in 0 .. 3 : Chain(n)
  BY DEF EmptyChain, Empty
<1> HIDE DEF Chain
<1> QED BY <1>1, <1>2

(* Freeing tables, or what is taken for them, takes nothing from anybody.  *)
LEMMA FreeTablesKeep ==
  ASSUME NEW p, p \in Allocators(MemoryMap), NEW S, Held(p, S),
         NEW T, NEW lev, Tree(T, lev), NEW path \in Seq(Nat), Len(path) = 4
  PROVE  /\ FreeTables(p, T, path) \in Allocators(MemoryMap)
         /\ Held(FreeTables(p, T, path), S)
<1> DEFINE Sound(q) == q \in Allocators(MemoryMap) /\ Held(q, S)
           Freed(q, k) == FreeTable(q, T, path[k])
           n == EmptyChain(T, path)
<1>1. ASSUME NEW q, Sound(q), NEW k \in 1 .. 4
      PROVE  Sound(Freed(q, k))
  <2>1. path[k] \in Nat
    BY ElementOfSeq
  <2>2. GetMapping(T, path[k]).frame \in Nat
    BY <2>1, MappingType DEF Entries
  <2> QED BY <1>1, <2>2, FreeKeepsHeld DEF FreeTable
<1> DEFINE p1 == Freed(p, 4)
           p2 == Freed(p1, 3)
           p3 == Freed(p2, 2)
           f == [m \in 0 .. 3 |-> IF m = 0 THEN p ELSE IF m = 1 THEN p1
                                  ELSE IF m = 2 THEN p2 ELSE p3]
           freed[m \in 0 .. 3] == IF m = 0 THEN p ELSE FreeTable(freed[m - 1], T, path[5 - m])
<1>2. Sound(p) /\ Sound(p1) /\ Sound(p2) /\ Sound(p3)
  <2>1. Sound(p) /\ 4 \in 1 .. 4 /\ 3 \in 1 .. 4 /\ 2 \in 1 .. 4
    OBVIOUS
  <2> HIDE DEF Sound, Freed
  <2>2. Sound(p1)
    BY <1>1, <2>1
  <2> HIDE DEF p1
  <2>3. Sound(p2)
    BY <1>1, <2>1, <2>2
  <2> HIDE DEF p2
  <2>4. Sound(p3)
    BY <1>1, <2>1, <2>3
  <2> QED BY <2>1, <2>2, <2>3, <2>4
<1>3. freed[n] \in {p, p1, p2, p3}
  <2>1. \A m \in 0 .. 3 : f[m] = IF m = 0 THEN p ELSE FreeTable(f[m - 1], T, path[5 - m])
    <3>1. f[0] = p /\ f[1] = p1 /\ f[2] = p2 /\ f[3] = p3
      OBVIOUS
    <3> HIDE DEF f
    <3>2. f[1] = FreeTable(f[0], T, path[4]) /\ f[2] = FreeTable(f[1], T, path[3])
          /\ f[3] = FreeTable(f[2], T, path[2])
      BY <3>1
    <3> HIDE DEF p1, p2, p3
    <3> TAKE m \in 0 .. 3
    <3>3. m = 0 \/ m = 1 \/ m = 2 \/ m = 3
      OBVIOUS
    <3>4. 1 - 1 = 0 /\ 2 - 1 = 1 /\ 3 - 1 = 2 /\ 5 - 1 = 4 /\ 5 - 2 = 3 /\ 5 - 3 = 2
      OBVIOUS
    <3> QED BY <3>1, <3>2, <3>3, <3>4
  <2>2. f = [m \in 0 .. 3 |-> IF m = 0 THEN p ELSE FreeTable(f[m - 1], T, path[5 - m])]
    BY <2>1
  <2>3. \A m \in 0 .. 3 : f[m] \in {p, p1, p2, p3}
    OBVIOUS
  <2> HIDE DEF f
  <2>4. \E g : g = [m \in 0 .. 3 |-> IF m = 0 THEN p ELSE FreeTable(g[m - 1], T, path[5 - m])]
    BY <2>2
  <2>5. freed = [m \in 0 .. 3 |-> IF m = 0 THEN p ELSE FreeTable(freed[m - 1], T, path[5 - m])]
    BY <2>4
  <2> HIDE DEF freed, p1, p2, p3
  <2>6. freed[0] = p /\ freed[1] = FreeTable(freed[0], T, path[4])
        /\ freed[2] = FreeTable(freed[1], T, path[3]) /\ freed[3] = FreeTable(freed[2], T, path[2])
    <3>1. /\ 0 \in 0 .. 3 /\ 1 \in 0 .. 3 /\ 2 \in 0 .. 3 /\ 3 \in 0 .. 3
          /\ 1 - 1 = 0 /\ 2 - 1 = 1 /\ 3 - 1 = 2 /\ 5 - 1 = 4 /\ 5 - 2 = 3 /\ 5 - 3 = 2
      OBVIOUS
    <3> QED BY <2>5, <3>1
  <2>7. freed[1] = p1 /\ freed[2] = p2 /\ freed[3] = p3
    BY <2>6 DEF p1, p2, p3
  <2>8. n = 0 \/ n = 1 \/ n = 2 \/ n = 3
    BY EmptyChainType
  <2> HIDE DEF n
  <2> QED BY <2>6, <2>7, <2>8
<1>4. FreeTables(p, T, path) = freed[n]
  BY DEF FreeTables
<1> HIDE DEF freed, p1, p2, p3, n
<1>5. Sound(FreeTables(p, T, path))
  <2> HIDE DEF Sound
  <2> QED BY <1>2, <1>3, <1>4
<1> QED BY <1>5

(* What UnmapMemory leaves of a page that is mapped.                       *)
UnmapsOnly(T, S, page, p, U) ==
  /\ p \in Allocators(MemoryMap)
  /\ \E lev : Tree(U, lev)
  /\ Held(p, S)
  /\ DOMAIN U = DOMAIN T
  /\ \A other \in Nat : Path(U, other) = Path(T, other)
  /\ GetMapping(U, page) = ZeroEntry
  /\ \A other \in VirtualPages \ {page} : GetMapping(U, other) = GetMapping(T, other)

LEMMA UnmapMemoryEffect ==
  ASSUME NEW p, p \in Allocators(MemoryMap), NEW S, Held(p, S),
         NEW T, NEW lev, Tree(T, lev), NEW page \in VirtualPages,
         Present(GetMapping(T, page))
  PROVE  UnmapsOnly(T, S, page, UnmapMemory(Walk(p, T, root), page).pmm,
                    UnmapMemory(Walk(p, T, root), page).tables)
<1> DEFINE w == Walk(p, T, root)
           s == Path(T, page)
           U == WithEntry(T, s[4], getIndizes(page)[0], ZeroEntry)
           q == FreeTables(p, U, s)
<1>1. page \in Nat
  BY RadixType DEF VirtualPages
<1>2. IsPath(T, page, s)
  BY <1>1, PathIsPath
<1>3. s \in Seq(Nat) /\ Len(s) \in 1 .. 4
  BY <1>2 DEF IsPath
<1>4. Len(s) = 4
  <2>1. Len(s) < 4 => GetMapping(T, page) = ZeroEntry
    BY <1>3, MappingAtEnd
  <2>2. ~(Len(s) < 4)
    BY <2>1, ZeroEntryType
  <2> HIDE DEF s
  <2>3. \A n \in 1 .. 4 : n = 4 \/ n < 4
    OBVIOUS
  <2> QED BY <1>3, <2>2, <2>3
<1>5. OnlyPageChanges(T, U, page, ZeroEntry)
  BY <1>4, ZeroEntryType, LeafChanges
<1>6. UnmapMemory(w, page) = Walk(q, U, root)
  <2>1. w.tables = T /\ w.pmm = p /\ w.at = root
    BY DEF Walk
  <2>2. ~(Len(s) < 4)
    BY <1>4
  <2> HIDE DEF w
  <2>3. UnmapMemory(w, page) = IF Len(s) < 4 THEN w ELSE Walk(q, U, root)
    BY <2>1 DEF UnmapMemory, WithEntry
  <2> HIDE DEF s, q, U
  <2> QED BY <2>2, <2>3
<1>7. UnmapMemory(w, page).pmm = q /\ UnmapMemory(w, page).tables = U
  BY <1>6 DEF Walk
<1> HIDE DEF s, U, w
<1>8. PICK level : Tree(U, level)
  BY <1>5 DEF OnlyPageChanges
<1>9. q \in Allocators(MemoryMap) /\ Held(q, S)
  BY <1>3, <1>4, <1>8, FreeTablesKeep
<1> HIDE DEF q
<1>10. UnmapsOnly(T, S, page, q, U)
  BY <1>5, <1>9 DEF UnmapsOnly, OnlyPageChanges
<1> QED BY <1>7, <1>10 DEF w


-------------------------------------------------------------------------------
(* What every step keeps.                                                  *)

OwnMapped(T) == {page \in OwnPages : Present(GetMapping(T, page))}

OwnFrames(T) == {GetMapping(T, page).frame : page \in OwnMapped(T)}

(* Tables and pages of the kernel's own are in use, in frames of their own.*)
OneUse(p, T) ==
  /\ Held(p, OwnFrames(T) \union DOMAIN T)
  /\ OwnFrames(T) \intersect DOMAIN T = {}
  /\ \A page, other \in OwnMapped(T) :
       GetMapping(T, page).frame = GetMapping(T, other).frame => page = other

IdentityEntry(frame) == [frame |-> frame, flags |-> {"Present"} \union IdentityFlags]

(* The first n pages of memory are mapped to themselves, the others not.   *)
IdentityUpTo(T, n) ==
  /\ n \in 0 .. memorySize
  /\ \A frame \in PhysicalPages :
       /\ frame < n => GetMapping(T, frame) = IdentityEntry(frame)
       /\ ~(frame < n) => ~Present(GetMapping(T, frame))

Sound(p, T, n) ==
  /\ p \in Allocators(MemoryMap)
  /\ \E lev : Tree(T, lev)
  /\ OneUse(p, T)
  /\ IdentityUpTo(T, n)

Inv == Sound(pmm, tables, identityPages)

LEMMA PagesType ==
  /\ VirtualPages \subseteq Nat /\ PhysicalPages \subseteq VirtualPages
  /\ OwnPages \subseteq VirtualPages \ PhysicalPages
  /\ DevicePages \subseteq VirtualPages \ PhysicalPages
  /\ OwnPages \intersect DevicePages = {}
<1> DEFINE V == Radix * Radix * Radix * Radix
<1>1. V \in Nat
  <2>1. Radix \in Nat /\ Radix * Radix \in Nat /\ Radix * Radix * Radix \in Nat
    BY RadixType
  <2> QED BY <2>1
<1>2. VirtualPages = 0 .. V - 1
  BY DEF VirtualPages
<1>3. memorySize \in 1 .. V
  BY IdentityAssumption DEF memorySize
<1>4. OwnPages \union DevicePages \subseteq 0 .. V - 1 /\ OwnPages \intersect DevicePages = {}
  BY VirtualMemoryAssumption
<1> HIDE DEF V
<1>5. PhysicalPages \subseteq VirtualPages /\ VirtualPages \subseteq Nat
  BY <1>1, <1>2, <1>3 DEF PhysicalPages
<1>6. (OwnPages \union DevicePages) \intersect PhysicalPages = {}
  BY IdentityAssumption DEF PhysicalPages, memorySize
<1> QED BY <1>2, <1>4, <1>5, <1>6

(* A page that is not mapped has no flags.                                 *)
LEMMA AbsentIsZero ==
  ASSUME NEW T, NEW lev, Tree(T, lev), NEW page \in Nat, ~Present(GetMapping(T, page))
  PROVE  GetMapping(T, page) = ZeroEntry
<1> DEFINE s == Path(T, page)
<1>1. IsPath(T, page, s)
  BY PathIsPath
<1>2. Len(s) \in 1 .. 4
  BY <1>1 DEF IsPath
<1>3. CASE Len(s) < 4
  BY <1>2, <1>3, MappingAtEnd
<1>4. CASE Len(s) = 4
  <2>1. \A k \in 1 .. 4 : k <= Len(s) => s[k] \in DOMAIN T /\ lev[s[k]] = 4 - k
    BY <1>1, PathLevels
  <2>2. GetMapping(T, page) = EntryFor(T, page, s[4], 4)
    BY <1>2, <1>4, MappingAtEnd
  <2>3. getIndizes(page)[4 - 4] \in Indices
    BY EntryIndex, 4 \in 1 .. 4
  <2> HIDE DEF s
  <2>4. s[4] \in DOMAIN T
    BY <1>4, <2>1
  <2> QED BY <2>2, <2>3, <2>4 DEF EntryFor, Tree
<1>5. \A m \in 1 .. 4 : m < 4 \/ m = 4
  OBVIOUS
<1> HIDE DEF s
<1> QED BY <1>2, <1>3, <1>4, <1>5

(* The walk of MapMemory starts at PML4.                                   *)
LEMMA StageFirst ==
  ASSUME NEW p, p \in Allocators(MemoryMap), FromStart(p), NEW T, NEW lev, Tree(T, lev),
         NEW S, Held(p, S \union DOMAIN T), S \intersect DOMAIN T = {},
         NEW page \in Nat, Cardinality(Usable(p)) >= 4 - Len(Path(T, page))
  PROVE  Stage(Walk(p, T, root), S, page, 1)
<1> DEFINE w == Walk(p, T, root)
           s == Path(T, page)
<1>1. IsPath(T, page, s)
  BY PathIsPath
<1>2. Len(s) \in 1 .. 4 /\ s[1] = root
  BY <1>1 DEF IsPath
<1>3. w = Walk(w.pmm, w.tables, w.at) /\ w.pmm = p /\ w.tables = T /\ w.at = root
  BY DEF Walk
<1> HIDE DEF w
<1>4. 1 <= Len(s)
  <2> HIDE DEF s
  <2> QED BY <1>2
<1> QED BY <1>2, <1>3, <1>4 DEF Stage, w

(* No page but one is translated differently.                              *)
SameBut(T, U, page) ==
  \A other \in VirtualPages \ {page} : GetMapping(U, other) = GetMapping(T, other)

LEMMA OwnUntouched ==
  ASSUME NEW p, NEW T, OneUse(p, T), NEW U, NEW page \in VirtualPages \ OwnPages,
         SameBut(T, U, page), NEW q,
         Held(q, OwnFrames(T) \union DOMAIN U), OwnFrames(T) \intersect DOMAIN U = {}
  PROVE  OneUse(q, U)
<1>1. \A own \in OwnPages : GetMapping(U, own) = GetMapping(T, own)
  BY PagesType DEF SameBut
<1>2. OwnMapped(U) = OwnMapped(T)
  BY <1>1 DEF OwnMapped
<1>3. \A own \in OwnMapped(U) : GetMapping(U, own) = GetMapping(T, own)
  BY <1>1 DEF OwnMapped
<1>4. OwnFrames(U) = OwnFrames(T)
  BY <1>2, <1>3 DEF OwnFrames
<1> QED BY <1>2, <1>3, <1>4 DEF OneUse

LEMMA OwnAdded ==
  ASSUME NEW p, NEW T, OneUse(p, T), NEW U, NEW page \in OwnPages, SameBut(T, U, page),
         ~Present(GetMapping(T, page)), Present(GetMapping(U, page)), NEW q, NEW f,
         GetMapping(U, page).frame = f, f \notin OwnFrames(T),
         Held(q, OwnFrames(T) \union {f} \union DOMAIN U),
         (OwnFrames(T) \union {f}) \intersect DOMAIN U = {}
  PROVE  OneUse(q, U)
<1>1. \A own \in OwnPages \ {page} : GetMapping(U, own) = GetMapping(T, own)
  BY PagesType DEF SameBut
<1>2. OwnMapped(U) = OwnMapped(T) \union {page} /\ page \notin OwnMapped(T)
  BY <1>1 DEF OwnMapped
<1>3. \A own \in OwnMapped(T) : GetMapping(U, own) = GetMapping(T, own)
  BY <1>1, <1>2 DEF OwnMapped
<1>4. OwnFrames(U) = OwnFrames(T) \union {f}
  BY <1>2, <1>3 DEF OwnFrames
<1>5. \A own \in OwnMapped(T) : GetMapping(U, own).frame # f
  BY <1>3 DEF OwnFrames
<1>6. ASSUME NEW a \in OwnMapped(U), NEW b \in OwnMapped(U),
             GetMapping(U, a).frame = GetMapping(U, b).frame
      PROVE  a = b
  <2>1. a \in OwnMapped(T) /\ b \in OwnMapped(T) => a = b
    BY <1>3, <1>6 DEF OneUse
  <2> QED BY <1>2, <1>5, <1>6, <2>1
<1> QED BY <1>4, <1>6 DEF OneUse

LEMMA OwnRemoved ==
  ASSUME NEW p, NEW T, OneUse(p, T), NEW U, NEW page \in VirtualPages, SameBut(T, U, page),
         ~Present(GetMapping(U, page)), NEW q, DOMAIN U = DOMAIN T,
         Held(q, OwnFrames(T) \union DOMAIN T)
  PROVE  OneUse(q, U)
<1>1. \A own \in OwnPages \ {page} : GetMapping(U, own) = GetMapping(T, own)
  BY PagesType DEF SameBut
<1>2. OwnMapped(U) \subseteq OwnMapped(T) /\ page \notin OwnMapped(U)
  BY <1>1 DEF OwnMapped
<1>3. \A own \in OwnMapped(U) : GetMapping(U, own) = GetMapping(T, own)
  BY <1>1, <1>2 DEF OwnMapped
<1>4. OwnFrames(U) \subseteq OwnFrames(T)
  BY <1>2, <1>3 DEF OwnFrames
<1>5. Held(q, OwnFrames(U) \union DOMAIN U)
  BY <1>4 DEF Held
<1>6. OwnFrames(U) \intersect DOMAIN U = {}
  BY <1>4 DEF OneUse
<1>7. \A a, b \in OwnMapped(U) :
        GetMapping(U, a).frame = GetMapping(U, b).frame => a = b
  BY <1>2, <1>3 DEF OneUse
<1> QED BY <1>5, <1>6, <1>7 DEF OneUse

LEMMA IdentityUntouched ==
  ASSUME NEW T, NEW U, NEW page \in VirtualPages \ PhysicalPages, SameBut(T, U, page),
         NEW n, IdentityUpTo(T, n)
  PROVE  IdentityUpTo(U, n)
<1>1. \A frame \in PhysicalPages : GetMapping(U, frame) = GetMapping(T, frame)
  BY PagesType DEF SameBut
<1> QED BY <1>1 DEF IdentityUpTo

LEMMA IdentityOneMore ==
  ASSUME NEW T, NEW U, NEW n \in PhysicalPages, SameBut(T, U, n),
         IdentityUpTo(T, n), GetMapping(U, n) = IdentityEntry(n)
  PROVE  IdentityUpTo(U, n + 1)
<1>1. \A frame \in PhysicalPages \ {n} : GetMapping(U, frame) = GetMapping(T, frame)
  BY PagesType DEF SameBut
<1>2. memorySize \in Nat /\ n \in Nat /\ n < memorySize
  BY MemoryType DEF PhysicalPages
<1>3. n + 1 \in 0 .. memorySize
  BY <1>2
<1>4. \A frame \in PhysicalPages : frame \in Nat
  BY PagesType
<1>5. \A frame \in PhysicalPages :
        /\ frame < n + 1 => frame = n \/ frame < n
        /\ ~(frame < n + 1) => frame # n /\ ~(frame < n)
  BY <1>2, <1>4
<1> QED BY <1>1, <1>3, <1>5 DEF IdentityUpTo

-------------------------------------------------------------------------------
(* What a call makes of the tables: no table goes, and one page changes.   *)
Changes(T, U, page, entry) ==
  /\ DOMAIN T \subseteq DOMAIN U
  /\ \A other \in Nat : PathKept(T, U, other)
  /\ GetMapping(U, page) = entry
  /\ SameBut(T, U, page)

MappedEntry(T, page, frame, flags) ==
  [frame |-> frame, flags |-> GetMapping(T, page).flags \union flags \union {"Present"}]

(* MapMemory can be called: what it is given is from the start, and there  *)
(* is a page for every table that is missing.                              *)
Room(p, T, page) == FromStart(p) /\ Cardinality(Usable(p)) >= 4 - Len(Path(T, page))

LEMMA MapsChanges ==
  ASSUME NEW T, NEW S, NEW page, NEW frame, NEW flags, NEW p, NEW U,
         MapsOnly(T, S, page, frame, flags, p, U)
  PROVE  Changes(T, U, page, MappedEntry(T, page, frame, flags))
         /\ Present(GetMapping(U, page)) /\ GetMapping(U, page).frame = frame
BY DEF MapsOnly, Changes, SameBut, MappedEntry, Present

LEMMA UnmapsChanges ==
  ASSUME NEW T, NEW S, NEW page, NEW p, NEW U, UnmapsOnly(T, S, page, p, U)
  PROVE  Changes(T, U, page, ZeroEntry)
BY DEF UnmapsOnly, Changes, SameBut, PathKept

(* A page of memory is mapped to itself.                                   *)
LEMMA IdentityStep ==
  ASSUME NEW p, NEW T, NEW n \in PhysicalPages, Sound(p, T, n), Room(p, T, n),
         NEW w, w = MapMemory(Walk(p, T, root), n, n, IdentityFlags)
  PROVE  Sound(w.pmm, w.tables, n + 1) /\ Changes(T, w.tables, n, IdentityEntry(n))
<1> DEFINE S == OwnFrames(T)
           q == w.pmm
           U == w.tables
<1>1. PICK lev : Tree(T, lev)
  BY DEF Sound
<1>2. n \in VirtualPages /\ n \in Nat /\ n \notin OwnPages
  BY PagesType
<1>3. IdentityFlags \in SUBSET Flags
  BY DEF IdentityFlags, Flags
<1>4. Stage(Walk(p, T, root), S, n, 1)
  BY <1>1, <1>2, StageFirst DEF Sound, OneUse, Room
<1>5. MapsOnly(T, S, n, n, IdentityFlags, q, U)
  BY <1>2, <1>3, <1>4, MapMemoryEffect
<1> HIDE DEF q, U, S
<1>6. Changes(T, U, n, MappedEntry(T, n, n, IdentityFlags))
  BY <1>5, MapsChanges
<1>7. MappedEntry(T, n, n, IdentityFlags) = IdentityEntry(n)
  <2>1. ~Present(GetMapping(T, n))
    <3>1. ~(n < n)
      BY <1>2
    <3> QED BY <3>1 DEF Sound, IdentityUpTo
  <2>2. GetMapping(T, n).flags = {}
    BY <1>1, <1>2, <2>1, AbsentIsZero, ZeroEntryType
  <2> QED BY <2>2 DEF MappedEntry, IdentityEntry
<1>8. Changes(T, U, n, IdentityEntry(n))
  BY <1>6, <1>7
<1>9. SameBut(T, U, n) /\ GetMapping(U, n) = IdentityEntry(n)
  BY <1>8 DEF Changes
<1>10. IdentityUpTo(U, n + 1)
  BY <1>9, IdentityOneMore DEF Sound
<1>11. /\ q \in Allocators(MemoryMap) /\ \E level : Tree(U, level)
       /\ Held(q, S \union DOMAIN U) /\ S \intersect DOMAIN U = {}
  BY <1>5 DEF MapsOnly
<1>12. OneUse(q, U)
  BY <1>2, <1>9, <1>11, OwnUntouched DEF Sound, S
<1>13. Sound(q, U, n + 1)
  BY <1>10, <1>11, <1>12 DEF Sound
<1> QED BY <1>8, <1>13 DEF q, U

(* A device page is mapped.                                                *)
LEMMA DeviceStep ==
  ASSUME NEW p, NEW T, NEW n, Sound(p, T, n), NEW page \in DevicePages, Room(p, T, page),
         NEW frame \in Nat, NEW flags \in SUBSET Flags,
         NEW w, w = MapMemory(Walk(p, T, root), page, frame, flags)
  PROVE  Sound(w.pmm, w.tables, n)
         /\ Changes(T, w.tables, page, MappedEntry(T, page, frame, flags))
<1> DEFINE S == OwnFrames(T)
           q == w.pmm
           U == w.tables
<1>1. PICK lev : Tree(T, lev)
  BY DEF Sound
<1>2. page \in VirtualPages /\ page \in Nat /\ page \notin OwnPages /\ page \notin PhysicalPages
  BY PagesType
<1>3. Stage(Walk(p, T, root), S, page, 1)
  BY <1>1, <1>2, StageFirst DEF Sound, OneUse, Room
<1>4. MapsOnly(T, S, page, frame, flags, q, U)
  BY <1>2, <1>3, MapMemoryEffect
<1> HIDE DEF q, U, S
<1>5. Changes(T, U, page, MappedEntry(T, page, frame, flags))
  BY <1>4, MapsChanges
<1>6. SameBut(T, U, page)
  BY <1>5 DEF Changes
<1>7. IdentityUpTo(U, n)
  BY <1>2, <1>6, IdentityUntouched DEF Sound
<1>8. /\ q \in Allocators(MemoryMap) /\ \E level : Tree(U, level)
      /\ Held(q, S \union DOMAIN U) /\ S \intersect DOMAIN U = {}
  BY <1>4 DEF MapsOnly
<1>9. OneUse(q, U)
  BY <1>2, <1>6, <1>8, OwnUntouched DEF Sound, S
<1>10. Sound(q, U, n)
  BY <1>7, <1>8, <1>9 DEF Sound
<1> QED BY <1>5, <1>10 DEF q, U

(* A page is mapped to a frame that was requested for it.                  *)
LEMMA OwnStep ==
  ASSUME NEW p, NEW T, NEW n, Sound(p, T, n), NEW page \in OwnPages,
         ~Present(GetMapping(T, page)), FromStart(p),
         Cardinality(Usable(p)) >= 1 + (4 - Len(Path(T, page))),
         NEW flags \in SUBSET Flags, NEW f, f = PageOf(RequestedAddress(p)),
         NEW w, w = MapMemory(Walk(RequestPage(p), T, root), page, f, flags)
  PROVE  Sound(w.pmm, w.tables, n) /\ f \in PhysicalPages
         /\ Changes(T, w.tables, page, MappedEntry(T, page, f, flags))
<1> DEFINE O == OwnFrames(T)
           S == O \union {f}
           r == RequestPage(p)
           q == w.pmm
           U == w.tables
<1>1. PICK lev : Tree(T, lev)
  BY DEF Sound
<1>2. page \in VirtualPages /\ page \in Nat /\ page \notin PhysicalPages
  BY PagesType
<1>3. Len(Path(T, page)) \in 1 .. 4
  BY <1>1, <1>2, PathIsPath DEF IsPath
<1>4. Usable(p) # {}
  <2>1. Usable(p) = {} => Cardinality(Usable(p)) = 0
    BY FS_EmptySet
  <2>2. \A m \in 1 .. 4 : ~(0 >= 1 + (4 - m))
    OBVIOUS
  <2> QED BY <1>3, <2>1, <2>2
<1>5. RequestGives(p, O \union DOMAIN T, f, r)
  BY <1>4, Requested DEF Sound, OneUse
<1>6. f \in PhysicalPages /\ f \notin O /\ f \notin DOMAIN T /\ f \in Nat
  BY <1>5, PagesType DEF RequestGives
<1> HIDE DEF r, O
<1>7. Stage(Walk(r, T, root), S, page, 1)
  <2>1. r \in Allocators(MemoryMap) /\ FromStart(r)
    BY <1>5 DEF RequestGives
  <2>2. (O \union DOMAIN T) \union {f} = S \union DOMAIN T
    OBVIOUS
  <2>3. Held(r, S \union DOMAIN T)
    BY <1>5, <2>2 DEF RequestGives
  <2>4. S \intersect DOMAIN T = {}
    BY <1>6 DEF Sound, OneUse, O
  <2>5. Cardinality(Usable(r)) >= 4 - Len(Path(T, page))
    BY <1>3, <1>5 DEF RequestGives
  <2> HIDE DEF S
  <2> QED BY <1>1, <1>2, <2>1, <2>3, <2>4, <2>5, StageFirst
<1>8. MapsOnly(T, S, page, f, flags, q, U)
  <2> HIDE DEF S
  <2> QED BY <1>2, <1>6, <1>7, MapMemoryEffect DEF r
<1> HIDE DEF q, U, S
<1>9. /\ Changes(T, U, page, MappedEntry(T, page, f, flags))
      /\ Present(GetMapping(U, page)) /\ GetMapping(U, page).frame = f
  BY <1>8, MapsChanges
<1>10. SameBut(T, U, page)
  BY <1>9 DEF Changes
<1>11. IdentityUpTo(U, n)
  BY <1>2, <1>10, IdentityUntouched DEF Sound
<1>12. /\ q \in Allocators(MemoryMap) /\ \E level : Tree(U, level)
       /\ Held(q, S \union DOMAIN U) /\ S \intersect DOMAIN U = {}
  BY <1>8 DEF MapsOnly
<1>13. OneUse(q, U)
  BY <1>6, <1>9, <1>10, <1>12, OwnAdded DEF Sound, S, O
<1>14. Sound(q, U, n)
  BY <1>11, <1>12, <1>13 DEF Sound
<1> QED BY <1>6, <1>9, <1>14 DEF q, U

(* A page is unmapped; a frame that is given back after it stays in use.   *)
LEMMA UnmapStep ==
  ASSUME NEW p, NEW T, NEW n, Sound(p, T, n), NEW page \in OwnPages \union DevicePages,
         Present(GetMapping(T, page)),
         NEW w, w = UnmapMemory(Walk(p, T, root), page)
  PROVE  /\ Sound(w.pmm, w.tables, n)
         /\ \A address \in Nat : Sound(FreePage(w.pmm, address), w.tables, n)
         /\ Changes(T, w.tables, page, ZeroEntry)
<1> DEFINE S == OwnFrames(T) \union DOMAIN T
           q == w.pmm
           U == w.tables
<1>1. PICK lev : Tree(T, lev)
  BY DEF Sound
<1>2. page \in VirtualPages /\ page \notin PhysicalPages
  BY PagesType
<1>3. UnmapsOnly(T, S, page, q, U)
  BY <1>1, <1>2, UnmapMemoryEffect DEF Sound, OneUse
<1> HIDE DEF q, U, S
<1>4. Changes(T, U, page, ZeroEntry)
  BY <1>3, UnmapsChanges
<1>5. SameBut(T, U, page) /\ ~Present(GetMapping(U, page))
  BY <1>4, ZeroEntryType DEF Changes
<1>6. IdentityUpTo(U, n)
  BY <1>2, <1>5, IdentityUntouched DEF Sound
<1>7. /\ q \in Allocators(MemoryMap) /\ Held(q, S)
      /\ \E level : Tree(U, level) /\ DOMAIN U = DOMAIN T
  BY <1>3 DEF UnmapsOnly
<1>8. ASSUME NEW a, a \in Allocators(MemoryMap), Held(a, S)
      PROVE  Sound(a, U, n)
  <2>1. OneUse(a, U)
    BY <1>2, <1>5, <1>7, <1>8, OwnRemoved DEF Sound, S
  <2> QED BY <1>6, <1>7, <1>8, <2>1 DEF Sound
<1>9. \A address \in Nat : Sound(FreePage(q, address), U, n)
  BY <1>7, <1>8, FreeKeepsHeld
<1> QED BY <1>4, <1>7, <1>8, <1>9 DEF q, U

-------------------------------------------------------------------------------
(* The actions.                                                            *)

(* PML4 stays where it is, so what holds of the walk holds of the step.    *)
LEMMA SoundNext ==
  ASSUME root' = root, Sound(pmm', tables', identityPages')
  PROVE  Inv'
<1>1. \A page : GetMapping(tables, page)' = GetMapping(tables', page)
  BY DEF GetMapping, Path
<1>2. PICK lev : Tree(tables', lev)
  BY DEF Sound
<1>3. Tree(tables, lev)'
  <2>1. OneParent(tables, lev)'
    BY <1>2 DEF Tree, OneParent
  <2> QED BY <1>2, <2>1 DEF Tree, Leads
<1>4. OneUse(pmm, tables)'
  <2>1. OwnMapped(tables)' = OwnMapped(tables')
    BY <1>1 DEF OwnMapped
  <2>2. OwnFrames(tables)' = OwnFrames(tables')
    BY <1>1, <2>1 DEF OwnFrames
  <2> QED BY <1>1, <2>1, <2>2 DEF Sound, OneUse
<1>5. IdentityUpTo(tables, identityPages)'
  BY <1>1 DEF Sound, IdentityUpTo
<1> QED BY <1>3, <1>4, <1>5 DEF Inv, Sound

LEMMA MappingNext ==
  ASSUME root' = root, NEW page
  PROVE  Mapping(page)' = GetMapping(tables', page)
BY DEF Mapping, GetMapping, Path

(* A step that changes one page's entry.                                   *)
Calls(page, entry) == root' = root /\ Changes(tables, tables', page, entry)

LEMMA BootedAll ==
  ASSUME Inv
  PROVE  identityPages \in Nat /\ (~Booted => identityPages \in PhysicalPages)
<1>1. identityPages \in 0 .. memorySize /\ memorySize \in Nat
  BY MemoryType DEF Inv, Sound, IdentityUpTo
<1> QED BY <1>1 DEF Booted, PhysicalPages

LEMMA MapIdentityKeeps ==
  ASSUME Inv, MapIdentity
  PROVE  Inv' /\ Calls(identityPages, IdentityEntry(identityPages))
<1> DEFINE w == MapMemory(Walk(pmm, tables, root), identityPages, identityPages, IdentityFlags)
<1>1. /\ pmm' = w.pmm /\ tables' = w.tables /\ root' = root
      /\ identityPages' = identityPages + 1
      /\ ~Booted /\ CanTake(MissingTables(identityPages))
  BY DEF MapIdentity, Become
<1>2. Room(pmm, tables, identityPages)
  BY <1>1 DEF Room, CanTake, MissingTables, FromStart
<1> HIDE DEF w
<1>3. /\ Sound(w.pmm, w.tables, identityPages + 1)
      /\ Changes(tables, w.tables, identityPages, IdentityEntry(identityPages))
  BY <1>1, <1>2, BootedAll, IdentityStep DEF Inv, w
<1> QED BY <1>1, <1>3, SoundNext DEF Calls

LEMMA MapOwnKeeps ==
  ASSUME Inv, NEW page \in OwnPages, NEW flags \in FlagSets, MapOwn(page, flags)
  PROVE  /\ Inv'
         /\ PageOf(RequestedAddress(pmm)) \in PhysicalPages
         /\ Calls(page, MappedEntry(tables, page, PageOf(RequestedAddress(pmm)), flags))
<1> DEFINE f == PageOf(RequestedAddress(pmm))
           w == MapMemory(Walk(RequestPage(pmm), tables, root), page, f, flags)
<1>1. /\ pmm' = w.pmm /\ tables' = w.tables /\ root' = root
      /\ identityPages' = identityPages
      /\ ~Present(GetMapping(tables, page)) /\ CanTake(1 + MissingTables(page))
  BY DEF MapOwn, Become, Mapping
<1>2. /\ FromStart(pmm)
      /\ Cardinality(Usable(pmm)) >= 1 + (4 - Len(Path(tables, page)))
  BY <1>1 DEF CanTake, MissingTables, FromStart
<1>3. flags \in SUBSET Flags
  BY VirtualMemoryAssumption
<1> HIDE DEF w, f
<1>4. /\ Sound(w.pmm, w.tables, identityPages) /\ f \in PhysicalPages
      /\ Changes(tables, w.tables, page, MappedEntry(tables, page, f, flags))
  BY <1>1, <1>2, <1>3, OwnStep DEF Inv, w, f
<1> QED BY <1>1, <1>4, SoundNext DEF Calls, f

LEMMA MapDeviceKeeps ==
  ASSUME Inv, NEW page \in DevicePages, NEW frame \in DeviceFrames, NEW flags \in FlagSets,
         MapDevice(page, frame, flags)
  PROVE  Inv' /\ Calls(page, MappedEntry(tables, page, frame, flags))
<1> DEFINE w == MapMemory(Walk(pmm, tables, root), page, frame, flags)
<1>1. /\ pmm' = w.pmm /\ tables' = w.tables /\ root' = root
      /\ identityPages' = identityPages
      /\ CanTake(MissingTables(page))
  BY DEF MapDevice, Become
<1>2. Room(pmm, tables, page)
  BY <1>1 DEF Room, CanTake, MissingTables, FromStart
<1>3. flags \in SUBSET Flags /\ frame \in Nat
  BY VirtualMemoryAssumption
<1> HIDE DEF w
<1>4. /\ Sound(w.pmm, w.tables, identityPages)
      /\ Changes(tables, w.tables, page, MappedEntry(tables, page, frame, flags))
  BY <1>1, <1>2, <1>3, DeviceStep DEF Inv, w
<1> QED BY <1>1, <1>4, SoundNext DEF Calls

LEMMA UnmapOwnKeeps ==
  ASSUME Inv, NEW page \in OwnPages, UnmapOwn(page)
  PROVE  Inv' /\ Calls(page, ZeroEntry)
<1> DEFINE w == UnmapMemory(Walk(pmm, tables, root), page)
           address == Mapping(page).frame * PageSize
           v == [w EXCEPT !.pmm = FreePage(@, address)]
<1>1. /\ Present(GetMapping(tables, page)) /\ root' = root
      /\ identityPages' = identityPages
      /\ pmm' = v.pmm /\ tables' = v.tables
  BY DEF UnmapOwn, Become, Mapping
<1>2. address \in Nat
  <2>1. page \in Nat
    BY PagesType
  <2>2. Mapping(page) \in Entries
    BY <2>1, MappingType DEF Inv, Sound, Mapping
  <2>3. Mapping(page).frame \in Nat
    BY <2>2 DEF Entries
  <2> QED BY <2>3, SizesAssumption
<1>3. w = Walk(w.pmm, w.tables, w.at)
  BY DEF UnmapMemory, Walk
<1> HIDE DEF w, address
<1>4. v.pmm = FreePage(w.pmm, address) /\ v.tables = w.tables
  BY <1>3 DEF Walk
<1> HIDE DEF v
<1>5. /\ \A a \in Nat : Sound(FreePage(w.pmm, a), w.tables, identityPages)
      /\ Changes(tables, w.tables, page, ZeroEntry)
  BY <1>1, UnmapStep DEF Inv, w
<1>6. Sound(pmm', tables', identityPages')
  BY <1>1, <1>2, <1>4, <1>5
<1> QED BY <1>1, <1>4, <1>5, <1>6, SoundNext DEF Calls

LEMMA UnmapDeviceKeeps ==
  ASSUME Inv, NEW page \in DevicePages, UnmapDevice(page)
  PROVE  Inv' /\ Calls(page, ZeroEntry)
<1> DEFINE w == UnmapMemory(Walk(pmm, tables, root), page)
<1>1. /\ Present(GetMapping(tables, page)) /\ root' = root
      /\ identityPages' = identityPages
      /\ pmm' = w.pmm /\ tables' = w.tables
  BY DEF UnmapDevice, Become, Mapping
<1> HIDE DEF w
<1>2. Sound(w.pmm, w.tables, identityPages) /\ Changes(tables, w.tables, page, ZeroEntry)
  BY <1>1, UnmapStep DEF Inv, w
<1> QED BY <1>1, <1>2, SoundNext DEF Calls

-------------------------------------------------------------------------------
(* The invariant.                                                          *)

LEMMA InitKeeps ==
  ASSUME Init
  PROVE  Inv /\ \A page \in Nat : Mapping(page) = ZeroEntry
<1> DEFINE f == PageOf(RequestedAddress(Locked))
           lev == [t \in {root} |-> 3]
<1>1. /\ root = f /\ pmm = RequestPage(Locked) /\ identityPages = 0
      /\ tables = [t \in {root} |-> EmptyTable]
  BY DEF Init, PML4
<1>2. RequestGives(Locked, {}, f, RequestPage(Locked))
  <2>1. Locked \in Allocators(MemoryMap) /\ FromStart(Locked) /\ Held(Locked, {})
    BY LockedWords DEF FromStart, Held
  <2> QED BY <2>1, StartAssumption, Requested
<1> HIDE DEF f
<1>3. pmm \in Allocators(MemoryMap) /\ Held(pmm, {root}) /\ root \in Nat
  BY <1>1, <1>2, PagesType DEF RequestGives
<1>4. \A i \in Indices : tables[root][i] = ZeroEntry
  BY <1>1 DEF EmptyTable, Indices
<1>5. DOMAIN tables = {root} /\ tables \in [{root} -> [Indices -> Entries]]
  BY <1>1, ZeroEntryType DEF EmptyTable, Indices
<1>6. Tree(tables, lev)
  <2>1. lev \in [{root} -> 0 .. 3] /\ lev[root] = 3
    OBVIOUS
  <2> HIDE DEF lev
  <2>2. OneParent(tables, lev)
    BY <1>4, <1>5, ZeroEntryType DEF OneParent
  <2>3. IsFiniteSet(DOMAIN tables)
    BY <1>5, FS_Singleton
  <2> QED BY <1>3, <1>4, <1>5, <2>1, <2>2, <2>3, ZeroEntryType DEF Tree
<1>7. ASSUME NEW page \in Nat
      PROVE  GetMapping(tables, page) = ZeroEntry
  <2>1. getIndizes(page)[3] \in Indices
    BY IndicesType, 3 \in 0 .. 3
  <2>2. Path(tables, page) = <<root>>
    BY <1>4, <2>1, ZeroEntryType DEF Path
  <2> QED BY <2>2 DEF GetMapping
<1>8. OneUse(pmm, tables)
  <2>1. OwnMapped(tables) = {}
    BY <1>7, PagesType, ZeroEntryType DEF OwnMapped
  <2>2. OwnFrames(tables) = {}
    BY <2>1 DEF OwnFrames
  <2> QED BY <1>3, <1>5, <2>1, <2>2 DEF OneUse
<1>9. IdentityUpTo(tables, identityPages)
  BY <1>1, <1>7, PagesType, MemoryType, ZeroEntryType DEF IdentityUpTo, PhysicalPages
<1> QED BY <1>3, <1>6, <1>7, <1>8, <1>9 DEF Inv, Sound, Mapping

(* What Calls says of a step, whichever action it is.                      *)
StepChanges ==
  \/ \E entry : Calls(identityPages, entry) /\ identityPages \in PhysicalPages
  \/ \E page \in OwnPages \union DevicePages :
       \/ Calls(page, ZeroEntry)
       \/ \E frame \in DeviceFrames \union PhysicalPages, flags \in FlagSets :
            Calls(page, MappedEntry(tables, page, frame, flags))

LEMMA NextKeeps ==
  ASSUME Inv, Next
  PROVE  Inv' /\ StepChanges
<1>1. CASE MapIdentity
  <2>1. ~Booted
    BY <1>1 DEF MapIdentity
  <2> QED BY <1>1, <2>1, MapIdentityKeeps, BootedAll DEF StepChanges
<1>2. ASSUME NEW page \in OwnPages, NEW flags \in FlagSets, MapOwn(page, flags)
      PROVE  Inv' /\ StepChanges
  BY <1>2, MapOwnKeeps DEF StepChanges
<1>3. ASSUME NEW page \in DevicePages, NEW frame \in DeviceFrames, NEW flags \in FlagSets,
             MapDevice(page, frame, flags)
      PROVE  Inv' /\ StepChanges
  BY <1>3, MapDeviceKeeps DEF StepChanges
<1>4. ASSUME NEW page \in OwnPages, UnmapOwn(page)
      PROVE  Inv' /\ StepChanges
  BY <1>4, UnmapOwnKeeps DEF StepChanges
<1>5. ASSUME NEW page \in DevicePages, UnmapDevice(page)
      PROVE  Inv' /\ StepChanges
  BY <1>5, UnmapDeviceKeeps DEF StepChanges
<1> QED BY <1>1, <1>2, <1>3, <1>4, <1>5 DEF Next

LEMMA StutterKeeps ==
  ASSUME Inv, UNCHANGED vars
  PROVE  Inv'
BY SoundNext DEF Inv, vars

(* After any sequence of calls of MapMemory and UnmapMemory, by the boot   *)
(* code and the kernel's mappings: the tables are a tree, tables and the   *)
(* pages mapped to frames of their own are in frames of their own that no  *)
(* request gives out, and the identity map is as far as it has come.       *)
THEOREM Invariance == Spec => []Inv
<1>1. Init => Inv
  BY InitKeeps
<1>2. Inv /\ [Next]_vars => Inv'
  BY NextKeeps, StutterKeeps
<1> QED BY <1>1, <1>2, PTL DEF Spec

-------------------------------------------------------------------------------
(* What the runs check follows from it.                                    *)

Level(T, lev, n) == {t \in DOMAIN T : lev[t] = n}

(* The entries of a level and the tables of the next are one to one.       *)
LEMMA LevelBelow ==
  ASSUME NEW lev, Tree(tables, lev), NEW n \in 1 .. 3
  PROVE  /\ Children(Level(tables, lev, n)) = Level(tables, lev, n - 1)
         /\ Cardinality(Links(Level(tables, lev, n)))
              = Cardinality(Children(Level(tables, lev, n)))
<1> DEFINE S == Level(tables, lev, n)
           L == Links(S)
           C == Children(S)
           to == [x \in L |-> tables[x[1]][x[2]].frame]
<1>1. \A x \in L : /\ x = <<x[1], x[2]>> /\ x[1] \in DOMAIN tables /\ x[2] \in Indices
                   /\ lev[x[1]] = n /\ Present(tables[x[1]][x[2]])
  BY DEF Links, Level, Indices
<1>2. \A t \in DOMAIN tables, i \in Indices :
        lev[t] = n /\ Present(tables[t][i]) => <<t, i>> \in L
  BY DEF Links, Level, Indices
<1>3. C = {tables[x[1]][x[2]].frame : x \in L}
  BY DEF Children
<1>4. /\ n > 0 /\ n - 1 # 3 /\ n \in Int
      /\ \A t \in DOMAIN tables : lev[t] \in Int
  BY DEF Tree
<1> HIDE DEF L, C
<1>5. C \subseteq Level(tables, lev, n - 1)
  BY <1>1, <1>3, <1>4 DEF Tree, Leads, Level
<1>6. Level(tables, lev, n - 1) \subseteq C
  <2> SUFFICES ASSUME NEW c \in DOMAIN tables, lev[c] = n - 1
               PROVE  c \in C
    BY DEF Level
  <2>1. c # root
    BY <1>4 DEF Tree
  <2>2. PICK t \in DOMAIN tables, i \in Indices :
          lev[t] > 0 /\ Present(tables[t][i]) /\ tables[t][i].frame = c
    BY <2>1 DEF Tree, OneParent
  <2>3. lev[c] = lev[t] - 1
    BY <2>2 DEF Tree, Leads
  <2>4. lev[t] = n
    BY <1>4, <2>3
  <2>5. <<t, i>> \in L
    BY <1>2, <2>2, <2>4
  <2> QED BY <1>3, <2>2, <2>5
<1>7. IsFiniteSet(L)
  <2>1. IsFiniteSet(DOMAIN tables)
    BY DEF Tree
  <2>2. S \in SUBSET DOMAIN tables
    BY DEF Level
  <2>3. IsFiniteSet(S)
    BY <2>1, <2>2, FS_Subset
  <2>4. IsFiniteSet(0 .. Radix - 1)
    BY RadixType, FS_Interval, 0 \in Int, Radix - 1 \in Int
  <2>5. IsFiniteSet(S \X (0 .. Radix - 1))
    BY <2>3, <2>4, FS_Product
  <2>6. L \in SUBSET (S \X (0 .. Radix - 1))
    BY DEF L, Links
  <2> QED BY <2>5, <2>6, FS_Subset
<1>8. \A x, y \in L : tables[x[1]][x[2]].frame = tables[y[1]][y[2]].frame => x = y
  <2> SUFFICES ASSUME NEW x \in L, NEW y \in L,
                      tables[x[1]][x[2]].frame = tables[y[1]][y[2]].frame
               PROVE  x = y
    OBVIOUS
  <2>1. \A t, u \in DOMAIN tables, i, j \in Indices :
          /\ lev[t] > 0 /\ lev[u] > 0
          /\ Present(tables[t][i]) /\ Present(tables[u][j])
          /\ tables[t][i].frame = tables[u][j].frame
          => t = u /\ i = j
    BY DEF Tree, OneParent
  <2>2. x[1] = y[1] /\ x[2] = y[2]
    BY <1>1, <1>4, <2>1
  <2> QED BY <1>1, <2>2
<1>9. to \in Surjection(L, C) /\ to \in Injection(L, C)
  BY <1>3, <1>8 DEF Surjection, Injection, IsInjective
<1> HIDE DEF to
<1>10. Cardinality(C) = Cardinality(L)
  BY <1>7, <1>9, FS_Surjection
<1> QED BY <1>5, <1>6, <1>10 DEF L, C

LEMMA TreeLevels ==
  ASSUME NEW lev, Tree(tables, lev)
  PROVE  /\ {root} = Level(tables, lev, 3) /\ PDPs = Level(tables, lev, 2)
         /\ PDs = Level(tables, lev, 1) /\ PTs = Level(tables, lev, 0)
<1>1. {root} = Level(tables, lev, 3)
  BY DEF Tree, Level
<1>2. PDPs = Level(tables, lev, 2)
  BY <1>1, LevelBelow, 3 \in 1 .. 3, 3 - 1 = 2 DEF PDPs
<1>3. PDs = Level(tables, lev, 1)
  BY <1>2, LevelBelow, 2 \in 1 .. 3, 2 - 1 = 1 DEF PDs
<1>4. PTs = Level(tables, lev, 0)
  BY <1>3, LevelBelow, 1 \in 1 .. 3, 1 - 1 = 0 DEF PTs
<1> QED BY <1>1, <1>2, <1>3, <1>4

LEMMA DisjointUnion ==
  ASSUME NEW A, NEW B, IsFiniteSet(A), IsFiniteSet(B), A \intersect B = {}
  PROVE  /\ IsFiniteSet(A \union B)
         /\ Cardinality(A \union B) = Cardinality(A) + Cardinality(B)
<1>1. Cardinality(A \cap B) = 0
  BY FS_EmptySet
<1>2. Cardinality(A) \in Nat /\ Cardinality(B) \in Nat
  BY FS_CardinalityType
<1>3. /\ IsFiniteSet(A \cup B)
      /\ Cardinality(A \cup B) = Cardinality(A) + Cardinality(B) - Cardinality(A \cap B)
  BY FS_Union
<1> QED BY <1>1, <1>2, <1>3

LEMMA TreeIsTree ==
  ASSUME NEW lev, Tree(tables, lev)
  PROVE  TablesFormTree
<1> DEFINE L(n) == Level(tables, lev, n)
<1>1. /\ {root} = L(3) /\ PDPs = L(2) /\ PDs = L(1) /\ PTs = L(0)
      /\ PDPs = Children({root}) /\ PDs = Children(PDPs) /\ PTs = Children(PDs)
  BY TreeLevels DEF PDPs, PDs, PTs
<1>2. \A n \in 1 .. 3 : Cardinality(Links(L(n))) = Cardinality(Children(L(n)))
  BY LevelBelow
<1>3. \A n \in 0 .. 3 : IsFiniteSet(L(n)) /\ Cardinality(L(n)) \in Nat
  BY FS_Subset, FS_CardinalityType DEF Tree, Level
<1>4. DOMAIN tables = L(3) \union L(2) \union L(1) \union L(0)
  <2>1. \A t \in DOMAIN tables : lev[t] = 3 \/ lev[t] = 2 \/ lev[t] = 1 \/ lev[t] = 0
    BY DEF Tree
  <2> QED BY <2>1 DEF Level
<1>5. /\ L(3) \intersect L(2) = {} /\ (L(3) \union L(2)) \intersect L(1) = {}
      /\ (L(3) \union L(2) \union L(1)) \intersect L(0) = {}
  BY DEF Tree, Level
<1> HIDE DEF L
<1>6. /\ IsFiniteSet(L(3)) /\ IsFiniteSet(L(2)) /\ IsFiniteSet(L(1)) /\ IsFiniteSet(L(0))
      /\ Cardinality(L(3)) \in Nat /\ Cardinality(L(2)) \in Nat
      /\ Cardinality(L(1)) \in Nat /\ Cardinality(L(0)) \in Nat
  BY <1>3, 0 \in 0 .. 3, 1 \in 0 .. 3, 2 \in 0 .. 3, 3 \in 0 .. 3
<1>7. Cardinality(DOMAIN tables)
        = Cardinality(L(3)) + Cardinality(L(2)) + Cardinality(L(1)) + Cardinality(L(0))
  <2>1. /\ IsFiniteSet(L(3) \union L(2))
        /\ Cardinality(L(3) \union L(2)) = Cardinality(L(3)) + Cardinality(L(2))
    BY <1>5, <1>6, DisjointUnion
  <2>2. /\ IsFiniteSet(L(3) \union L(2) \union L(1))
        /\ Cardinality(L(3) \union L(2) \union L(1))
             = Cardinality(L(3)) + Cardinality(L(2)) + Cardinality(L(1))
    BY <1>5, <1>6, <2>1, DisjointUnion
  <2>3. Cardinality(L(3) \union L(2) \union L(1) \union L(0))
          = Cardinality(L(3)) + Cardinality(L(2)) + Cardinality(L(1)) + Cardinality(L(0))
    BY <1>5, <1>6, <2>2, DisjointUnion
  <2> QED BY <1>4, <2>3
<1>8. Cardinality(L(3)) = 1
  BY <1>1, FS_Singleton
<1>9. /\ Cardinality(Links(L(3))) = Cardinality(Children(L(3)))
      /\ Cardinality(Links(L(2))) = Cardinality(Children(L(2)))
      /\ Cardinality(Links(L(1))) = Cardinality(Children(L(1)))
  BY <1>2, 1 \in 1 .. 3, 2 \in 1 .. 3, 3 \in 1 .. 3
<1> QED BY <1>1, <1>4, <1>7, <1>8, <1>9 DEF TablesFormTree

LEMMA TablesAreWellFormed ==
  ASSUME Inv
  PROVE  TablesWellFormed
<1>1. PICK lev : Tree(tables, lev)
  BY DEF Inv, Sound
<1>2. TypeOK
  BY <1>1 DEF Inv, Sound, TypeOK, Tree, Indices, Entries
<1> QED BY <1>1, <1>2, TreeIsTree DEF TablesWellFormed

LEMMA FramesAreApart ==
  ASSUME Inv
  PROVE  FramesHaveOneUse
<1>1. OneUse(pmm, tables)
  BY DEF Inv, Sound
<1>2. Available = Pool(pmm) /\ MappedOwnPages = OwnMapped(tables)
  BY DEF Available, Pool, MappedOwnPages, OwnMapped, Mapping
<1>3. \A page : Mapping(page) = GetMapping(tables, page)
  BY DEF Mapping
<1>4. \A page \in OwnMapped(tables) : GetMapping(tables, page).frame \in OwnFrames(tables)
  BY DEF OwnFrames
<1> QED BY <1>1, <1>2, <1>3, <1>4 DEF OneUse, Held, FramesHaveOneUse

LEMMA IdentityIsKept ==
  ASSUME Inv
  PROVE  IdentityMapIsKept
<1>1. IdentityMapIntact
  <2>1. IdentityUpTo(tables, identityPages) /\ memorySize \in Nat
    BY MemoryType DEF Inv, Sound
  <2>2. \A frame \in 0 .. identityPages - 1 : frame \in PhysicalPages /\ frame < identityPages
    BY <2>1 DEF IdentityUpTo, PhysicalPages
  <2> QED BY <2>1, <2>2 DEF IdentityUpTo, IdentityEntry, IdentityMapIntact, Mapping
<1>2. SupervisorOnly
  <2>1. PICK lev : Tree(tables, lev)
    BY DEF Inv, Sound
  <2>2. ASSUME NEW page \in OwnPages \union DevicePages \union PhysicalPages,
               Len(Path(tables, page)) = 4
        PROVE  "UserSupper" \notin tables[Path(tables, page)[1]][getIndizes(page)[4 - 1]].flags
    <3> DEFINE s == Path(tables, page)
    <3>1. page \in Nat
      BY PagesType
    <3>2. IsPath(tables, page, s)
      BY <2>1, <3>1, PathIsPath
    <3>3. 1 < 4 /\ 1 \in 1 .. 3 /\ 1 \in 1 .. 4 /\ 1 <= 4
      OBVIOUS
    <3>4. s[1] \in DOMAIN tables /\ lev[s[1]] = 4 - 1
      BY <2>1, <2>2, <3>1, <3>2, <3>3, PathLevels
    <3>5. Present(EntryFor(tables, page, s[1], 1))
      BY <2>2, <3>2, <3>3 DEF IsPath
    <3> HIDE DEF s
    <3>6. EntryFor(tables, page, s[1], 1).flags = TableFlags
      BY <2>1, <3>1, <3>3, <3>4, <3>5, EntryLeads
    <3> QED BY <3>6 DEF EntryFor, TableFlags, s
  <2> QED BY <2>2, 1 \in 1 .. 4 DEF SupervisorOnly
<1> QED BY <1>1, <1>2 DEF IdentityMapIsKept

(* The tables are a tree of four levels, every table entered once, and     *)
(* none is lost (MapMemory, UnmapMemory and GetMapping walk it).           *)
THEOREM WellFormedTables == Spec => []TablesWellFormed
<1>1. Inv => TablesWellFormed
  BY TablesAreWellFormed
<1> QED BY <1>1, Invariance, PTL

(* No frame that holds a table is mapped to a page of the kernel's own or  *)
(* can be requested, and no two of those pages share one.                  *)
THEOREM OneUseOfFrames == Spec => []FramesHaveOneUse
<1>1. Inv => FramesHaveOneUse
  BY FramesAreApart
<1> QED BY <1>1, Invariance, PTL

(* Every page of physical memory mapped so far stays mapped to itself with *)
(* the flags it was given, and no page is open to user mode.               *)
THEOREM IdentityMapKept == Spec => []IdentityMapIsKept
<1>1. Inv => IdentityMapIsKept
  BY IdentityIsKept
<1> QED BY <1>1, Invariance, PTL

-------------------------------------------------------------------------------
(* The tables implement a map of pages.                                    *)

LEMMA CallsUnmap ==
  ASSUME NEW page \in OwnPages \union DevicePages, Calls(page, ZeroEntry)
  PROVE  Translations!Unmap(page)
<1>1. \A other \in OwnPages \union DevicePages : other \in VirtualPages
  BY PagesType
<1> QED BY <1>1, MappingNext
        DEF Calls, Changes, SameBut, Mapping, Translations!Unmap, Translations!OnlyChanges

LEMMA CallsMap ==
  ASSUME NEW page \in OwnPages \union DevicePages, NEW frame, NEW flags,
         Calls(page, MappedEntry(tables, page, frame, flags))
  PROVE  /\ Translations!Map(page, frame, flags)
         /\ Mapping(page)'.frame = frame
<1>1. \A other \in OwnPages \union DevicePages : other \in VirtualPages
  BY PagesType
<1>2. Mapping(page)' = MappedEntry(tables, page, frame, flags)
  BY MappingNext DEF Calls, Changes
<1> QED BY <1>1, <1>2, MappingNext
        DEF Calls, Changes, SameBut, Mapping, MappedEntry,
            Translations!Map, Translations!OnlyChanges

(* A step of the tables is a step of the map, or changes none of its pages.*)
LEMMA StepMaps ==
  ASSUME Inv, StepChanges
  PROVE  \/ Translations!Next
         \/ \A page \in OwnPages \union DevicePages : Mapping(page)' = Mapping(page)
<1>1. CASE \E entry : Calls(identityPages, entry) /\ identityPages \in PhysicalPages
  <2>1. \A page \in OwnPages \union DevicePages : page \in VirtualPages \ {identityPages}
    BY <1>1, PagesType
  <2> QED BY <1>1, <2>1, MappingNext DEF Calls, Changes, SameBut, Mapping
<1>2. ASSUME NEW page \in OwnPages \union DevicePages, Calls(page, ZeroEntry)
      PROVE  Translations!Next
  BY <1>2, CallsUnmap DEF Translations!Next
<1>3. ASSUME NEW page \in OwnPages \union DevicePages,
             NEW frame \in DeviceFrames \union PhysicalPages, NEW flags \in FlagSets,
             Calls(page, MappedEntry(tables, page, frame, flags))
      PROVE  Translations!Next
  <2>1. Translations!Map(page, frame, flags) /\ Mapping(page)'.frame = frame
    BY <1>3, CallsMap
  <2> QED BY <2>1 DEF Translations!Next
<1> QED BY <1>1, <1>2, <1>3 DEF StepChanges

LEMMA UnchangedMappings ==
  ASSUME UNCHANGED vars
  PROVE  \A page : Mapping(page)' = Mapping(page)
BY DEF vars, Mapping, GetMapping, Path

(* Each call makes the change it was asked for.                            *)
LEMMA StepMatches ==
  ASSUME Inv
  PROVE  /\ \A page \in OwnPages :
              /\ UnmapOwn(page) => Translations!Unmap(page)
              /\ \A flags \in FlagSets :
                   MapOwn(page, flags) =>
                     Translations!Map(page, PageOf(RequestedAddress(pmm)), flags)
         /\ \A page \in DevicePages :
              /\ UnmapDevice(page) => Translations!Unmap(page)
              /\ \A frame \in DeviceFrames, flags \in FlagSets :
                   MapDevice(page, frame, flags) => Translations!Map(page, frame, flags)
<1>1. ASSUME NEW page \in OwnPages, UnmapOwn(page)
      PROVE  Translations!Unmap(page)
  BY <1>1, UnmapOwnKeeps, CallsUnmap
<1>2. ASSUME NEW page \in OwnPages, NEW flags \in FlagSets, MapOwn(page, flags)
      PROVE  Translations!Map(page, PageOf(RequestedAddress(pmm)), flags)
  BY <1>2, MapOwnKeeps, CallsMap
<1>3. ASSUME NEW page \in DevicePages, UnmapDevice(page)
      PROVE  Translations!Unmap(page)
  BY <1>3, UnmapDeviceKeeps, CallsUnmap
<1>4. ASSUME NEW page \in DevicePages, NEW frame \in DeviceFrames, NEW flags \in FlagSets,
             MapDevice(page, frame, flags)
      PROVE  Translations!Map(page, frame, flags)
  BY <1>4, MapDeviceKeeps, CallsMap
<1> QED BY <1>1, <1>2, <1>3, <1>4

TablesKept ==
  /\ DOMAIN tables \subseteq DOMAIN tables'
  /\ \A page \in OwnPages \union DevicePages :
       \A k \in DOMAIN Path(tables, page) :
         /\ k \in DOMAIN Path(tables', page)
         /\ Path(tables', page)[k] = Path(tables, page)[k]

LEMMA StepKeepsTables ==
  ASSUME StepChanges
  PROVE  TablesKept
<1>1. PICK page, entry : Calls(page, entry)
  BY DEF StepChanges
<1>2. DOMAIN tables \subseteq DOMAIN tables' /\ \A other \in Nat : PathKept(tables, tables', other)
  BY <1>1 DEF Calls, Changes
<1>3. OwnPages \union DevicePages \subseteq Nat
  BY PagesType
<1> QED BY <1>2, <1>3 DEF TablesKept, PathKept

(* Seen through GetMapping the four levels are one map of pages: a call    *)
(* changes the entry of its page, as it was asked to, and no other; and a  *)
(* table, once entered, stays where it is (VirtualMemoryManager.cpp:7-100).*)
THEOREM ImplementsAddressMap == Spec => KeepsAddressMap
<1>1. Init => Translations!Init
  BY InitKeeps, PagesType DEF Translations!Init
<1>2. Inv /\ [Next]_vars
        => [Translations!Next]_([page \in OwnPages \union DevicePages |-> Mapping(page)])
  BY NextKeeps, StepMaps, UnchangedMappings
<1>3. Spec => RefinesAddressMap
  BY <1>1, <1>2, Invariance, PTL DEF Spec, RefinesAddressMap, Translations!Spec
<1>4. Inv /\ [Next]_vars
        => [/\ \A page \in OwnPages :
                 /\ UnmapOwn(page) => Translations!Unmap(page)
                 /\ \A flags \in FlagSets :
                      MapOwn(page, flags) =>
                        Translations!Map(page, PageOf(RequestedAddress(pmm)), flags)
            /\ \A page \in DevicePages :
                 /\ UnmapDevice(page) => Translations!Unmap(page)
                 /\ \A frame \in DeviceFrames, flags \in FlagSets :
                      MapDevice(page, frame, flags) =>
                        Translations!Map(page, frame, flags)]_vars
  BY StepMatches
<1>5. Spec => CallsMatchAddressMap
  BY <1>4, Invariance, PTL DEF Spec, CallsMatchAddressMap
<1>6. Inv /\ [Next]_vars
        => [/\ DOMAIN tables \subseteq DOMAIN tables'
            /\ \A page \in OwnPages \union DevicePages :
                 \A k \in DOMAIN Path(tables, page) :
                   /\ k \in DOMAIN Path(tables', page)
                   /\ Path(tables', page)[k] = Path(tables, page)[k]]_vars
  BY NextKeeps, StepKeepsTables DEF TablesKept
<1>7. Spec => TablesStay
  BY <1>6, Invariance, PTL DEF Spec, TablesStay
<1> QED BY <1>3, <1>5, <1>7 DEF KeepsAddressMap
===============================================================================
