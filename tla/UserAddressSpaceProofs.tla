------------------------ MODULE UserAddressSpaceProofs -------------------------
(***************************************************************************)
(* Whatever the sizes of tables and regions are: processes see the kernel's*)
(* image and heap for ever, and nothing of each other.                     *)
(***************************************************************************)
EXTENDS UserAddressSpace, FiniteSetTheorems, TLAPS

Entries == [Indices -> 0 .. requested]

Types ==
  /\ requested \in Nat /\ EntriesPerTable <= requested
  /\ kernel \in Entries
  /\ DOMAIN spaces \subseteq Users
  /\ \A u \in DOMAIN spaces : spaces[u] \in Entries

(* Two entries of the kernel lead to different tables, and those _start    *)
(* and main map at are there from the begin.                               *)
KernelEntries ==
  /\ \A i, j \in Indices : kernel[i] = kernel[j] /\ kernel[i] # Absent => i = j
  /\ \A i \in BootIndices : kernel[i] # Absent

KernelIsCopied ==
  \A u \in DOMAIN spaces : \A i \in ImageAndHeap : spaces[u][i] = kernel[i]

(* What a process did not map itself it has from the kernel, ...           *)
CopiedEntries ==
  \A u \in DOMAIN spaces : \A i \in Indices :
    spaces[u][i] # Absent /\ i \notin UserIndices =>
      i \in Copied /\ spaces[u][i] = kernel[i]

(* ... and what it mapped itself nobody else has.                          *)
OwnEntries ==
  \A u \in DOMAIN spaces : \A i \in UserIndices :
    spaces[u][i] # Absent =>
      /\ \A j \in Indices : kernel[j] # spaces[u][i]
      /\ \A v \in DOMAIN spaces : \A j \in Indices :
           spaces[v][j] = spaces[u][i] => v = u /\ j = i

IInv == Types /\ KernelEntries /\ CopiedEntries /\ OwnEntries /\ KernelIsCopied

-------------------------------------------------------------------------------
(* Facts about the constants.                                              *)
LEMMA Regions ==
  /\ Indices \subseteq Nat /\ EntriesPerTable \in Nat
  /\ UserIndices \subseteq Indices /\ BootIndices \subseteq Indices
  /\ KernelIndices \subseteq Indices
  /\ ImageAndHeap \subseteq BootIndices
  /\ ImageAndHeap \subseteq Copied
  /\ \A i \in Copied : i >= PLM4KernelVASStartIndex
  /\ \A i \in UserIndices : i \notin Copied /\ i \notin BootIndices \union KernelIndices
<1>1. /\ Indices \subseteq Nat /\ EntriesPerTable \in Nat
      /\ UserIndices \subseteq Indices /\ BootIndices \subseteq Indices
      /\ KernelIndices \subseteq Indices
      /\ ImageAndHeap \subseteq BootIndices
  BY MemoryLayoutAssumption DEF Indices
<1>2. (EntriesPerTable - PLM4KernelVASStartIndex) \div EntryBytes \in Int
  BY MemoryLayoutAssumption DEF Indices
<1>3. ImageAndHeap \subseteq Copied
  <2> SUFFICES ASSUME NEW i \in ImageAndHeap PROVE i \in Copied
    OBVIOUS
  <2>1. i \in Int
    BY <1>1
  <2> QED
    BY <2>1, <1>2, HeapIsCopied, MemoryLayoutAssumption DEF Copied, Indices
<1>4. \A i \in Copied : i \in Int /\ i >= PLM4KernelVASStartIndex
  BY <1>2, MemoryLayoutAssumption DEF Copied, Indices
<1>5. \A i \in UserIndices : i \notin Copied /\ i \notin BootIndices \union KernelIndices
  BY <1>1, <1>4, MemoryLayoutAssumption DEF Indices
<1> QED
  BY <1>1, <1>3, <1>4, <1>5

LEMMA InitIInv == SpacesInit => IInv
<1> SUFFICES ASSUME SpacesInit PROVE IInv
  OBVIOUS
<1> USE DEF SpacesInit, Absent
<1>1. \A i \in Indices : i + 1 \in 1 .. EntriesPerTable
  BY Regions DEF Indices
<1>2. Types
  BY <1>1, Regions DEF Types, Entries
<1>3. KernelEntries
  BY <1>1, Regions DEF KernelEntries
<1>4. CopiedEntries /\ OwnEntries /\ KernelIsCopied
  BY DEF CopiedEntries, OwnEntries, KernelIsCopied
<1> QED
  BY <1>2, <1>3, <1>4 DEF IInv

-------------------------------------------------------------------------------
LEMMA KernelMapsIInv ==
  ASSUME IInv, NEW i \in BootIndices \union KernelIndices, KernelMaps(i)
  PROVE  IInv'
<1> USE DEF Absent, Fresh
<1>1. i \in Indices /\ i \notin UserIndices
  BY Regions
<1>2. /\ kernel' = [kernel EXCEPT ![i] = IF kernel[i] = 0 THEN requested + 1 ELSE kernel[i]]
      /\ requested' = IF kernel[i] = 0 THEN requested + 1 ELSE requested
      /\ spaces' = spaces
  BY DEF KernelMaps, Mapped, Take, IInv, Types, Entries
<1>3. CASE kernel[i] # 0
  <2>1. kernel' = kernel /\ requested' = requested
    BY <1>2, <1>3 DEF IInv, Types, Entries
  <2> QED
    BY <2>1, <1>2 DEF IInv, Types, Entries, KernelEntries, CopiedEntries, OwnEntries,
                      KernelIsCopied, Indices
<1>4. CASE kernel[i] = 0
  <2>1. /\ requested' = requested + 1
        /\ kernel'[i] = requested + 1
        /\ \A j \in Indices \ {i} : kernel'[j] = kernel[j]
        /\ \A j \in Indices : kernel[j] \in 0 .. requested
        /\ \A u \in DOMAIN spaces : \A j \in Indices : spaces[u][j] \in 0 .. requested
        /\ requested \in Nat
    BY <1>1, <1>2, <1>4 DEF IInv, Types, Entries
  <2>2. Types'
    <3>1. requested' \in Nat /\ EntriesPerTable <= requested'
      BY <2>1, Regions DEF IInv, Types
    <3>2. kernel' \in Entries'
      BY <1>2, <2>1 DEF IInv, Types, Entries, Indices
    <3>3. \A u \in DOMAIN spaces : spaces[u] \in Entries'
      <4>1. \A u \in DOMAIN spaces : spaces[u] \in [Indices -> 0 .. requested]
        BY DEF IInv, Types, Entries
      <4>2. 0 .. requested \subseteq 0 .. requested'
        BY <2>1
      <4> QED
        BY <4>1, <4>2 DEF Entries, Indices
    <3>4. DOMAIN spaces \subseteq Users
      BY DEF IInv, Types
    <3> QED
      BY <1>2, <3>1, <3>2, <3>3, <3>4 DEF Types
  <2>3. KernelEntries'
    <3>1. \A j \in Indices \ {i} : kernel'[j] = kernel[j] /\ kernel'[j] # kernel'[i]
      BY <2>1
    <3>2. kernel'[i] # 0
      BY <2>1
    <3>3. BootIndices \subseteq Indices
      BY Regions
    <3> QED
      BY <1>1, <3>1, <3>2, <3>3 DEF IInv, KernelEntries
  <2>4. CopiedEntries'
    BY <1>1, <1>2, <1>4, <2>1 DEF IInv, CopiedEntries, Indices, Copied
  <2>5. OwnEntries'
    <3> SUFFICES ASSUME NEW u \in DOMAIN spaces, NEW k \in UserIndices, spaces[u][k] # 0
                 PROVE  /\ \A j \in Indices : kernel'[j] # spaces[u][k]
                        /\ \A v \in DOMAIN spaces : \A j \in Indices :
                             spaces[v][j] = spaces[u][k] => v = u /\ j = k
      BY <1>2 DEF OwnEntries, Indices
    <3>1. spaces[u][k] \in 0 .. requested
      BY <2>1, Regions
    <3> QED
      BY <1>1, <2>1, <3>1 DEF IInv, OwnEntries
  <2>6. KernelIsCopied'
    BY <1>2, <1>4, <2>1, Regions DEF IInv, KernelIsCopied, KernelEntries
  <2> QED
    BY <2>2, <2>3, <2>4, <2>5, <2>6 DEF IInv
<1> QED
  BY <1>3, <1>4

LEMMA UserMapsIInv ==
  ASSUME IInv, NEW u \in Users, NEW i \in UserIndices, UserMaps(u, i)
  PROVE  IInv'
<1> USE DEF Absent, Fresh
<1>1. i \in Indices /\ i \notin Copied /\ u \in DOMAIN spaces /\ i \notin ImageAndHeap
  BY Regions DEF UserMaps
<1>2. /\ DOMAIN spaces' = DOMAIN spaces
      /\ \A v \in DOMAIN spaces \ {u} : spaces'[v] = spaces[v]
      /\ spaces'[u] = [spaces[u] EXCEPT ![i] = IF @ = 0 THEN requested + 1 ELSE @]
      /\ requested' = IF spaces[u][i] = 0 THEN requested + 1 ELSE requested
      /\ kernel' = kernel
  BY <1>1 DEF UserMaps, Mapped, Take
<1>3. /\ spaces[u] \in Entries
      /\ \A v \in DOMAIN spaces : \A j \in Indices : spaces[v][j] \in 0 .. requested
      /\ \A j \in Indices : kernel[j] \in 0 .. requested
      /\ requested \in Nat
  BY <1>1 DEF IInv, Types, Entries
<1>4. \A j \in Indices \ {i} : spaces'[u][j] = spaces[u][j]
  BY <1>2, <1>3 DEF Entries
<1>5. spaces'[u][i] = IF spaces[u][i] = 0 THEN requested + 1 ELSE spaces[u][i]
  BY <1>1, <1>2, <1>3 DEF Entries
<1>6. Types'
  <2>1. requested' \in Nat /\ requested <= requested'
    BY <1>2, <1>3
  <2>2. \A v \in DOMAIN spaces : spaces'[v] \in [Indices -> 0 .. requested']
    <3> SUFFICES ASSUME NEW v \in DOMAIN spaces PROVE spaces'[v] \in [Indices -> 0 .. requested']
      OBVIOUS
    <3>1. CASE v # u
      BY <1>2, <1>3, <2>1, <3>1 DEF IInv, Types, Entries
    <3>2. CASE v = u
      BY <1>2, <1>3, <1>4, <1>5, <2>1, <3>2 DEF Entries
    <3> QED
      BY <3>1, <3>2
  <2>3. kernel' \in [Indices -> 0 .. requested']
    BY <1>2, <1>3, <2>1 DEF IInv, Types, Entries
  <2>4. EntriesPerTable <= requested'
    BY <1>3, <2>1, Regions DEF IInv, Types
  <2> QED
    BY <1>2, <2>1, <2>2, <2>3, <2>4 DEF IInv, Types, Entries, Indices
<1>7. KernelEntries'
  BY <1>2 DEF IInv, KernelEntries, Indices
<1>8. CopiedEntries'
  <2> SUFFICES ASSUME NEW v \in DOMAIN spaces, NEW k \in Indices,
                      spaces'[v][k] # 0, k \notin UserIndices
               PROVE  k \in Copied /\ spaces'[v][k] = kernel[k]
    BY <1>2 DEF CopiedEntries, Indices, Copied
  <2>1. spaces'[v][k] = spaces[v][k]
    BY <1>2, <1>4
  <2> QED
    BY <2>1 DEF IInv, CopiedEntries
<1>9. OwnEntries'
  <2> SUFFICES ASSUME NEW w \in DOMAIN spaces, NEW k \in UserIndices, spaces'[w][k] # 0
               PROVE  /\ \A j \in Indices : kernel[j] # spaces'[w][k]
                      /\ \A v \in DOMAIN spaces : \A j \in Indices :
                           spaces'[v][j] = spaces'[w][k] => v = w /\ j = k
    BY <1>2 DEF OwnEntries, Indices
  <2>0. k \in Indices
    BY Regions
  <2>1. \A v \in DOMAIN spaces : \A j \in Indices :
          ~(v = u /\ j = i) => spaces'[v][j] = spaces[v][j]
    BY <1>2, <1>4
  <2>2. CASE spaces[u][i] # 0
    <3>1. \A v \in DOMAIN spaces : \A j \in Indices : spaces'[v][j] = spaces[v][j]
      BY <1>5, <2>1, <2>2
    <3> QED
      BY <2>0, <3>1 DEF IInv, OwnEntries
  <2>3. CASE spaces[u][i] = 0 /\ w = u /\ k = i
    <3>1. spaces'[w][k] = requested + 1
      BY <1>5, <2>3
    <3>2. \A j \in Indices : kernel[j] # requested + 1
      BY <1>3
    <3>3. \A v \in DOMAIN spaces : \A j \in Indices : spaces[v][j] # requested + 1
      BY <1>3
    <3> QED
      BY <2>1, <2>3, <3>1, <3>2, <3>3
  <2>4. CASE spaces[u][i] = 0 /\ ~(w = u /\ k = i)
    <3>1. spaces'[w][k] = spaces[w][k] /\ spaces[w][k] # 0 /\ spaces[w][k] # requested + 1
      BY <1>3, <2>0, <2>1, <2>4
    <3>2. spaces'[u][i] = requested + 1
      BY <1>5, <2>4
    <3> QED
      BY <2>1, <3>1, <3>2 DEF IInv, OwnEntries
  <2> QED
    BY <2>2, <2>3, <2>4
<1>10. KernelIsCopied'
  <2> SUFFICES ASSUME NEW v \in DOMAIN spaces, NEW k \in ImageAndHeap
               PROVE  spaces'[v][k] = kernel[k]
    BY <1>2 DEF KernelIsCopied
  <2>1. k \in Indices /\ k # i
    BY <1>1, Regions
  <2>2. spaces'[v][k] = spaces[v][k]
    BY <1>2, <1>4, <2>1
  <2> QED
    BY <2>2 DEF IInv, KernelIsCopied
<1> QED
  BY <1>6, <1>7, <1>8, <1>9, <1>10 DEF IInv

LEMMA NewUserVASIInv ==
  ASSUME IInv, NEW u \in Users, newUserVAS(u)
  PROVE  IInv'
<1> USE DEF Absent, Fresh
<1> DEFINE copy == [i \in Indices |-> IF i \in Copied THEN kernel[i] ELSE 0]
<1>1. /\ u \notin DOMAIN spaces
      /\ DOMAIN spaces' = DOMAIN spaces \union {u}
      /\ \A v \in DOMAIN spaces : spaces'[v] = spaces[v]
      /\ spaces'[u] = copy
      /\ requested' = requested + 1 /\ kernel' = kernel
  BY DEF newUserVAS, Take
<1>2. /\ \A j \in Indices : kernel[j] \in 0 .. requested
      /\ requested \in Nat
  BY DEF IInv, Types, Entries
<1>3. Types'
  <2>1. copy \in [Indices -> 0 .. requested + 1]
    BY <1>2
  <2>2. \A v \in DOMAIN spaces : spaces[v] \in [Indices -> 0 .. requested + 1]
    BY <1>2 DEF IInv, Types, Entries
  <2> QED
    BY <1>1, <1>2, <2>1, <2>2, Regions DEF IInv, Types, Entries, Indices
<1>4. KernelEntries'
  BY <1>1 DEF IInv, KernelEntries, Indices
<1>5. CopiedEntries'
  <2> SUFFICES ASSUME NEW w \in DOMAIN spaces \union {u}, NEW k \in Indices,
                      spaces'[w][k] # 0, k \notin UserIndices
               PROVE  k \in Copied /\ spaces'[w][k] = kernel[k]
    BY <1>1 DEF CopiedEntries, Indices, Copied
  <2>1. CASE w = u
    BY <1>1, <2>1
  <2>2. CASE w \in DOMAIN spaces
    BY <1>1, <2>2 DEF IInv, CopiedEntries
  <2> QED
    BY <2>1, <2>2
<1>6. OwnEntries'
  <2> SUFFICES ASSUME NEW w \in DOMAIN spaces \union {u}, NEW k \in UserIndices,
                      spaces'[w][k] # 0
               PROVE  /\ \A j \in Indices : kernel[j] # spaces'[w][k]
                      /\ \A v \in DOMAIN spaces \union {u} : \A j \in Indices :
                           spaces'[v][j] = spaces'[w][k] => v = w /\ j = k
    BY <1>1 DEF OwnEntries, Indices
  <2>1. k \in Indices /\ k \notin Copied
    BY Regions
  <2>2. w \in DOMAIN spaces
    BY <1>1, <2>1
  <2>3. /\ \A j \in Indices : kernel[j] # spaces[w][k]
        /\ \A v \in DOMAIN spaces : \A j \in Indices :
             spaces[v][j] = spaces[w][k] => v = w /\ j = k
    BY <1>1, <2>2 DEF IInv, OwnEntries
  <2>4. \A j \in Indices : spaces'[u][j] # spaces'[w][k]
    BY <1>1, <2>2, <2>3
  <2> QED
    BY <1>1, <2>2, <2>3, <2>4
<1>7. KernelIsCopied'
  BY <1>1, Regions DEF IInv, KernelIsCopied
<1> QED
  BY <1>3, <1>4, <1>5, <1>6, <1>7 DEF IInv

LEMMA NextIInv == IInv /\ [SpacesNext]_userSpaces => IInv'
<1> SUFFICES ASSUME IInv, [SpacesNext]_userSpaces PROVE IInv'
  OBVIOUS
<1>1. ASSUME NEW i \in BootIndices \union KernelIndices, KernelMaps(i) PROVE IInv'
  BY <1>1, KernelMapsIInv
<1>2. ASSUME NEW u \in Users, newUserVAS(u) PROVE IInv'
  BY <1>2, NewUserVASIInv
<1>3. ASSUME NEW u \in Users, NEW i \in UserIndices, UserMaps(u, i) PROVE IInv'
  BY <1>3, UserMapsIInv
<1>4. CASE UNCHANGED userSpaces
  BY <1>4 DEF userSpaces, IInv, Types, Entries, KernelEntries, CopiedEntries, OwnEntries,
              KernelIsCopied, Indices, Copied
<1> QED
  BY <1>1, <1>2, <1>3, <1>4 DEF SpacesNext

LEMMA Inductive == SpacesSpec => []IInv
<1> QED
  BY InitIInv, NextIInv, PTL DEF SpacesSpec

-------------------------------------------------------------------------------
(* Every table was asked for once: those of the kernel's further entries,  *)
(* the PML4 of every process, and those below the entries it mapped.       *)
KernelsOwn == {i \in KernelIndices \ BootIndices : kernel[i] # Absent}

OwnPairs(D, maps) == {x \in D \X UserIndices : maps[x[1]][x[2]] # Absent}

UsersOwn == OwnPairs(DOMAIN spaces, spaces)

Requests ==
  requested = EntriesPerTable
    + (Cardinality(KernelsOwn) + (Cardinality(DOMAIN spaces) + Cardinality(UsersOwn)))

LEMMA PairParts ==
  ASSUME NEW S, NEW T, NEW x \in S \X T
  PROVE  x[1] \in S /\ x[2] \in T /\ x = <<x[1], x[2]>>
<1> QED
  OBVIOUS

LEMMA PairIsIn ==
  ASSUME NEW S, NEW T, NEW v \in S, NEW j \in T
  PROVE  <<v, j>> \in S \X T /\ <<v, j>>[1] = v /\ <<v, j>>[2] = j
<1> QED
  OBVIOUS

LEMMA PairsGrow ==
  ASSUME NEW S, NEW T, NEW R, S \subseteq R
  PROVE  S \X T \subseteq R \X T
<1> SUFFICES ASSUME NEW x \in S \X T PROVE x \in R \X T
  OBVIOUS
<1>1. x[1] \in R /\ x[2] \in T /\ x = <<x[1], x[2]>>
  BY PairParts
<1> QED
  BY <1>1

(* Two sets of pairs are the same if they hold the same pairs.             *)
LEMMA SamePairs ==
  ASSUME NEW A, NEW B, NEW S, NEW T, A \subseteq S \X T, B \subseteq S \X T,
         \A v \in S, j \in T : <<v, j>> \in A <=> <<v, j>> \in B
  PROVE  A = B
<1>1. \A x \in S \X T : x \in A <=> x \in B
  <2> SUFFICES ASSUME NEW v \in S, NEW j \in T PROVE <<v, j>> \in A <=> <<v, j>> \in B
    OBVIOUS
  <2> QED
    OBVIOUS
<1> QED
  BY <1>1

LEMMA OwnPairsMembers ==
  ASSUME NEW D, NEW maps, NEW v \in D, NEW j \in UserIndices
  PROVE  <<v, j>> \in OwnPairs(D, maps) <=> maps[v][j] # Absent
<1> QED
  BY PairIsIn DEF OwnPairs

LEMMA OwnPairsType ==
  ASSUME NEW D, NEW maps, NEW R, D \subseteq R
  PROVE  OwnPairs(D, maps) \subseteq R \X UserIndices
<1>1. D \X UserIndices \subseteq R \X UserIndices
  BY PairsGrow
<1> QED
  BY <1>1 DEF OwnPairs

(* Maps that agree where both have an address space, and have nothing of   *)
(* their own elsewhere, hold the same pairs.                               *)
LEMMA SameOwnPairs ==
  ASSUME NEW D, NEW E, NEW maps, NEW after, D \subseteq E,
         \A v \in D, j \in UserIndices : after[v][j] # Absent <=> maps[v][j] # Absent,
         \A v \in E \ D, j \in UserIndices : after[v][j] = Absent
  PROVE  OwnPairs(E, after) = OwnPairs(D, maps)
<1>1. /\ OwnPairs(E, after) \subseteq E \X UserIndices
      /\ OwnPairs(D, maps) \subseteq E \X UserIndices
  BY OwnPairsType
<1>2. ASSUME NEW v \in E, NEW j \in UserIndices
      PROVE  <<v, j>> \in OwnPairs(E, after) <=> <<v, j>> \in OwnPairs(D, maps)
  <2>1. <<v, j>> \in OwnPairs(E, after) <=> after[v][j] # Absent
    BY OwnPairsMembers
  <2>2. CASE v \in D
    BY <2>1, <2>2, OwnPairsMembers
  <2>3. CASE v \notin D
    <3>1. <<v, j>> \notin OwnPairs(D, maps)
      <4>1. ASSUME <<v, j>> \in D \X UserIndices PROVE v \in D
        BY <4>1
      <4> QED
        BY <2>3, <4>1 DEF OwnPairs
    <3> QED
      BY <2>1, <2>3, <3>1
  <2> QED
    BY <2>2, <2>3
<1> DEFINE A == OwnPairs(E, after)
           B == OwnPairs(D, maps)
<1>3. /\ A \subseteq E \X UserIndices /\ B \subseteq E \X UserIndices
      /\ \A v \in E, j \in UserIndices : <<v, j>> \in A <=> <<v, j>> \in B
  BY <1>1, <1>2
<1> HIDE DEF A, B
<1>4. A = B
  BY <1>3, SamePairs
<1> QED
  BY <1>4 DEF A, B

LEMMA OneMoreOwnPair ==
  ASSUME NEW D, NEW maps, NEW after, NEW u \in D, NEW i \in UserIndices,
         \A v \in D, j \in UserIndices :
           after[v][j] # Absent <=> (maps[v][j] # Absent \/ (v = u /\ j = i))
  PROVE  OwnPairs(D, after) = OwnPairs(D, maps) \union {<<u, i>>}
<1>1. /\ OwnPairs(D, after) \subseteq D \X UserIndices
      /\ OwnPairs(D, maps) \union {<<u, i>>} \subseteq D \X UserIndices
  BY OwnPairsType, PairIsIn
<1>2. ASSUME NEW v \in D, NEW j \in UserIndices
      PROVE  <<v, j>> \in OwnPairs(D, after)
               <=> <<v, j>> \in OwnPairs(D, maps) \union {<<u, i>>}
  <2>1. <<v, j>> = <<u, i>> <=> v = u /\ j = i
    OBVIOUS
  <2> QED
    BY <2>1, OwnPairsMembers
<1> QED
  BY <1>1, <1>2, SamePairs

LEMMA FiniteParts ==
  ASSUME IInv
  PROVE  /\ IsFiniteSet(KernelIndices) /\ IsFiniteSet(UserIndices) /\ IsFiniteSet(Users)
         /\ IsFiniteSet(KernelsOwn) /\ IsFiniteSet(DOMAIN spaces) /\ IsFiniteSet(UsersOwn)
         /\ Cardinality(KernelsOwn) \in Nat /\ Cardinality(KernelsOwn) <= Cardinality(KernelIndices)
         /\ Cardinality(DOMAIN spaces) \in Nat /\ Cardinality(DOMAIN spaces) <= Cardinality(Users)
         /\ Cardinality(UsersOwn) \in Nat
         /\ Cardinality(UsersOwn) <= Cardinality(Users) * Cardinality(UserIndices)
         /\ Cardinality(KernelIndices) \in Nat /\ Cardinality(Users) \in Nat
         /\ Cardinality(UserIndices) \in Nat
<1>1. IsFiniteSet(Indices)
  <2>1. 0 \in Int /\ EntriesPerTable - 1 \in Int
    BY Regions
  <2> QED
    BY <2>1, FS_Interval DEF Indices
<1>2. IsFiniteSet(KernelIndices) /\ IsFiniteSet(UserIndices) /\ IsFiniteSet(Users)
  BY <1>1, Regions, FS_Subset, UsersAssumption
<1>3. KernelsOwn \subseteq KernelIndices
  BY DEF KernelsOwn
<1>4. DOMAIN spaces \subseteq Users
  BY DEF IInv, Types
<1>5. UsersOwn \subseteq Users \X UserIndices
  BY <1>4, OwnPairsType DEF UsersOwn
<1>6. /\ IsFiniteSet(Users \X UserIndices)
      /\ Cardinality(Users \X UserIndices) = Cardinality(Users) * Cardinality(UserIndices)
  BY <1>2, FS_Product
<1>7. /\ IsFiniteSet(KernelsOwn) /\ IsFiniteSet(DOMAIN spaces) /\ IsFiniteSet(UsersOwn)
      /\ Cardinality(KernelsOwn) <= Cardinality(KernelIndices)
      /\ Cardinality(DOMAIN spaces) <= Cardinality(Users)
      /\ Cardinality(UsersOwn) <= Cardinality(Users \X UserIndices)
  BY <1>2, <1>3, <1>4, <1>5, <1>6, FS_Subset
<1> QED
  BY <1>2, <1>6, <1>7, FS_CardinalityType

LEMMA InitRequests == SpacesInit => Requests
<1> SUFFICES ASSUME SpacesInit PROVE Requests
  OBVIOUS
<1>1. KernelsOwn = {} /\ UsersOwn = {} /\ DOMAIN spaces = {}
  <2>1. \A i \in KernelIndices \ BootIndices : kernel[i] = Absent
    BY Regions DEF SpacesInit
  <2>2. DOMAIN spaces = {}
    BY DEF SpacesInit
  <2>3. UsersOwn = {}
    <3>1. \A x : x \notin {} \X UserIndices
      OBVIOUS
    <3> QED
      BY <2>2, <3>1 DEF UsersOwn, OwnPairs
  <2> QED
    BY <2>1, <2>2, <2>3 DEF KernelsOwn
<1>2. Cardinality({}) = 0
  BY FS_EmptySet
<1> QED
  BY <1>1, <1>2, Regions DEF Requests, SpacesInit

LEMMA NextRequests == IInv /\ Requests /\ [SpacesNext]_userSpaces => Requests'
<1> SUFFICES ASSUME IInv, Requests, [SpacesNext]_userSpaces PROVE Requests'
  OBVIOUS
<1> DEFINE k == Cardinality(KernelsOwn)
           d == Cardinality(DOMAIN spaces)
           o == Cardinality(UsersOwn)
<1>0. k \in Nat /\ d \in Nat /\ o \in Nat /\ requested = EntriesPerTable + (k + (d + o))
  BY FiniteParts DEF Requests
<1>1. ASSUME NEW i \in BootIndices \union KernelIndices, KernelMaps(i) PROVE Requests'
  <2>1. UNCHANGED spaces
    BY <1>1 DEF KernelMaps
  <2>2. UsersOwn' = UsersOwn
    BY <2>1 DEF UsersOwn
  <2>3. CASE kernel[i] # Absent
    <3>1. kernel' = kernel /\ requested' = requested
      BY <1>1, <2>3 DEF KernelMaps, Mapped, Take, IInv, Types, Entries
    <3>2. KernelsOwn' = KernelsOwn
      BY <3>1 DEF KernelsOwn
    <3> QED
      BY <2>1, <2>2, <3>1, <3>2, <1>0 DEF Requests
  <2>4. CASE kernel[i] = Absent
    <3>1. i \in KernelIndices \ BootIndices /\ i \in Indices /\ i \notin KernelsOwn
      BY <2>4, Regions DEF IInv, KernelEntries, KernelsOwn
    <3>2. /\ requested' = requested + 1
          /\ kernel' = [kernel EXCEPT ![i] = requested + 1]
      BY <1>1, <2>4 DEF KernelMaps, Mapped, Take, Fresh, IInv, Types, Entries
    <3>3. requested + 1 # Absent
      BY DEF IInv, Types, Absent
    <3>4. KernelsOwn' = KernelsOwn \union {i}
      BY <3>1, <3>2, <3>3, Regions DEF KernelsOwn, IInv, Types, Entries
    <3>5. Cardinality(KernelsOwn') = k + 1
      BY <3>1, <3>4, FiniteParts, FS_AddElement
    <3> QED
      BY <2>1, <2>2, <3>2, <3>5, <1>0, Regions DEF Requests
  <2> QED
    BY <2>3, <2>4
<1>2. ASSUME NEW u \in Users, newUserVAS(u) PROVE Requests'
  <2>1. /\ u \notin DOMAIN spaces /\ DOMAIN spaces' = DOMAIN spaces \union {u}
        /\ \A v \in DOMAIN spaces : spaces'[v] = spaces[v]
        /\ \A i \in Indices \ Copied : spaces'[u][i] = Absent
        /\ requested' = requested + 1 /\ kernel' = kernel
    BY <1>2 DEF newUserVAS, Take, Fresh
  <2>2. KernelsOwn' = KernelsOwn
    BY <2>1 DEF KernelsOwn
  <2>3. UsersOwn' = UsersOwn
    <3>1. \A v \in DOMAIN spaces' \ DOMAIN spaces, j \in UserIndices : spaces'[v][j] = Absent
      BY <2>1, Regions
    <3> QED
      BY <2>1, <3>1, SameOwnPairs DEF UsersOwn
  <2>4. Cardinality(DOMAIN spaces') = d + 1
    BY <2>1, FiniteParts, FS_AddElement
  <2> QED
    BY <2>1, <2>2, <2>3, <2>4, <1>0, Regions DEF Requests
<1>3. ASSUME NEW u \in Users, NEW i \in UserIndices, UserMaps(u, i) PROVE Requests'
  <2>1. /\ u \in DOMAIN spaces /\ i \in Indices /\ spaces[u] \in [Indices -> 0 .. requested]
        /\ kernel' = kernel
        /\ spaces' = [spaces EXCEPT ![u] = Mapped(spaces[u], i)]
        /\ requested' = IF spaces[u][i] = Absent THEN requested + 1 ELSE requested
    BY <1>3, Regions DEF UserMaps, Take, Fresh, IInv, Types, Entries
  <2>2. KernelsOwn' = KernelsOwn
    BY <2>1 DEF KernelsOwn
  <2>3. CASE spaces[u][i] # Absent
    <3>1. /\ Mapped(spaces[u], i) = spaces[u] /\ requested' = requested
          /\ DOMAIN spaces' = DOMAIN spaces
      BY <2>1, <2>3 DEF Mapped
    <3>2. \A v \in DOMAIN spaces : spaces'[v] = spaces[v]
      BY <2>1, <3>1
    <3>3. UsersOwn' = UsersOwn
      BY <3>1, <3>2, SameOwnPairs DEF UsersOwn
    <3> QED
      BY <2>2, <3>1, <3>3, <1>0 DEF Requests
  <2>4. CASE spaces[u][i] = Absent
    <3>1. /\ requested' = requested + 1 /\ DOMAIN spaces' = DOMAIN spaces
          /\ spaces'[u][i] = requested + 1
          /\ \A v \in DOMAIN spaces : \A j \in Indices :
               ~(v = u /\ j = i) => spaces'[v][j] = spaces[v][j]
      BY <2>1, <2>4 DEF Mapped, Fresh
    <3>2. requested + 1 # Absent
      BY DEF IInv, Types, Absent
    <3>3. UsersOwn' = UsersOwn \union {<<u, i>>}
      <4>1. \A v \in DOMAIN spaces, j \in UserIndices :
              spaces'[v][j] # Absent <=> (spaces[v][j] # Absent \/ (v = u /\ j = i))
        BY <2>4, <3>1, <3>2, Regions
      <4> QED
        <5>1. OwnPairs(DOMAIN spaces, spaces') = OwnPairs(DOMAIN spaces, spaces) \union {<<u, i>>}
          <6> DEFINE D == DOMAIN spaces
                     after == spaces'
          <6>1. /\ u \in D
                /\ \A v \in D, j \in UserIndices :
                     after[v][j] # Absent <=> (spaces[v][j] # Absent \/ (v = u /\ j = i))
            BY <2>1, <4>1
          <6> HIDE DEF D, after
          <6>2. OwnPairs(D, after) = OwnPairs(D, spaces) \union {<<u, i>>}
            BY <1>3, <6>1, OneMoreOwnPair
          <6> QED
            BY <6>2 DEF D, after
        <5> QED
          BY <3>1, <5>1 DEF UsersOwn
    <3>4. <<u, i>> \notin UsersOwn
      BY <2>1, <2>4, OwnPairsMembers DEF UsersOwn
    <3>5. Cardinality(UsersOwn') = o + 1
      BY <3>3, <3>4, FiniteParts, FS_AddElement
    <3> QED
      BY <2>2, <3>1, <3>5, <1>0, Regions DEF Requests
  <2> QED
    BY <2>3, <2>4
<1>4. CASE UNCHANGED userSpaces
  BY <1>4 DEF userSpaces, Requests, KernelsOwn, UsersOwn
<1> QED
  BY <1>1, <1>2, <1>3, <1>4 DEF SpacesNext

LEMMA Counted == SpacesSpec => [](IInv /\ Requests)
<1> QED
  BY InitIInv, NextIInv, InitRequests, NextRequests, PTL DEF SpacesSpec

-------------------------------------------------------------------------------
(* The entries of the kernel's image and heap are the same in the kernel   *)
(* and in every process, for ever (VirtualAddressSpace.cpp:24).            *)
THEOREM KernelStaysShared == SpacesSpec => []KernelTablesAreShared
<1>1. IInv /\ Requests => KernelTablesAreShared
  <2> SUFFICES ASSUME IInv, Requests PROVE KernelTablesAreShared
    OBVIOUS
  <2> DEFINE c == Cardinality(Users)
             i == Cardinality(UserIndices)
  <2>1. c \in Nat /\ i \in Nat /\ c * i \in Nat /\ c * (1 + i) = c + (c * i)
    BY FiniteParts
  <2>2. requested <= EntriesPerTable + (Cardinality(KernelIndices) + (c + (c * i)))
    BY <2>1, FiniteParts, Regions DEF Requests
  <2>3. requested <= EntriesPerTable + Cardinality(KernelIndices) + c * (1 + i)
    BY <2>1, <2>2, FiniteParts, Regions
  <2>4. SpacesTypeOK
    BY <2>3 DEF SpacesTypeOK, IInv, Types, Entries, Absent
  <2> QED
    BY <2>4 DEF IInv, KernelIsCopied, KernelTablesAreShared
<1> QED
  BY <1>1, Counted, PTL

(* A process shares no table with another but the kernel's, and reaches    *)
(* none of the kernel's below PLM4KernelVASStartIndex.                     *)
THEOREM ProcessesStayApart == SpacesSpec => []ProcessesAreApart
<1>1. IInv => ProcessesAreApart
  <2> SUFFICES ASSUME IInv, NEW u \in DOMAIN spaces, NEW i \in Indices, NEW j \in Indices,
                      spaces[u][i] # Absent
               PROVE  /\ kernel[j] = spaces[u][i] => i = j /\ i >= PLM4KernelVASStartIndex
                      /\ \A v \in DOMAIN spaces \ {u} :
                           spaces[v][j] = spaces[u][i] => i = j /\ spaces[u][i] = kernel[i]
    BY DEF ProcessesAreApart
  <2>1. CASE i \in UserIndices
    BY <2>1 DEF IInv, OwnEntries
  <2>2. CASE i \notin UserIndices
    <3>1. i \in Copied /\ spaces[u][i] = kernel[i] /\ i >= PLM4KernelVASStartIndex
      BY <2>2, Regions DEF IInv, CopiedEntries
    <3>2. ASSUME NEW v \in DOMAIN spaces \ {u}, spaces[v][j] = spaces[u][i] PROVE i = j
      <4>1. j \notin UserIndices
        BY <3>2 DEF IInv, OwnEntries
      <4>2. spaces[v][j] = kernel[j]
        BY <3>2, <4>1 DEF IInv, CopiedEntries
      <4> QED
        BY <3>1, <3>2, <4>2 DEF IInv, KernelEntries
    <3> QED
      BY <3>1, <3>2 DEF IInv, KernelEntries
  <2> QED
    BY <2>1, <2>2
<1> QED
  BY <1>1, Inductive, PTL

===============================================================================
