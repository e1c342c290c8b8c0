----------------------------- MODULE VectorProofs ------------------------------
(***************************************************************************)
(* For any number of vectors, elements and buffers: what a vector says of  *)
(* its buffer is true, no two vectors have the same one, and every element *)
(* in a vector is alive and, if it is an object, there only; vectors are   *)
(* lists, and remove(const U&) takes out what it should.  For any strings: *)
(* they are texts, and operator== is the equality of texts.                *)
(***************************************************************************)
EXTENDS Vector, String, SequenceTheorems, TLAPS

(* A vector and the buffer it points to.                                   *)
Fits(vector, mem) ==
  /\ vector.size <= vector.capacity
  /\ vector.buff # NoBuffer => /\ vector.buff \in DOMAIN mem
                               /\ DOMAIN mem[vector.buff] = 0 .. vector.capacity - 1
  /\ vector.buff = NoBuffer => vector.capacity = 0

VectorType == [buff : Buffers \union {NoBuffer}, size : Nat, capacity : Nat]

Layout ==
  /\ vec \in [Vectors -> VectorType]
  /\ DOMAIN memory \subseteq Buffers
  /\ \A v \in Vectors : Fits(vec[v], memory)
  /\ BuffersApart

(* The loop of remove(const U&) is in a vector of objects.                 *)
Removing ==
  /\ owning \in BOOLEAN
  /\ removing # Idle => owning /\ removing.vector \in Vectors /\ removing.index \in Nat

(* What is in a vector was pushed and is not deleted.                      *)
Alive ==
  /\ born \subseteq Elements /\ deleted \subseteq born \union {Raw}
  /\ ~owning => deleted = {}
  /\ \A v \in Vectors : \A i \in 0 .. vec[v].size - 1 : Slots(v)[i] \in born \ deleted

(* What an empty vector has in its first slot is raw or an object that     *)
(* neither a vector nor another first slot has.                            *)
LeftAlone(v) ==
  /\ Slots(v)[0] \in born \ deleted
  /\ \A w \in Vectors : \A i \in 0 .. vec[w].size - 1 : Slots(w)[i] # Slots(v)[0]
  /\ \A w \in Vectors \ {v} : HasLeftover(w) => Slots(w)[0] # Slots(v)[0]

Leftovers ==
  owning => \A v \in Vectors : HasLeftover(v) => Slots(v)[0] = Raw \/ LeftAlone(v)

IInv == Layout /\ Removing /\ Alive /\ SoleOwner /\ Leftovers

(* The only two ways an action changes vectors and memory: vector v gets   *)
(* buffer b, ...                                                           *)
Rebuffered(v, b, size, capacity, slots) ==
  /\ vec' = [vec EXCEPT ![v] = [buff |-> b, size |-> size, capacity |-> capacity]]
  /\ memory' = With(Freed(vec[v].buff), b, slots)

(* ... or its elements change where they are.                              *)
Rewritten(v, size, slots) ==
  /\ vec' = [vec EXCEPT ![v].size = size]
  /\ memory' = [memory EXCEPT ![vec[v].buff] = slots]

(* What an action does to the elements of vectors.  None of the other      *)
(* vectors gets or loses one.                                              *)
RestKept(v) ==
  \A w \in Vectors \ {v} : vec'[w] = vec[w] /\ Slots(w)' = Slots(w)

Pushed(v, e) ==
  /\ vec'[v].size = vec[v].size + 1 /\ Slots(v)'[vec[v].size] = e
  /\ \A i \in 0 .. vec[v].size - 1 : Slots(v)'[i] = Slots(v)[i]
  /\ RestKept(v)

(* Vector v has the elements of w.                                         *)
GotElements(v, w) ==
  /\ vec'[v].size = vec[w].size
  /\ \A i \in 0 .. vec[w].size - 1 : Slots(v)'[i] = Slots(w)[i]
  /\ RestKept(v)

ClosedUp(v, index) ==
  /\ vec'[v].size = vec[v].size - 1
  /\ \A i \in 0 .. vec[v].size - 2 : Slots(v)'[i] = Slots(v)[IF i < index THEN i ELSE i + 1]
  /\ RestKept(v)

MovedOver(v, w) ==
  /\ vec'[w].size = 0
  /\ \A x \in Vectors \ {w} :
       LET before == IF x = v THEN w ELSE x
       IN  vec'[x] = vec[before] /\ Slots(x)' = Slots(before)

-------------------------------------------------------------------------------
LEMMA RebufferedLayout ==
  ASSUME Layout, NEW v \in Vectors, NEW b \in Buffers, NEW size \in Nat, NEW capacity \in Nat,
         NEW slots, Rebuffered(v, b, size, capacity, slots),
         size <= capacity, DOMAIN slots = 0 .. capacity - 1,
         b \notin DOMAIN memory \/ b = vec[v].buff
  PROVE  /\ Layout'
         /\ vec'[v].size = size /\ Slots(v)' = slots
         /\ \A w \in Vectors \ {v} : vec'[w] = vec[w] /\ Slots(w)' = Slots(w)
<1>. USE VectorAssumption, BuffersAssumption
<1>1. /\ vec'[v] = [buff |-> b, size |-> size, capacity |-> capacity]
      /\ \A w \in Vectors \ {v} : vec'[w] = vec[w]
      /\ vec' \in [Vectors -> VectorType]
  BY DEF Rebuffered, Layout, VectorType
<1>2. /\ DOMAIN memory' = (DOMAIN memory \ {vec[v].buff}) \union {b}
      /\ memory'[b] = slots
      /\ \A x \in DOMAIN memory \ {vec[v].buff, b} : memory'[x] = memory[x]
  BY DEF Rebuffered, With, Freed
<1>3. \A w \in Vectors \ {v} :
        vec[w].buff # NoBuffer =>
          /\ vec[w].buff \in DOMAIN memory \ {vec[v].buff, b}
          /\ memory'[vec[w].buff] = memory[vec[w].buff]
  <2>. SUFFICES ASSUME NEW w \in Vectors \ {v}, vec[w].buff # NoBuffer
                PROVE  vec[w].buff \in DOMAIN memory \ {vec[v].buff, b}
    BY <1>2
  <2>1. vec[w].buff \in DOMAIN memory
    BY DEF Layout, Fits
  <2>2. vec[w].buff # vec[v].buff
    BY DEF Layout, BuffersApart
  <2>. QED
    BY <2>1, <2>2
<1>4. Fits(vec'[v], memory')
  BY <1>1, <1>2 DEF Fits
<1>5. \A w \in Vectors \ {v} : Fits(vec'[w], memory')
  <2>. SUFFICES ASSUME NEW w \in Vectors \ {v} PROVE Fits(vec[w], memory')
    BY <1>1
  <2>1. Fits(vec[w], memory)
    BY DEF Layout
  <2>2. CASE vec[w].buff = NoBuffer
    BY <2>1, <2>2 DEF Fits
  <2>3. CASE vec[w].buff # NoBuffer
    BY <1>2, <1>3, <2>1, <2>3 DEF Fits
  <2>. QED
    BY <2>2, <2>3
<1>6. BuffersApart'
  <2>. SUFFICES ASSUME NEW x \in Vectors, NEW y \in Vectors, x # y, vec'[x].buff = vec'[y].buff
                PROVE  vec'[x].buff = NoBuffer
    BY DEF BuffersApart
  <2>1. CASE x # v /\ y # v
    BY <1>1, <2>1 DEF Layout, BuffersApart
  <2>2. CASE x = v
    BY <1>1, <1>3, <2>2
  <2>3. CASE y = v
    BY <1>1, <1>3, <2>3
  <2>. QED
    BY <2>1, <2>2, <2>3
<1>7. Layout'
  BY <1>1, <1>2, <1>4, <1>5, <1>6 DEF Layout
<1>8. Slots(v)' = slots /\ vec'[v].size = size
  BY <1>1, <1>2 DEF Slots
<1>9. \A w \in Vectors \ {v} : Slots(w)' = Slots(w)
  BY <1>1, <1>3 DEF Slots
<1>. QED
  BY <1>1, <1>7, <1>8, <1>9

LEMMA RewrittenLayout ==
  ASSUME Layout, NEW v \in Vectors, NEW size \in Nat, NEW slots, Rewritten(v, size, slots),
         vec[v].buff # NoBuffer, size <= vec[v].capacity, DOMAIN slots = DOMAIN Slots(v)
  PROVE  /\ Layout'
         /\ vec'[v].size = size /\ Slots(v)' = slots
         /\ \A w \in Vectors \ {v} : vec'[w] = vec[w] /\ Slots(w)' = Slots(w)
<1>. USE VectorAssumption, BuffersAssumption
<1>1. /\ vec'[v] = [vec[v] EXCEPT !.size = size]
      /\ \A w \in Vectors \ {v} : vec'[w] = vec[w]
      /\ vec' \in [Vectors -> VectorType]
      /\ vec'[v].buff = vec[v].buff /\ vec'[v].capacity = vec[v].capacity /\ vec'[v].size = size
  BY DEF Rewritten, Layout, VectorType
<1>2. /\ vec[v].buff \in DOMAIN memory /\ Slots(v) = memory[vec[v].buff]
      /\ DOMAIN Slots(v) = 0 .. vec[v].capacity - 1
  BY DEF Layout, Fits, Slots
<1>3. /\ DOMAIN memory' = DOMAIN memory
      /\ memory'[vec[v].buff] = slots
      /\ \A x \in DOMAIN memory \ {vec[v].buff} : memory'[x] = memory[x]
  BY <1>2 DEF Rewritten
<1>4. \A w \in Vectors \ {v} :
        vec[w].buff # NoBuffer =>
          vec[w].buff \in DOMAIN memory /\ memory'[vec[w].buff] = memory[vec[w].buff]
  BY <1>3 DEF Layout, Fits, BuffersApart
<1>5. Fits(vec'[v], memory')
  BY <1>1, <1>2, <1>3 DEF Fits
<1>6. \A w \in Vectors \ {v} : Fits(vec'[w], memory')
  <2>. SUFFICES ASSUME NEW w \in Vectors \ {v} PROVE Fits(vec[w], memory')
    BY <1>1
  <2>1. Fits(vec[w], memory)
    BY DEF Layout
  <2>2. CASE vec[w].buff = NoBuffer
    BY <2>1, <2>2 DEF Fits
  <2>3. CASE vec[w].buff # NoBuffer
    BY <1>3, <1>4, <2>1, <2>3 DEF Fits
  <2>. QED
    BY <2>2, <2>3
<1>7. BuffersApart'
  <2>1. \A w \in Vectors : vec'[w].buff = vec[w].buff
    BY <1>1
  <2>. QED
    BY <2>1 DEF Layout, BuffersApart
<1>8. Layout'
  BY <1>1, <1>3, <1>5, <1>6, <1>7 DEF Layout
<1>9. Slots(v)' = slots
  BY <1>1, <1>3 DEF Slots
<1>10. \A w \in Vectors \ {v} : Slots(w)' = Slots(w)
  BY <1>1, <1>4 DEF Slots
<1>. QED
  BY <1>1, <1>8, <1>9, <1>10

(* v has n elements now, each from a place of its own in v or newly born.  *)
Carried(v, n, slots, from, e) ==
  /\ vec'[v].size = n /\ Slots(v)' = slots
  /\ \A w \in Vectors \ {v} : vec'[w] = vec[w] /\ Slots(w)' = Slots(w)
  /\ \A i \in 0 .. n - 1 :
       \/ from[i] \in 0 .. vec[v].size - 1 /\ slots[i] = Slots(v)[from[i]]
       \/ slots[i] = e /\ i = vec[v].size /\ e \in born' /\ (owning => e \notin born)
  /\ \A i, j \in 0 .. n - 1 : from[i] = from[j] => i = j
  /\ n = 0 => slots[0] = Raw \/ \E i \in 0 .. vec[v].size - 1 : slots[0] = Slots(v)[i]

(* Only what v has left is deleted, and only if v is empty.                *)
DeletesLeftover(v) ==
  \A x \in deleted' : x \in deleted \/ (owning /\ HasLeftover(v) /\ x = Slots(v)[0])

(* Then Alive, SoleOwner and Leftovers are kept.                           *)
LEMMA ElementsKept ==
  ASSUME IInv, NEW v \in Vectors, NEW size \in Nat, NEW slots, NEW from, NEW e,
         Carried(v, size, slots, from, e),
         born \subseteq born', born' \subseteq Elements, DeletesLeftover(v), owning' = owning
  PROVE  Alive' /\ SoleOwner' /\ Leftovers'
<1>. DEFINE Mine(i) == from[i] \in 0 .. vec[v].size - 1 /\ slots[i] = Slots(v)[from[i]]
            New(i) == slots[i] = e /\ i = vec[v].size /\ e \in born' /\ (owning => e \notin born)
<1>. USE DEF Carried
<1>1. \A i \in 0 .. size - 1 : Mine(i) \/ New(i)
  OBVIOUS
<1>2. \A w \in Vectors : vec[w].size \in Nat
  BY DEF IInv, Layout, VectorType
<1>3. \A w \in Vectors \ {v} : \A i \in 0 .. vec'[w].size - 1 :
        i \in 0 .. vec[w].size - 1 /\ Slots(w)'[i] = Slots(w)[i] /\ Slots(w)'[i] \in born
  BY <1>2 DEF IInv, Alive
<1>4. \A i \in 0 .. size - 1 : Mine(i) => slots[i] \in born
  BY DEF IInv, Alive
<1>9. Raw \notin born'
  BY VectorAssumption DEF Raw
<1>10. ASSUME owning, HasLeftover(v), Slots(v)[0] # Raw
       PROVE  LeftAlone(v) /\ \A i \in 0 .. size - 1 : ~Mine(i)
  <2>1. vec[v].size = 0
    BY <1>10 DEF HasLeftover
  <2>. QED
    BY <1>10, <2>1 DEF IInv, Leftovers
<1>11. ~owning => deleted' = {}
  BY DEF IInv, Alive, DeletesLeftover
<1>5. Alive'
  <2>1. ASSUME NEW w \in Vectors, NEW i \in 0 .. vec'[w].size - 1
        PROVE  Slots(w)'[i] \in born'
    BY <1>1, <1>3, <1>4
  <2>2. deleted' \subseteq born' \union {Raw}
    BY <1>10 DEF IInv, Alive, DeletesLeftover, LeftAlone
  <2>3. ASSUME NEW w \in Vectors, NEW i \in 0 .. vec'[w].size - 1, Slots(w)'[i] \in deleted'
        PROVE  FALSE
    <3>1. owning /\ Slots(w)'[i] # Raw
      BY <1>9, <1>11, <2>1, <2>3
    <3>2. CASE w # v
      <4>1. i \in 0 .. vec[w].size - 1 /\ Slots(w)'[i] = Slots(w)[i]
        BY <1>3, <3>2
      <4>2. Slots(w)[i] \notin deleted
        BY <4>1 DEF IInv, Alive
      <4>3. HasLeftover(v) /\ Slots(w)[i] = Slots(v)[0]
        BY <2>3, <4>1, <4>2 DEF DeletesLeftover
      <4>. QED
        BY <1>10, <3>1, <4>1, <4>3 DEF LeftAlone
    <3>3. CASE w = v /\ Mine(i)
      <4>1. slots[i] \notin deleted
        BY <3>3 DEF IInv, Alive
      <4>2. HasLeftover(v) /\ slots[i] = Slots(v)[0]
        BY <2>3, <3>3, <4>1 DEF DeletesLeftover
      <4>. QED
        BY <1>10, <3>1, <3>3, <4>2
    <3>4. CASE w = v /\ New(i)
      <4>1. e \notin born /\ slots[i] = e /\ slots[i] # Raw
        BY <3>1, <3>4
      <4>2. slots[i] \notin deleted
        BY <4>1 DEF IInv, Alive
      <4>3. HasLeftover(v) /\ slots[i] = Slots(v)[0]
        BY <2>3, <3>4, <4>2 DEF DeletesLeftover
      <4>. QED
        BY <1>10, <3>1, <4>1, <4>3 DEF LeftAlone
    <3>. QED
      BY <1>1, <3>2, <3>3, <3>4
  <2>. QED
    BY <1>11, <2>1, <2>2, <2>3 DEF Alive
<1>6. ASSUME owning, NEW w \in Vectors \ {v}, NEW i \in 0 .. size - 1,
             NEW j \in 0 .. vec'[w].size - 1, slots[i] = Slots(w)'[j]
      PROVE  FALSE
  <2>1. CASE Mine(i)
    <3>. DEFINE k == from[i]
    <3>1. k \in 0 .. vec[v].size - 1 /\ j \in 0 .. vec[w].size - 1
      BY <1>3, <2>1
    <3>2. Slots(v)[k] = Slots(w)[j]
      BY <1>3, <1>6, <2>1
    <3>3. v = w
      <4>. HIDE DEF k
      <4>. QED BY <1>6, <3>1, <3>2 DEF IInv, SoleOwner
    <3>. QED
      BY <3>3
  <2>2. CASE New(i)
    BY <1>3, <1>6, <2>2
  <2>. QED
    BY <1>1, <2>1, <2>2
<1>7. ASSUME owning, NEW i \in 0 .. size - 1, NEW j \in 0 .. size - 1, slots[i] = slots[j]
      PROVE  i = j
  <2>1. CASE Mine(i) /\ Mine(j)
    <3>. DEFINE k == from[i]
                l == from[j]
    <3>1. k \in 0 .. vec[v].size - 1 /\ l \in 0 .. vec[v].size - 1
      BY <2>1
    <3>2. Slots(v)[k] = Slots(v)[l]
      BY <1>7, <2>1
    <3>3. k = l
      <4>. HIDE DEF k, l
      <4>. QED BY <1>7, <3>1, <3>2 DEF IInv, SoleOwner
    <3>. QED
      BY <3>3
  <2>2. CASE New(i) /\ New(j)
    BY <2>2
  <2>3. CASE Mine(i) /\ New(j)
    BY <1>4, <1>7, <2>3
  <2>4. CASE New(i) /\ Mine(j)
    BY <1>4, <1>7, <2>4
  <2>. QED
    BY <1>1, <2>1, <2>2, <2>3, <2>4
<1>8. SoleOwner'
  <2>. SUFFICES ASSUME owning, NEW x \in Vectors, NEW y \in Vectors,
                       NEW i \in 0 .. vec'[x].size - 1, NEW j \in 0 .. vec'[y].size - 1,
                       Slots(x)'[i] = Slots(y)'[j]
                PROVE  x = y /\ i = j
    BY DEF SoleOwner
  <2>1. CASE x = v /\ y = v
    BY <1>7, <2>1
  <2>2. CASE x = v /\ y # v
    BY <1>6, <2>2
  <2>3. CASE x # v /\ y = v
    BY <1>6, <2>3
  <2>4. CASE x # v /\ y # v
    BY <1>3, <2>4 DEF IInv, SoleOwner
  <2>. QED
    BY <2>1, <2>2, <2>3, <2>4
<1>12. ASSUME owning, NEW w \in Vectors \ {v}, HasLeftover(w)', Slots(w)'[0] # Raw
       PROVE  LeftAlone(w)'
  <2>1. HasLeftover(w) /\ Slots(w)' = Slots(w)
    BY <1>12 DEF HasLeftover
  <2>2. LeftAlone(w)
    BY <1>12, <2>1 DEF IInv, Leftovers
  <2>3. Slots(w)[0] \notin deleted'
    <3>. SUFFICES ASSUME Slots(w)[0] \in deleted' PROVE FALSE
      OBVIOUS
    <3>1. HasLeftover(v) /\ Slots(w)[0] = Slots(v)[0]
      BY <2>2 DEF LeftAlone, DeletesLeftover
    <3>. QED
      BY <2>2, <3>1 DEF LeftAlone
  <2>4. ASSUME NEW x \in Vectors, NEW i \in 0 .. vec'[x].size - 1
        PROVE  Slots(x)'[i] # Slots(w)[0]
    <3>1. CASE x # v
      BY <1>3, <2>2, <3>1 DEF LeftAlone
    <3>2. CASE x = v /\ Mine(i)
      BY <2>2, <3>2 DEF LeftAlone
    <3>3. CASE x = v /\ New(i)
      BY <1>12, <2>2, <3>3 DEF LeftAlone
    <3>. QED
      BY <1>1, <3>1, <3>2, <3>3
  <2>5. ASSUME NEW x \in Vectors \ {w}, HasLeftover(x)'
        PROVE  Slots(x)'[0] # Slots(w)[0]
    <3>1. CASE x # v
      <4>1. HasLeftover(x) /\ Slots(x)' = Slots(x)
        BY <2>5, <3>1 DEF HasLeftover
      <4>. QED
        BY <2>2, <4>1 DEF LeftAlone
    <3>2. CASE x = v
      <4>1. slots[0] = Raw \/ \E i \in 0 .. vec[v].size - 1 : slots[0] = Slots(v)[i]
        BY <2>5, <3>2 DEF HasLeftover
      <4>2. Slots(x)'[0] = slots[0] /\ Slots(w)[0] # Raw
        BY <1>12, <2>1, <3>2
      <4>. QED
        BY <2>2, <4>1, <4>2 DEF LeftAlone
    <3>. QED
      BY <3>1, <3>2
  <2>6. Slots(w)[0] \in born'
    BY <2>2 DEF LeftAlone
  <2>. QED
    BY <2>1, <2>3, <2>4, <2>5, <2>6 DEF LeftAlone
<1>13. ASSUME owning, HasLeftover(v)', Slots(v)'[0] # Raw
       PROVE  LeftAlone(v)'
  <2>1. size = 0
    BY <1>13 DEF HasLeftover
  <2>2. PICK k \in 0 .. vec[v].size - 1 : slots[0] = Slots(v)[k]
    BY <1>13, <2>1
  <2>3. vec[v].size # 0
    BY <1>2, <2>2
  <2>4. slots[0] \in born \ deleted
    BY <2>2 DEF IInv, Alive
  <2>5. slots[0] \notin deleted'
    BY <2>3, <2>4 DEF DeletesLeftover, HasLeftover
  <2>6. ASSUME NEW x \in Vectors, NEW i \in 0 .. vec'[x].size - 1
        PROVE  Slots(x)'[i] # slots[0]
    <3>1. x # v
      BY <2>1
    <3>2. i \in 0 .. vec[x].size - 1 /\ Slots(x)'[i] = Slots(x)[i]
      BY <1>3, <3>1
    <3>. QED
      BY <1>13, <2>2, <3>1, <3>2 DEF IInv, SoleOwner
  <2>7. ASSUME NEW x \in Vectors \ {v}, HasLeftover(x)'
        PROVE  Slots(x)'[0] # slots[0]
    <3>1. HasLeftover(x) /\ Slots(x)' = Slots(x)
      BY <2>7 DEF HasLeftover
    <3>2. CASE Slots(x)[0] = Raw
      BY <1>9, <2>4, <3>1, <3>2
    <3>3. CASE LeftAlone(x)
      BY <2>2, <3>1, <3>3 DEF LeftAlone
    <3>. QED
      BY <1>13, <3>1, <3>2, <3>3 DEF IInv, Leftovers
  <2>. QED
    BY <2>4, <2>5, <2>6, <2>7 DEF LeftAlone
<1>14. Leftovers'
  BY <1>12, <1>13 DEF Leftovers
<1>. QED
  BY <1>5, <1>8, <1>14

(* swapBuffers deletes no more than that: the elements were moved from.    *)
LEMMA SwapDeletesLeftover ==
  ASSUME NEW v \in Vectors
  PROVE  /\ SwapDeletes(v) \subseteq {Slots(v)[0]}
         /\ SwapDeletes(v) # {} => owning /\ HasLeftover(v)
         /\ DeleteMovedFrom(v) \/ deleted' = deleted => DeletesLeftover(v)
<1>1. /\ SwapDeletes(v) \subseteq {Slots(v)[0]}
      /\ SwapDeletes(v) # {} => owning /\ HasLeftover(v)
  BY DEF SwapDeletes, Destroyed, MovedFrom
<1>2. DeleteMovedFrom(v) => DeletesLeftover(v)
  BY <1>1 DEF DeleteMovedFrom, DeletesLeftover
<1>. QED
  BY <1>1, <1>2 DEF DeletesLeftover

-------------------------------------------------------------------------------
LEMMA InitIInv == Init => IInv
<1>. USE VectorAssumption, BuffersAssumption
<1>. SUFFICES ASSUME Init PROVE IInv
  OBVIOUS
<1>1. \A v \in Vectors : vec[v] = Empty
  BY DEF Init
<1>2. Layout
  BY <1>1 DEF Init, Layout, VectorType, Empty, Fits, BuffersApart
<1>3. Removing /\ Alive
  BY <1>1 DEF Init, Removing, Alive, Empty
<1>4. SoleOwner /\ Leftovers
  BY <1>1 DEF SoleOwner, Leftovers, HasLeftover, Empty
<1>. QED
  BY <1>2, <1>3, <1>4 DEF IInv

(* An element is added behind the others, in the same buffer or a new one. *)
LEMMA PushStep ==
  ASSUME IInv, NEW v \in Vectors, NEW e \in Elements, push_back(v, e)
  PROVE  IInv' /\ Pushed(v, e)
<1>. USE VectorAssumption, BuffersAssumption
<1>. DEFINE grow == MustGrow(v)
            size == vec[v].size
            capacity == IF grow THEN (vec[v].capacity + 1) * 2 ELSE vec[v].capacity
<1>1. PICK b \in Buffers \union {NoBuffer} :
        LET mem == IF grow THEN swapBuffers(v, capacity, b) ELSE memory
        IN  /\ IF grow THEN b \in Buffers \ DOMAIN memory ELSE b = vec[v].buff
            /\ vec' = [vec EXCEPT ![v] = [buff |-> b, size |-> size + 1, capacity |-> capacity]]
            /\ memory' = With(mem, b, [i \in DOMAIN mem[b] \union {size} |->
                                         IF i = size THEN e ELSE mem[b][i]])
            /\ IF grow THEN DeleteMovedFrom(v) ELSE deleted' = deleted
  BY DEF push_back
<1>. DEFINE mem == IF grow THEN swapBuffers(v, capacity, b) ELSE memory
            slots == [i \in DOMAIN mem[b] \union {size} |-> IF i = size THEN e ELSE mem[b][i]]
<1>2. size \in Nat /\ vec[v].capacity \in Nat /\ Fits(vec[v], memory) /\ vec[v].buff \in Buffers \union {NoBuffer}
  BY DEF IInv, Layout, VectorType
<1>3. capacity \in Nat /\ size + 1 \in Nat /\ size + 1 <= capacity
  BY <1>2 DEF Fits, MustGrow
<1>4. b \in Buffers /\ (b \notin DOMAIN memory \/ b = vec[v].buff)
  <2>1. CASE grow
    BY <1>1, <2>1
  <2>2. CASE ~grow
    BY <1>1, <1>2, <2>2 DEF Fits, MustGrow
  <2>. QED
    BY <2>1, <2>2
<1>5. /\ DOMAIN mem[b] = 0 .. capacity - 1
      /\ \A i \in 0 .. size - 1 : mem[b][i] = Slots(v)[i]
  <2>1. CASE grow
    <3>1. mem[b] = Filled(v, capacity)
      BY <2>1 DEF swapBuffers, With
    <3>2. DOMAIN Filled(v, capacity) = 0 .. capacity - 1
      BY DEF Filled
    <3>3. \A i \in 0 .. size - 1 : i \in 0 .. capacity - 1 /\ i < vec[v].size
      <4>. HIDE DEF capacity
      <4>. QED BY <1>2, <1>3
    <3>4. \A i \in 0 .. size - 1 : Filled(v, capacity)[i] = Slots(v)[i]
      <4>. HIDE DEF capacity, size
      <4>. QED BY <3>3 DEF Filled
    <3>. QED
      BY <3>1, <3>2, <3>4
  <2>2. CASE ~grow
    BY <1>1, <1>2, <1>4, <2>2 DEF Fits, Slots
  <2>. QED
    BY <2>1, <2>2
<1>6. /\ DOMAIN slots = 0 .. capacity - 1
      /\ slots[size] = e
      /\ \A i \in 0 .. size - 1 : slots[i] = Slots(v)[i]
  <2>. HIDE DEF mem, capacity
  <2>. QED
    BY <1>2, <1>3, <1>5
<1>7. memory' = With(Freed(vec[v].buff), b, slots)
  <2>. HIDE DEF slots
  <2>1. memory' = With(mem, b, slots)
    BY <1>1 DEF slots
  <2>2. CASE grow
    BY <2>1, <2>2 DEF swapBuffers, With
  <2>3. CASE ~grow
    BY <1>1, <2>1, <2>3 DEF With, Freed
  <2>. QED
    BY <2>2, <2>3
<1>8. Rebuffered(v, b, size + 1, capacity, slots)
  BY <1>1, <1>7 DEF Rebuffered
<1>. HIDE DEF slots, mem, capacity, size
<1>9. /\ Layout'
      /\ vec'[v].size = size + 1 /\ Slots(v)' = slots
      /\ \A w \in Vectors \ {v} : vec'[w] = vec[w] /\ Slots(w)' = Slots(w)
  BY <1>3, <1>4, <1>6, <1>8, RebufferedLayout DEF IInv
<1>10. /\ born' = born \union {e} /\ born \subseteq born' /\ born' \subseteq Elements
       /\ (owning => e \notin born) /\ removing' = removing /\ owning' = owning
  BY DEF push_back, IInv, Alive
<1>13. DeletesLeftover(v)
  BY <1>1, SwapDeletesLeftover
<1>11. Alive' /\ SoleOwner' /\ Leftovers'
  <2>. DEFINE from == [i \in Nat |-> i]
              n == size + 1
  <2>1. \A i \in 0 .. n - 1 :
          \/ from[i] \in 0 .. vec[v].size - 1 /\ slots[i] = Slots(v)[from[i]]
          \/ slots[i] = e /\ i = vec[v].size /\ e \in born' /\ (owning => e \notin born)
    BY <1>2, <1>6, <1>10 DEF size
  <2>2. \A i, j \in 0 .. n - 1 : from[i] = from[j] => i = j
    BY <1>2
  <2>3. Carried(v, n, slots, from, e)
    <3>1. n # 0
      BY <1>2
    <3>. HIDE DEF from
    <3>. QED BY <1>9, <2>1, <2>2, <3>1 DEF Carried
  <2>4. n \in Nat
    BY <1>3
  <2>. HIDE DEF from, n
  <2>. QED
    BY <1>10, <1>13, <2>3, <2>4, ElementsKept
<1>12. Pushed(v, e)
  BY <1>6, <1>9 DEF Pushed, RestKept, size
<1>. QED
  BY <1>9, <1>10, <1>11, <1>12 DEF IInv, Removing

(* The elements are moved to a larger buffer.                              *)
LEMMA ReserveStep ==
  ASSUME IInv, NEW v \in Vectors, NEW capacity \in Capacities, reserve(v, capacity)
  PROVE  IInv' /\ GotElements(v, v)
<1>. USE VectorAssumption, BuffersAssumption
<1>. DEFINE size == vec[v].size
            slots == Filled(v, capacity)
            from == [i \in Nat |-> i]
<1>1. PICK b \in Buffers \ DOMAIN memory :
        /\ memory' = swapBuffers(v, capacity, b)
        /\ vec' = [vec EXCEPT ![v] = [buff |-> b, size |-> size, capacity |-> capacity]]
  BY DEF reserve
<1>2. size \in Nat /\ vec[v].capacity \in Nat /\ capacity \in Nat /\ size <= capacity
  BY DEF IInv, Layout, VectorType, Fits, reserve
<1>3. /\ DOMAIN slots = 0 .. capacity - 1
      /\ \A i \in 0 .. size - 1 : slots[i] = Slots(v)[i]
  BY <1>2 DEF Filled
<1>4. Rebuffered(v, b, size, capacity, slots)
  BY <1>1 DEF Rebuffered, swapBuffers
<1>. HIDE DEF size, slots
<1>5. /\ Layout'
      /\ vec'[v].size = size /\ Slots(v)' = slots
      /\ \A w \in Vectors \ {v} : vec'[w] = vec[w] /\ Slots(w)' = Slots(w)
  BY <1>2, <1>3, <1>4, RebufferedLayout DEF IInv
<1>6. Carried(v, size, slots, from, 0)
  <2>1. /\ \A i \in 0 .. size - 1 : from[i] \in 0 .. vec[v].size - 1 /\ slots[i] = Slots(v)[from[i]]
        /\ \A i, j \in 0 .. size - 1 : from[i] = from[j] => i = j
    BY <1>2, <1>3 DEF size
  <2>2. size = 0 => slots[0] = Raw
    BY <1>2 DEF reserve, slots, size, Filled
  <2>. HIDE DEF from
  <2>. QED
    BY <1>5, <2>1, <2>2 DEF Carried
<1>7. /\ born' = born /\ born \subseteq Elements /\ DeletesLeftover(v)
      /\ removing' = removing /\ owning' = owning
  BY SwapDeletesLeftover DEF reserve, IInv, Alive
<1>8. Alive' /\ SoleOwner' /\ Leftovers'
  <2>. HIDE DEF from
  <2>. QED
    BY <1>2, <1>6, <1>7, ElementsKept
<1>9. GotElements(v, v)
  BY <1>3, <1>5 DEF GotElements, RestKept, size
<1>. QED
  BY <1>5, <1>7, <1>8, <1>9 DEF IInv, Removing

(* One element goes, those behind it move down by one.                     *)
LEMMA RemoveAtKeeps ==
  ASSUME IInv, owning, NEW v \in Vectors, NEW index \in Nat, index < vec[v].size,
         RemoveAt(v, index), born' = born, deleted' = deleted, owning' = owning
  PROVE  Layout' /\ Alive' /\ SoleOwner' /\ Leftovers' /\ ClosedUp(v, index)
<1>. USE VectorAssumption, BuffersAssumption
<1>. DEFINE size == vec[v].size
            n == size - 1
            slots == Removed(v, index)
            from == [i \in Nat |-> IF i < index THEN i ELSE i + 1]
<1>1. size \in Nat /\ n \in Nat /\ vec[v].capacity \in Nat /\ size <= vec[v].capacity
  BY DEF IInv, Layout, VectorType, Fits
<1>2. vec[v].buff # NoBuffer /\ DOMAIN Slots(v) = 0 .. vec[v].capacity - 1
  BY <1>1 DEF IInv, Layout, Fits, Slots
<1>3. /\ DOMAIN slots = DOMAIN Slots(v)
      /\ \A i \in 0 .. n - 1 : slots[i] = Slots(v)[from[i]]
  BY <1>1, <1>2 DEF Removed
<1>4. Rewritten(v, n, slots)
  BY DEF RemoveAt, Rewritten
<1>. HIDE DEF slots
<1>5. /\ Layout'
      /\ vec'[v].size = n /\ Slots(v)' = slots
      /\ \A w \in Vectors \ {v} : vec'[w] = vec[w] /\ Slots(w)' = Slots(w)
  <2>. HIDE DEF n
  <2>1. n <= vec[v].capacity
    BY <1>1 DEF n
  <2>. QED
    BY <1>1, <1>2, <1>3, <1>4, <2>1, RewrittenLayout DEF IInv
<1>6. Carried(v, n, slots, from, 0)
  <2>1. /\ \A i \in 0 .. n - 1 : from[i] \in 0 .. vec[v].size - 1
        /\ \A i, j \in 0 .. n - 1 : from[i] = from[j] => i = j
    BY <1>1
  <2>2. n = 0 => 0 \in 0 .. vec[v].size - 1 /\ slots[0] = Slots(v)[0]
    BY <1>1, <1>2 DEF slots, Removed
  <2>. HIDE DEF from, n
  <2>. QED
    BY <1>3, <1>5, <2>1, <2>2 DEF Carried
<1>7. born' = born /\ born \subseteq Elements /\ DeletesLeftover(v)
  BY DEF IInv, Alive, DeletesLeftover
<1>8. Alive' /\ SoleOwner' /\ Leftovers'
  <2>. HIDE DEF from, n
  <2>. QED
    BY <1>1, <1>6, <1>7, ElementsKept
<1>9. ClosedUp(v, index)
  BY <1>1, <1>3, <1>5 DEF ClosedUp, RestKept
<1>. QED
  BY <1>5, <1>8, <1>9

LEMMA RemoveStep ==
  ASSUME IInv, NEW v \in Vectors, NEW index \in Nat, remove(v, index)
  PROVE  IInv'
<1>1. Layout' /\ Alive' /\ SoleOwner' /\ Leftovers'
  BY RemoveAtKeeps DEF remove
<1>. QED
  BY <1>1 DEF IInv, Removing, remove

LEMMA RemoveRoundStep ==
  ASSUME IInv, RemoveRound
  PROVE  IInv'
<1>. DEFINE v == removing.vector
<1>1. /\ owning /\ v \in Vectors /\ removing.index \in Nat /\ removing.index < vec[v].size
      /\ born' = born /\ deleted' = deleted /\ owning' = owning
  BY DEF RemoveRound, IInv, Removing
<1>2. Layout' /\ Alive' /\ SoleOwner' /\ Leftovers'
  <2>1. CASE RemoveAt(v, removing.index)
    <3>. HIDE DEF v
    <3>. QED BY <1>1, <2>1, RemoveAtKeeps
  <2>2. CASE UNCHANGED <<vec, memory>>
    <3>1. Layout'
      BY <2>2 DEF IInv, Layout, Fits, BuffersApart
    <3>2. Alive' /\ SoleOwner' /\ Leftovers'
      BY <1>1, <2>2 DEF IInv, Alive, SoleOwner, Leftovers, LeftAlone, HasLeftover, Slots
    <3>. QED
      BY <3>1, <3>2
  <2>. QED
    BY <2>1, <2>2 DEF RemoveRound
<1>3. removing'.vector = v /\ removing'.index \in Nat
  BY <1>1 DEF RemoveRound, IInv, Removing
<1>. QED
  BY <1>1, <1>2, <1>3 DEF IInv, Removing

LEMMA StartRemoveStep ==
  ASSUME IInv, NEW v \in Vectors, NEW x, StartRemove(v, x)
  PROVE  IInv'
<1>1. Layout'
  BY DEF StartRemove, IInv, Layout, Fits, BuffersApart
<1>2. Alive' /\ SoleOwner' /\ Leftovers'
  BY DEF StartRemove, IInv, Alive, SoleOwner, Leftovers, LeftAlone, HasLeftover, Slots
<1>. QED
  BY <1>1, <1>2 DEF StartRemove, IInv, Removing

LEMMA EndRemoveStep ==
  ASSUME IInv, EndRemove
  PROVE  IInv'
<1>1. Layout'
  BY DEF EndRemove, IInv, Layout, Fits, BuffersApart
<1>2. Alive' /\ SoleOwner' /\ Leftovers'
  BY DEF EndRemove, IInv, Alive, SoleOwner, Leftovers, LeftAlone, HasLeftover, Slots
<1>. QED
  BY <1>1, <1>2 DEF EndRemove, IInv, Removing

(* v gets what w had, and w becomes empty: every vector but w continues    *)
(* one vector of before, each a different one.                             *)
LEMMA MoveAssignStep ==
  ASSUME IInv, NEW v \in Vectors, NEW w \in Vectors, MoveAssign(v, w)
  PROVE  IInv' /\ MovedOver(v, w)
<1>. USE VectorAssumption, BuffersAssumption
<1>. DEFINE before(x) == IF x = v THEN w ELSE x
<1>1. /\ memory' = memory /\ born' = born /\ deleted' = deleted
      /\ removing' = removing /\ owning' = owning
      /\ vec' \in [Vectors -> VectorType]
      /\ vec'[w] = Empty
      /\ \A x \in Vectors \ {w} : vec'[x] = vec[before(x)] /\ before(x) \in Vectors
      /\ \A x, y \in Vectors \ {w} : before(x) = before(y) => x = y
  BY DEF MoveAssign, Taken, IInv, Layout, VectorType, Empty
<1>2. \A x \in Vectors \ {w} : Slots(x)' = Slots(before(x))
  <2>. HIDE DEF before
  <2>. QED
    BY <1>1 DEF Slots
<1>6. MovedOver(v, w)
  BY <1>1, <1>2 DEF MovedOver, Empty
<1>. HIDE DEF before
<1>3. Layout'
  <2>1. \A x \in Vectors : Fits(vec'[x], memory')
    <3>1. Fits(Empty, memory)
      BY DEF Fits, Empty
    <3>. QED
      BY <1>1, <3>1 DEF IInv, Layout
  <2>2. BuffersApart'
    <3>. SUFFICES ASSUME NEW x \in Vectors, NEW y \in Vectors, x # y, vec'[x].buff = vec'[y].buff
                  PROVE  vec'[x].buff = NoBuffer
      BY DEF BuffersApart
    <3>1. CASE x = w \/ y = w
      BY <1>1, <3>1 DEF Empty
    <3>2. CASE x # w /\ y # w
      BY <1>1, <3>2 DEF IInv, Layout, BuffersApart
    <3>. QED
      BY <3>1, <3>2
  <2>. QED
    BY <1>1, <2>1, <2>2 DEF IInv, Layout
<1>4. Alive'
  <2>. SUFFICES ASSUME NEW x \in Vectors, NEW i \in 0 .. vec'[x].size - 1
                PROVE  Slots(x)'[i] \in born' \ deleted'
    BY <1>1 DEF IInv, Alive
  <2>1. x # w
    BY <1>1 DEF Empty
  <2>. QED
    BY <1>1, <1>2, <2>1 DEF IInv, Alive
<1>5. SoleOwner'
  <2>. SUFFICES ASSUME owning, NEW x \in Vectors, NEW y \in Vectors,
                       NEW i \in 0 .. vec'[x].size - 1, NEW j \in 0 .. vec'[y].size - 1,
                       Slots(x)'[i] = Slots(y)'[j]
                PROVE  x = y /\ i = j
    BY <1>1 DEF SoleOwner
  <2>1. x # w /\ y # w
    BY <1>1 DEF Empty
  <2>2. /\ before(x) \in Vectors /\ before(y) \in Vectors
        /\ i \in 0 .. vec[before(x)].size - 1 /\ j \in 0 .. vec[before(y)].size - 1
        /\ Slots(before(x))[i] = Slots(before(y))[j]
    BY <1>1, <1>2, <2>1
  <2>3. before(x) = before(y) /\ i = j
    BY <2>2 DEF IInv, SoleOwner
  <2>. QED
    BY <1>1, <2>1, <2>3
<1>7. Leftovers'
  <2>. SUFFICES ASSUME owning, NEW x \in Vectors, HasLeftover(x)', Slots(x)'[0] # Raw
                PROVE  LeftAlone(x)'
    BY <1>1 DEF Leftovers
  <2>1. \A y \in Vectors : HasLeftover(y)' => y # w /\ HasLeftover(before(y))
    BY <1>1 DEF HasLeftover, Empty
  <2>2. x # w /\ before(x) \in Vectors /\ Slots(x)' = Slots(before(x))
    BY <1>1, <1>2, <2>1
  <2>3. LeftAlone(before(x))
    BY <2>1, <2>2 DEF IInv, Leftovers
  <2>4. ASSUME NEW y \in Vectors, NEW i \in 0 .. vec'[y].size - 1
        PROVE  Slots(y)'[i] # Slots(x)'[0]
    <3>1. y # w
      BY <1>1 DEF Empty
    <3>2. before(y) \in Vectors /\ i \in 0 .. vec[before(y)].size - 1 /\ Slots(y)' = Slots(before(y))
      BY <1>1, <1>2, <3>1
    <3>. QED
      BY <2>2, <2>3, <3>2 DEF LeftAlone
  <2>5. ASSUME NEW y \in Vectors \ {x}, HasLeftover(y)'
        PROVE  Slots(y)'[0] # Slots(x)'[0]
    <3>1. y # w /\ HasLeftover(before(y))
      BY <2>1, <2>5
    <3>2. before(y) \in Vectors \ {before(x)} /\ Slots(y)' = Slots(before(y))
      BY <1>1, <1>2, <2>2, <3>1
    <3>. QED
      BY <2>2, <2>3, <3>1, <3>2 DEF LeftAlone
  <2>6. Slots(x)'[0] \in born' \ deleted'
    BY <1>1, <2>2, <2>3 DEF LeftAlone
  <2>. QED
    BY <2>4, <2>5, <2>6 DEF LeftAlone
<1>. QED
  BY <1>1, <1>3, <1>4, <1>5, <1>6, <1>7 DEF IInv, Removing

(* Only vectors of numbers are copied: v gets w's elements in a buffer of  *)
(* its own.                                                                *)
LEMMA CopyAssignStep ==
  ASSUME IInv, NEW v \in Vectors, NEW w \in Vectors, CopyAssign(v, w)
  PROVE  IInv' /\ GotElements(v, w)
<1>. USE VectorAssumption, BuffersAssumption
<1>. DEFINE size == vec[w].size
            capacity == vec[w].capacity
            slots == Filled(w, capacity)
<1>1. PICK b \in Buffers \ DOMAIN Freed(vec[v].buff) :
        /\ memory' = With(Freed(vec[v].buff), b, slots)
        /\ vec' = [vec EXCEPT ![v] = [vec[w] EXCEPT !.buff = b]]
  BY DEF CopyAssign
<1>2. size \in Nat /\ capacity \in Nat /\ size <= capacity
  BY DEF IInv, Layout, VectorType, Fits
<1>3. b \notin DOMAIN memory \/ b = vec[v].buff
  BY <1>1 DEF Freed
<1>4. /\ DOMAIN slots = 0 .. capacity - 1
      /\ \A i \in 0 .. size - 1 : slots[i] = Slots(w)[i]
  BY <1>2 DEF Filled
<1>5. Rebuffered(v, b, size, capacity, slots)
  <2>1. [vec[w] EXCEPT !.buff = b] = [buff |-> b, size |-> size, capacity |-> capacity]
    BY DEF IInv, Layout, VectorType
  <2>. QED
    BY <1>1, <2>1 DEF Rebuffered
<1>6. \A i \in 0 .. size - 1 : slots[i] \in born \ deleted
  BY <1>4 DEF IInv, Alive
<1>. HIDE DEF size, capacity, slots
<1>7. /\ Layout'
      /\ vec'[v].size = size /\ Slots(v)' = slots
      /\ \A x \in Vectors \ {v} : vec'[x] = vec[x] /\ Slots(x)' = Slots(x)
  BY <1>1, <1>2, <1>3, <1>4, <1>5, RebufferedLayout DEF IInv
<1>8. born' = born /\ deleted' = deleted /\ removing' = removing /\ ~owning /\ owning' = owning
  BY DEF CopyAssign
<1>9. Alive'
  <2>. SUFFICES ASSUME NEW x \in Vectors, NEW i \in 0 .. vec'[x].size - 1
                PROVE  Slots(x)'[i] \in born' \ deleted'
    BY <1>8 DEF IInv, Alive
  <2>1. CASE x = v
    BY <1>6, <1>7, <1>8, <2>1
  <2>2. CASE x # v
    <3>1. vec[x].size \in Nat
      BY DEF IInv, Layout, VectorType
    <3>2. vec[x].size > 0 /\ i \in 0 .. vec[x].size - 1
      BY <1>7, <2>2, <3>1
    <3>. QED
      BY <1>7, <1>8, <2>2, <3>2 DEF IInv, Alive
  <2>. QED
    BY <2>1, <2>2
<1>10. SoleOwner' /\ Leftovers' /\ Removing'
  BY <1>8 DEF SoleOwner, Leftovers, Removing, IInv
<1>11. GotElements(v, w)
  BY <1>4, <1>7 DEF GotElements, RestKept, size
<1>. QED
  BY <1>7, <1>9, <1>10, <1>11 DEF IInv

LEMMA NextIInv == IInv /\ [Next]_vars => IInv'
<1>. SUFFICES ASSUME IInv, [Next]_vars PROVE IInv'
  OBVIOUS
<1>1. ASSUME NEW v \in Vectors, NEW e \in Elements, push_back(v, e) PROVE IInv'
  BY <1>1, PushStep
<1>2. ASSUME NEW v \in Vectors, NEW c \in Capacities, reserve(v, c) PROVE IInv'
  BY <1>2, ReserveStep
<1>3. ASSUME NEW v \in Vectors, NEW i \in 0 .. MaxSize - 1, remove(v, i) PROVE IInv'
  BY <1>3, RemoveStep
<1>4. ASSUME NEW v \in Vectors, NEW e \in Elements, StartRemove(v, Value[e]) PROVE IInv'
  BY <1>4, StartRemoveStep
<1>5. ASSUME NEW v \in Vectors, NEW w \in Vectors, MoveAssign(v, w) PROVE IInv'
  BY <1>5, MoveAssignStep
<1>6. ASSUME NEW v \in Vectors, NEW w \in Vectors, CopyAssign(v, w) PROVE IInv'
  BY <1>6, CopyAssignStep
<1>7. CASE RemoveRound
  BY <1>7, RemoveRoundStep
<1>8. CASE EndRemove
  BY <1>8, EndRemoveStep
<1>9. CASE UNCHANGED vars
  <2>1. Layout'
    BY <1>9 DEF vars, IInv, Layout, Fits, BuffersApart
  <2>2. Alive' /\ SoleOwner' /\ Leftovers'
    BY <1>9 DEF vars, IInv, Alive, SoleOwner, Leftovers, LeftAlone, HasLeftover, Slots
  <2>. QED
    BY <1>9, <2>1, <2>2 DEF vars, IInv, Removing
<1>. QED
  BY <1>1, <1>2, <1>3, <1>4, <1>5, <1>6, <1>7, <1>8, <1>9 DEF Next

LEMMA IInvAlways == Spec => []IInv
<1>1. Init => IInv
  BY InitIInv
<1>2. IInv /\ [Next]_vars => IInv'
  BY NextIInv
<1>. QED
  BY <1>1, <1>2, PTL DEF Spec

-------------------------------------------------------------------------------
(* Size never exceeds capacity, and capacity is what the buffer has room   *)
(* for, for any number of pushes, reserves, removes, moves and copies      *)
(* (vector.h:12-29, 89-96, 132-157).                                       *)
THEOREM TypeCorrect == Spec => []TypeOK
<1>1. IInv => TypeOK
  BY VectorAssumption DEF IInv, Layout, Removing, Alive, Fits, VectorType, TypeOK, Slots
<1>. QED
  BY <1>1, IInvAlways, PTL

(* No two vectors ever share a buffer: the one that grows cannot delete    *)
(* the other's (vector.h:22, 79-87).                                       *)
THEOREM BuffersStayApart == Spec => []BuffersApart
<1>1. IInv => BuffersApart
  BY DEF IInv, Layout
<1>. QED
  BY <1>1, IInvAlways, PTL

(* No element of a vector is ever deleted or was never constructed, and no *)
(* object is deleted twice, though swapBuffers destroys every slot it      *)
(* moved from and the first one of an empty vector; until that one was raw *)
(* memory (vector.h:18-22).                                                *)
THEOREM ElementsStayAlive == Spec => []ElementsAlive
<1>1. IInv => ElementsAlive
  <2>. SUFFICES ASSUME IInv, NEW v \in Vectors
                PROVE  SwapDeletes(v) \intersect deleted \subseteq {Raw}
    BY DEF IInv, Alive, ElementsAlive
  <2>. QED
    BY SwapDeletesLeftover DEF IInv, Leftovers, LeftAlone
<1>. QED
  BY <1>1, IInvAlways, PTL

(* An object is in one place of one vector, however they are moved         *)
(* (uniqeptr.h:14-22).                                                     *)
THEOREM OneOwner == Spec => []SoleOwner
<1>1. IInv => SoleOwner
  BY DEF IInv
<1>. QED
  BY <1>1, IInvAlways, PTL


-------------------------------------------------------------------------------
(* Vectors are lists.                                                      *)

ListOf(size, slots) == [i \in 1 .. size |-> slots[i - 1]]

LEMMA ListOfType ==
  ASSUME NEW size \in Nat, NEW slots, \A i \in 0 .. size - 1 : slots[i] \in Elements
  PROVE  ListOf(size, slots) \in Seq(Elements) /\ Len(ListOf(size, slots)) = size
<1>1. ListOf(size, slots) \in [1 .. size -> Elements]
  BY DEF ListOf
<1>. QED
  BY <1>1

LEMMA ListOfAppend ==
  ASSUME NEW size \in Nat, NEW slots, NEW next, NEW e \in Elements,
         \A i \in 0 .. size - 1 : slots[i] \in Elements /\ next[i] = slots[i],
         next[size] = e
  PROVE  ListOf(size + 1, next) = Append(ListOf(size, slots), e)
<1>1. /\ ListOf(size, slots) \in Seq(Elements) /\ Len(ListOf(size, slots)) = size
      /\ ListOf(size + 1, next) \in Seq(Elements) /\ Len(ListOf(size + 1, next)) = size + 1
  BY ListOfType
<1>2. \A i \in 1 .. size + 1 :
        ListOf(size + 1, next)[i] = IF i <= size THEN ListOf(size, slots)[i] ELSE e
  BY DEF ListOf
<1>. QED
  BY <1>1, <1>2

LEMMA ListOfWithout ==
  ASSUME NEW size \in Nat, NEW slots, NEW next, NEW index \in 0 .. size - 1,
         \A i \in 0 .. size - 1 : slots[i] \in Elements,
         \A i \in 0 .. size - 2 : next[i] = slots[IF i < index THEN i ELSE i + 1]
  PROVE  ListOf(size - 1, next) = Abstract!WithoutIndex(ListOf(size, slots), index + 1)
<1>. DEFINE list == ListOf(size, slots)
            closed == ListOf(size - 1, next)
            front == SubSeq(list, 1, index)
            back == SubSeq(list, index + 2, size)
<1>1. list \in Seq(Elements) /\ Len(list) = size
  BY ListOfType
<1>2. closed \in Seq(Elements) /\ Len(closed) = size - 1
  <2>1. \A i \in 0 .. size - 2 : next[i] \in Elements
    BY DEF ListOf
  <2>. QED
    BY <2>1, ListOfType
<1>3. \A i \in 1 .. size - 1 : closed[i] = list[IF i <= index THEN i ELSE i + 1]
  BY DEF ListOf
<1>. HIDE DEF list, closed
<1>4. /\ front \in Seq(Elements) /\ Len(front) = index
      /\ \A i \in 1 .. index : front[i] = list[i]
  BY <1>1
<1>5. /\ back \in Seq(Elements) /\ Len(back) = size - 1 - index
      /\ \A i \in 1 .. size - 1 - index : back[i] = list[index + 1 + i]
  <2>1. \A i \in index + 2 .. size : list[i] \in Elements
    BY <1>1
  <2>2. /\ back \in Seq(Elements)
        /\ Len(back) = IF index + 2 <= size THEN size - (index + 2) + 1 ELSE 0
        /\ \A i \in 1 .. size - (index + 2) + 1 : back[i] = list[index + 2 + i - 1]
    BY <2>1, SubSeqProperties
  <2>. HIDE DEF back
  <2>. QED
    BY <2>2
<1>. HIDE DEF front, back
<1>6. closed = front \o back
  <2>1. /\ front \o back \in Seq(Elements) /\ Len(front \o back) = Len(front) + Len(back)
        /\ \A i \in 1 .. Len(front) + Len(back) :
             (front \o back)[i] = IF i <= Len(front) THEN front[i] ELSE back[i - Len(front)]
    BY <1>4, <1>5, ConcatProperties
  <2>2. Len(front) + Len(back) = size - 1
    BY <1>4, <1>5
  <2>3. ASSUME NEW i \in 1 .. size - 1 PROVE closed[i] = (front \o back)[i]
    <3>1. (front \o back)[i] = IF i <= index THEN front[i] ELSE back[i - index]
      BY <1>4, <2>1, <2>2
    <3>2. CASE i <= index
      BY <1>3, <1>4, <3>1, <3>2
    <3>3. CASE ~(i <= index)
      <4>1. i - index \in 1 .. size - 1 - index /\ index + 1 + (i - index) = i + 1
        BY <3>3
      <4>2. back[i - index] = list[i + 1]
        BY <1>5, <4>1
      <4>. QED
        BY <1>3, <3>1, <3>3, <4>2
    <3>. QED
      BY <3>2, <3>3
  <2>. HIDE DEF closed
  <2>. QED
    BY <1>2, <2>1, <2>2, <2>3, SeqEqual
<1>7. Abstract!WithoutIndex(list, index + 1) = front \o back
  BY <1>1 DEF Abstract!WithoutIndex, front, back
<1>. QED
  BY <1>6, <1>7 DEF list, closed

(* Elements of a vector, and what becomes of them.                         *)
LEMMA ContentsAre ==
  ASSUME IInv, NEW v \in Vectors
  PROVE  /\ vec[v].size \in Nat
         /\ Contents(v) = ListOf(vec[v].size, Slots(v))
         /\ Contents(v)' = ListOf(vec'[v].size, Slots(v)')
         /\ \A i \in 0 .. vec[v].size - 1 : Slots(v)[i] \in Elements
BY DEF IInv, Layout, VectorType, Alive, Contents, ListOf

LEMMA ContentsKept ==
  ASSUME NEW v \in Vectors, RestKept(v), NEW w \in Vectors \ {v}
  PROVE  Contents(w)' = Contents(w)
BY DEF RestKept, Contents

AsLists == [v \in Vectors |-> Contents(v)]

LEMMA PushAppends ==
  ASSUME IInv, NEW v \in Vectors, NEW e \in Elements, Pushed(v, e)
  PROVE  AsLists' = [AsLists EXCEPT ![v] = Append(AsLists[v], e)]
<1>1. Contents(v)' = Append(Contents(v), e)
  <2>1. /\ vec'[v].size = vec[v].size + 1 /\ Slots(v)'[vec[v].size] = e
        /\ \A i \in 0 .. vec[v].size - 1 : Slots(v)'[i] = Slots(v)[i]
    BY DEF Pushed
  <2>2. PICK size, slots, next :
          size = vec[v].size /\ slots = Slots(v) /\ next = Slots(v)'
    OBVIOUS
  <2>3. /\ size \in Nat /\ Contents(v) = ListOf(size, slots)
        /\ \A i \in 0 .. size - 1 : slots[i] \in Elements
    BY <2>2, ContentsAre
  <2>4. Contents(v)' = ListOf(size + 1, next)
    BY <2>1, <2>2, ContentsAre
  <2>5. \A i \in 0 .. size - 1 : slots[i] \in Elements /\ next[i] = slots[i]
    BY <2>1, <2>2, <2>3
  <2>6. next[size] = e
    BY <2>1, <2>2
  <2>7. ListOf(size + 1, next) = Append(ListOf(size, slots), e)
    BY <2>3, <2>5, <2>6, ListOfAppend
  <2>. QED
    BY <2>3, <2>4, <2>7
<1>2. \A w \in Vectors \ {v} : Contents(w)' = Contents(w)
  BY ContentsKept DEF Pushed
<1>. QED
  BY <1>1, <1>2 DEF AsLists

LEMMA ElementsCopied ==
  ASSUME IInv, NEW v \in Vectors, NEW w \in Vectors, GotElements(v, w)
  PROVE  AsLists' = [AsLists EXCEPT ![v] = AsLists[w]]
<1>1. Contents(v)' = Contents(w)
  <2>1. Contents(v)' = ListOf(vec[w].size, Slots(v)')
    BY ContentsAre DEF GotElements
  <2>2. \A i \in 1 .. vec[w].size : Slots(v)'[i - 1] = Slots(w)[i - 1]
    BY ContentsAre DEF GotElements
  <2>. QED
    BY <2>1, <2>2, ContentsAre DEF ListOf
<1>2. \A x \in Vectors \ {v} : Contents(x)' = Contents(x)
  BY ContentsKept DEF GotElements
<1>. QED
  BY <1>1, <1>2 DEF AsLists

LEMMA ElementRemoved ==
  ASSUME IInv, NEW v \in Vectors, NEW index \in Nat, index < vec[v].size, ClosedUp(v, index)
  PROVE  /\ index + 1 \in DOMAIN AsLists[v]
         /\ AsLists' = [AsLists EXCEPT ![v] = Abstract!WithoutIndex(AsLists[v], index + 1)]
<1>1. Contents(v)' = Abstract!WithoutIndex(Contents(v), index + 1)
  <2>1. index \in 0 .. vec[v].size - 1
    BY ContentsAre
  <2>2. ListOf(vec[v].size - 1, Slots(v)')
          = Abstract!WithoutIndex(ListOf(vec[v].size, Slots(v)), index + 1)
    BY <2>1, ContentsAre, ListOfWithout DEF ClosedUp
  <2>. QED
    BY <2>2, ContentsAre DEF ClosedUp
<1>2. \A w \in Vectors \ {v} : Contents(w)' = Contents(w)
  BY ContentsKept DEF ClosedUp
<1>3. index + 1 \in DOMAIN Contents(v)
  BY ContentsAre DEF ListOf
<1>. QED
  BY <1>1, <1>2, <1>3 DEF AsLists

LEMMA ElementsMoved ==
  ASSUME IInv, NEW v \in Vectors, NEW w \in Vectors, MovedOver(v, w)
  PROVE  AsLists' = [[AsLists EXCEPT ![v] = AsLists[w]] EXCEPT ![w] = << >>]
<1>1. Contents(w)' = << >>
  BY ContentsAre DEF MovedOver, ListOf
<1>2. \A x \in Vectors \ {w} : Contents(x)' = Contents(IF x = v THEN w ELSE x)
  BY ContentsAre DEF MovedOver
<1>. QED
  BY <1>1, <1>2 DEF AsLists

LEMMA ListsStep ==
  ASSUME IInv, [Next]_vars
  PROVE  [Abstract!Next]_AsLists
<1>. USE DEF Abstract!Next
<1>1. ASSUME NEW v \in Vectors, NEW e \in Elements, push_back(v, e) PROVE Abstract!Append1(v)
  BY <1>1, PushStep, PushAppends DEF Abstract!Append1, AsLists
<1>2. ASSUME NEW v \in Vectors, NEW c \in Capacities, reserve(v, c) PROVE AsLists' = AsLists
  BY <1>2, ReserveStep, ElementsCopied DEF AsLists
<1>3. ASSUME NEW v \in Vectors, NEW i \in 0 .. MaxSize - 1, remove(v, i) PROVE Abstract!Remove1(v)
  <2>1. ClosedUp(v, i) /\ i \in Nat /\ i < vec[v].size
    BY <1>3, VectorAssumption, BuffersAssumption, RemoveAtKeeps DEF remove
  <2>. QED
    BY <2>1, ElementRemoved DEF Abstract!Remove1, AsLists
<1>4. CASE RemoveRound
  <2>. DEFINE v == removing.vector
  <2>1. /\ owning /\ v \in Vectors /\ removing.index \in Nat /\ removing.index < vec[v].size
        /\ born' = born /\ deleted' = deleted /\ owning' = owning
    BY <1>4 DEF RemoveRound, IInv, Removing
  <2>2. CASE RemoveAt(v, removing.index)
    <3>. HIDE DEF v
    <3>1. ClosedUp(v, removing.index)
      BY <2>1, <2>2, RemoveAtKeeps
    <3>2. Abstract!Remove1(v)
      BY <2>1, <3>1, ElementRemoved DEF Abstract!Remove1, AsLists
    <3>. QED
      BY <2>1, <3>2
  <2>3. CASE UNCHANGED <<vec, memory>>
    BY <2>3 DEF AsLists, Contents, Slots
  <2>. QED
    BY <1>4, <2>2, <2>3 DEF RemoveRound
<1>5. ASSUME NEW v \in Vectors, NEW w \in Vectors, MoveAssign(v, w) PROVE Abstract!Take(v, w)
  BY <1>5, MoveAssignStep, ElementsMoved DEF Abstract!Take, AsLists
<1>6. ASSUME NEW v \in Vectors, NEW w \in Vectors, CopyAssign(v, w) PROVE Abstract!Copy(v, w)
  BY <1>6, CopyAssignStep, ElementsCopied DEF Abstract!Copy, AsLists
<1>7. ASSUME UNCHANGED <<vec, memory>> PROVE AsLists' = AsLists
  BY <1>7 DEF AsLists, Contents, Slots
<1>8. ASSUME NEW v \in Vectors, NEW x, StartRemove(v, x) PROVE UNCHANGED <<vec, memory>>
  BY <1>8 DEF StartRemove
<1>9. CASE EndRemove \/ UNCHANGED vars
  BY <1>7, <1>9 DEF EndRemove, vars
<1>. QED
  BY <1>1, <1>2, <1>3, <1>4, <1>5, <1>6, <1>7, <1>8, <1>9 DEF Next

(* Whatever buffers the elements are moved to, each operation appends to   *)
(* one list, takes one element out of it, moves or copies it, and leaves   *)
(* all others as they are (vector.h).                                      *)
THEOREM ImplementsLists == Spec => RefinesLists
<1>1. Init => Abstract!Init
  <2>. SUFFICES ASSUME Init PROVE AsLists = [v \in Vectors |-> << >>]
    BY DEF Abstract!Init, AsLists
  <2>. QED
    BY DEF Init, AsLists, Contents, Empty
<1>2. IInv /\ [Next]_vars => [Abstract!Next]_([v \in Vectors |-> Contents(v)])
  BY ListsStep DEF AsLists
<1>. QED
  BY <1>1, <1>2, IInvAlways, PTL DEF Spec, RefinesLists, Abstract!Spec

-------------------------------------------------------------------------------
(* What remove(const U&) has done when the elements up to index, of the    *)
(* list that is left, are behind it: from tells where each was before.     *)
(* The elements it has not come to have moved down together.               *)
Remains(from, before, after, index, value) ==
  LET taken == DOMAIN before \ {from[i] : i \in DOMAIN after}
  IN  /\ from \in Places(before, after)
      /\ \A i \in DOMAIN after : i > index => from[i] = i + (Len(before) - Len(after))
      /\ \A p \in taken : Value[before[p]] = value
      /\ \A i \in DOMAIN after :
           i <= index /\ Value[before[from[i]]] = value => from[i] - 1 \in taken

Progress ==
  removing # Idle =>
    /\ removing.before \in Seq(Elements)
    /\ vec[removing.vector].size <= Len(removing.before)
    /\ \E from : Remains(from, removing.before, Contents(removing.vector),
                         removing.index, removing.value)

(* The loop passes over an element that is not equal, ...                  *)
LEMMA PassedOver ==
  ASSUME NEW before \in Seq(Elements), NEW after \in Seq(Elements), NEW index \in Nat,
         NEW value, NEW from, Remains(from, before, after, index, value),
         index < Len(after), Value[after[index + 1]] # value
  PROVE  Remains(from, before, after, index + 1, value)
<1>1. DOMAIN after = 1 .. Len(after) /\ Len(after) \in Nat
  OBVIOUS
<1>2. index + 1 \in DOMAIN after
  BY <1>1
<1>3. Value[before[from[index + 1]]] # value
  BY <1>2 DEF Remains, Places
<1>4. \A i \in DOMAIN after : i <= index + 1 /\ Value[before[from[i]]] = value => i <= index
  BY <1>1, <1>3
<1>5. \A i \in DOMAIN after : i > index + 1 => i > index
  BY <1>1
<1>. QED
  BY <1>4, <1>5 DEF Remains

(* ... and takes out one that is, over the one that moves into the gap.    *)
LEMMA TakenOut ==
  ASSUME NEW before \in Seq(Elements), NEW after \in Seq(Elements), NEW index \in Nat,
         NEW value, NEW from, Remains(from, before, after, index, value),
         index < Len(after), Value[after[index + 1]] = value,
         NEW next \in Seq(Elements), Len(next) = Len(after) - 1,
         \A i \in 1 .. Len(next) : next[i] = after[IF i <= index THEN i ELSE i + 1]
  PROVE  \E to : Remains(to, before, next, index + 1, value)
<1>. DEFINE old(i) == IF i <= index THEN i ELSE i + 1
            to == [i \in DOMAIN next |-> from[old(i)]]
            left == {from[i] : i \in DOMAIN after}
            remain == {to[i] : i \in DOMAIN next}
            gap == from[index + 1]
<1>1. /\ DOMAIN after = 1 .. Len(after) /\ Len(after) \in Nat
      /\ DOMAIN next = 1 .. Len(next) /\ Len(next) \in Nat
      /\ DOMAIN before = 1 .. Len(before) /\ Len(before) \in Nat
  OBVIOUS
<1>2. /\ from \in [DOMAIN after -> DOMAIN before]
      /\ \A i, j \in DOMAIN after : i < j => from[i] < from[j]
      /\ \A i \in DOMAIN after : after[i] = before[from[i]]
      /\ \A i \in DOMAIN after : i > index => from[i] = i + (Len(before) - Len(after))
      /\ \A p \in DOMAIN before \ left : Value[before[p]] = value
      /\ \A i \in DOMAIN after :
           i <= index /\ Value[before[from[i]]] = value => from[i] - 1 \in DOMAIN before \ left
  BY DEF Remains, Places
<1>3. /\ index + 1 \in DOMAIN after
      /\ \A i \in DOMAIN next : old(i) \in DOMAIN after /\ old(i) # index + 1
      /\ \A i, j \in DOMAIN next : i < j => old(i) < old(j)
  BY <1>1
<1>4. \A i \in DOMAIN next : to[i] = from[old(i)] /\ next[i] = after[old(i)]
  BY <1>1
<1>5. to \in [DOMAIN next -> DOMAIN before]
  BY <1>2, <1>3
<1>6. gap \in DOMAIN before /\ Value[before[gap]] = value
  BY <1>2, <1>3
<1>7. \A i, j \in DOMAIN after : from[i] = from[j] => i = j
  <2>. SUFFICES ASSUME NEW i \in DOMAIN after, NEW j \in DOMAIN after, i # j
                PROVE  from[i] # from[j]
    OBVIOUS
  <2>1. i < j \/ j < i
    BY <1>1
  <2>2. from[i] \in Int /\ from[j] \in Int
    BY <1>1, <1>2
  <2>. QED
    BY <1>2, <2>1, <2>2
<1>8. DOMAIN before \ remain = (DOMAIN before \ left) \union {gap}
  <2>1. gap \notin remain
    BY <1>3, <1>4, <1>7
  <2>2. remain \subseteq left
    BY <1>3, <1>4
  <2>3. ASSUME NEW i \in DOMAIN after, i # index + 1 PROVE from[i] \in remain
    <3>. DEFINE j == IF i <= index THEN i ELSE i - 1
    <3>1. j \in DOMAIN next /\ old(j) = i
      BY <1>1, <2>3
    <3>. QED
      BY <1>4, <3>1
  <2>4. left \subseteq remain \union {gap}
    BY <2>3
  <2>. HIDE DEF remain, left, gap
  <2>. QED
    BY <1>6, <2>1, <2>2, <2>4
<1>. HIDE DEF remain, left, gap
<1>9. to \in Places(before, next)
  <2>1. \A i, j \in DOMAIN next : i < j => to[i] < to[j]
    BY <1>2, <1>3, <1>4
  <2>2. \A i \in DOMAIN next : next[i] = before[to[i]]
    BY <1>2, <1>3, <1>4
  <2>. HIDE DEF to
  <2>. QED
    BY <1>5, <2>1, <2>2 DEF Places
<1>. HIDE DEF to
<1>10. ASSUME NEW i \in DOMAIN next, i > index
       PROVE  to[i] = i + 1 + (Len(before) - Len(after))
  <2>1. old(i) = i + 1 /\ i + 1 \in DOMAIN after /\ i + 1 > index
    BY <1>1, <1>10
  <2>. QED
    BY <1>2, <1>4, <2>1
<1>11. \A i \in DOMAIN next : i > index + 1 => to[i] = i + (Len(before) - Len(next))
  <2>. SUFFICES ASSUME NEW i \in DOMAIN next, i > index + 1
                PROVE  to[i] = i + (Len(before) - Len(next))
    OBVIOUS
  <2>1. i \in Nat /\ i > index
    BY <1>1
  <2>2. to[i] = i + 1 + (Len(before) - Len(after))
    BY <1>10, <2>1
  <2>3. i + 1 + (Len(before) - Len(after)) = i + (Len(before) - Len(next))
    BY <1>1, <2>1
  <2>. QED
    BY <2>2, <2>3
<1>12. \A p \in DOMAIN before \ remain : Value[before[p]] = value
  BY <1>2, <1>6, <1>8
<1>13. ASSUME NEW i \in DOMAIN next, i <= index + 1, Value[before[to[i]]] = value
       PROVE  to[i] - 1 \in DOMAIN before \ remain
  <2>1. CASE i <= index
    <3>1. i \in DOMAIN after /\ to[i] = from[i]
      BY <1>1, <1>3, <1>4, <2>1
    <3>. QED
      BY <1>2, <1>8, <1>13, <2>1, <3>1
  <2>2. CASE i = index + 1
    <3>1. to[i] = index + 1 + 1 + (Len(before) - Len(after))
      <4>1. i > index
        BY <2>2
      <4>2. to[i] = i + 1 + (Len(before) - Len(after))
        BY <1>10, <4>1
      <4>. QED
        BY <2>2, <4>2
    <3>2. gap = index + 1 + (Len(before) - Len(after))
      BY <1>2, <1>3 DEF gap
    <3>3. to[i] - 1 = gap
      BY <1>1, <3>1, <3>2
    <3>. QED
      BY <1>6, <1>8, <3>3
  <2>. QED
    BY <1>1, <1>13, <2>1, <2>2
<1>14. Remains(to, before, next, index + 1, value)
  <2>1. \A i \in DOMAIN next : i <= index + 1 /\ Value[before[to[i]]] = value
          => to[i] - 1 \in DOMAIN before \ remain
    BY <1>13
  <2>. QED
    BY <1>9, <1>11, <1>12, <2>1 DEF Remains, remain
<1>. QED
  BY <1>14

(* In the beginning everything is where it was.                            *)
LEMMA NothingTaken ==
  ASSUME NEW before \in Seq(Elements), NEW value
  PROVE  \E from : Remains(from, before, before, 0, value)
<1>. DEFINE from == [i \in DOMAIN before |-> i]
<1>1. /\ from \in Places(before, before)
      /\ \A i \in DOMAIN before : from[i] = i /\ i \in Nat /\ i > 0
      /\ {from[i] : i \in DOMAIN before} = DOMAIN before
  <2>1. DOMAIN before = 1 .. Len(before)
    OBVIOUS
  <2>2. from \in [DOMAIN before -> DOMAIN before] /\ \A i \in DOMAIN before : from[i] = i
    OBVIOUS
  <2>. HIDE DEF from
  <2>3. from \in Places(before, before)
    BY <2>2 DEF Places
  <2>4. {from[i] : i \in DOMAIN before} = DOMAIN before
    BY <2>2
  <2>. QED
    BY <2>1, <2>2, <2>3, <2>4
<1>. HIDE DEF from
<1>2. \A i \in DOMAIN before : from[i] = i + (Len(before) - Len(before))
  BY <1>1
<1>3. \A i \in DOMAIN before : ~(i <= 0)
  BY <1>1
<1>. QED
  BY <1>1, <1>2, <1>3 DEF Remains

TypedContents ==
  \A v \in Vectors :
    /\ Contents(v) \in Seq(Elements) /\ Len(Contents(v)) = vec[v].size
    /\ \A i \in DOMAIN Contents(v) : Contents(v)[i] = Slots(v)[i - 1]

LEMMA ContentsType == IInv => TypedContents
<1>. SUFFICES ASSUME IInv, NEW v \in Vectors
              PROVE  /\ Contents(v) \in Seq(Elements) /\ Len(Contents(v)) = vec[v].size
                     /\ \A i \in DOMAIN Contents(v) : Contents(v)[i] = Slots(v)[i - 1]
  BY DEF TypedContents
<1>1. /\ vec[v].size \in Nat
      /\ Contents(v) = ListOf(vec[v].size, Slots(v))
      /\ \A i \in 0 .. vec[v].size - 1 : Slots(v)[i] \in Elements
  BY ContentsAre
<1>. QED
  BY <1>1, ListOfType DEF ListOf

LEMMA StartProgress ==
  ASSUME IInv, NEW v \in Vectors, NEW x, StartRemove(v, x)
  PROVE  Progress'
<1>1. /\ removing'.vector = v /\ removing'.value = x /\ removing'.index = 0
      /\ removing'.before = Contents(v)
      /\ vec' = vec /\ Contents(v)' = Contents(v)
  BY DEF StartRemove, Contents, Slots
<1>2. Contents(v) \in Seq(Elements) /\ Len(Contents(v)) = vec[v].size
  BY ContentsType DEF TypedContents
<1>3. \E from : Remains(from, Contents(v), Contents(v), 0, x)
  BY <1>2, NothingTaken
<1>4. vec[v].size <= vec[v].size
  BY ContentsAre
<1>. QED
  BY <1>1, <1>2, <1>3, <1>4 DEF Progress

LEMMA RoundProgress ==
  ASSUME IInv, Progress, RemoveRound
  PROVE  Progress'
<1>1. PICK v : v = removing.vector
  OBVIOUS
<1>2. PICK index : index = removing.index
  OBVIOUS
<1>3. PICK value : value = removing.value
  OBVIOUS
<1>4. PICK before : before = removing.before
  OBVIOUS
<1>5. /\ owning /\ v \in Vectors /\ index \in Nat /\ index < vec[v].size
      /\ born' = born /\ deleted' = deleted /\ owning' = owning
  BY <1>1, <1>2 DEF RemoveRound, IInv, Removing
<1>6. /\ removing'.vector = v /\ removing'.value = value /\ removing'.before = before
      /\ removing'.index = index + 1
  BY <1>1, <1>2, <1>3, <1>4 DEF RemoveRound
<1>7. before \in Seq(Elements) /\ vec[v].size <= Len(before)
  BY <1>1, <1>4 DEF Progress, RemoveRound
<1>8. PICK from : Remains(from, before, Contents(v), index, value)
  BY <1>1, <1>2, <1>3, <1>4 DEF Progress, RemoveRound
<1>9. /\ Contents(v) \in Seq(Elements) /\ Len(Contents(v)) = vec[v].size
      /\ \A i \in DOMAIN Contents(v) : Contents(v)[i] = Slots(v)[i - 1]
  BY <1>5, ContentsType DEF TypedContents
<1>10. vec[v].size \in Nat
  BY <1>5, ContentsAre
<1>11. Contents(v)[index + 1] = Slots(v)[index]
  BY <1>5, <1>9, <1>10
<1>12. SUFFICES /\ vec'[v].size <= Len(before)
                /\ \E to : Remains(to, before, Contents(v)', index + 1, value)
  BY <1>6, <1>7 DEF Progress
<1>13. CASE Value[Slots(v)[index]] = value
  <2>1. RemoveAt(v, index)
    BY <1>1, <1>2, <1>3, <1>13 DEF RemoveRound, Matches
  <2>2. ClosedUp(v, index) /\ IInv'
    BY <1>5, <2>1, RemoveAtKeeps, RemoveRoundStep
  <2>3. vec'[v].size = vec[v].size - 1
    BY <2>2 DEF ClosedUp
  <2>4. /\ Contents(v)' \in Seq(Elements) /\ Len(Contents(v)') = vec'[v].size
        /\ \A i \in DOMAIN Contents(v)' : Contents(v)'[i] = Slots(v)'[i - 1]
    <3>1. TypedContents'
      BY <2>2, ContentsType, PTL
    <3>. QED
      BY <1>5, <3>1 DEF TypedContents
  <2>5. ASSUME NEW i \in 1 .. vec[v].size - 1
        PROVE  Contents(v)'[i] = Contents(v)[IF i <= index THEN i ELSE i + 1]
    <3>1. i \in DOMAIN Contents(v)'
      BY <1>10, <2>3, <2>4
    <3>2. Contents(v)'[i] = Slots(v)'[i - 1]
      BY <2>4, <3>1
    <3>3. i - 1 \in 0 .. vec[v].size - 2
      BY <1>10
    <3>4. Slots(v)'[i - 1] = Slots(v)[IF i - 1 < index THEN i - 1 ELSE i - 1 + 1]
      BY <2>2, <3>3 DEF ClosedUp
    <3>5. CASE i <= index
      <4>1. i - 1 < index /\ i \in DOMAIN Contents(v)
        BY <1>5, <1>9, <1>10, <3>5
      <4>. QED
        BY <1>9, <3>2, <3>4, <3>5, <4>1
    <3>6. CASE ~(i <= index)
      <4>1. ~(i - 1 < index) /\ i + 1 \in DOMAIN Contents(v) /\ i - 1 + 1 = i + 1 - 1
        BY <1>5, <1>9, <1>10, <3>6
      <4>. QED
        BY <1>9, <3>2, <3>4, <3>6, <4>1
    <3>. QED
      BY <3>5, <3>6
  <2>6. PICK after : after = Contents(v)
    OBVIOUS
  <2>7. PICK next : next = Contents(v)'
    OBVIOUS
  <2>8. /\ after \in Seq(Elements) /\ index < Len(after)
        /\ Remains(from, before, after, index, value) /\ Value[after[index + 1]] = value
    BY <1>5, <1>8, <1>9, <1>11, <1>13, <2>6
  <2>9. /\ next \in Seq(Elements) /\ Len(next) = Len(after) - 1
        /\ \A i \in 1 .. Len(next) : next[i] = after[IF i <= index THEN i ELSE i + 1]
    BY <1>9, <2>3, <2>4, <2>5, <2>6, <2>7
  <2>10. \E to : Remains(to, before, next, index + 1, value)
    BY <1>5, <1>7, <2>8, <2>9, TakenOut
  <2>. QED
    BY <1>7, <1>10, <2>3, <2>7, <2>10
<1>14. CASE Value[Slots(v)[index]] # value
  <2>1. UNCHANGED <<vec, memory>>
    BY <1>1, <1>2, <1>3, <1>14 DEF RemoveRound, Matches
  <2>2. Contents(v)' = Contents(v)
    BY <2>1 DEF Contents, Slots
  <2>3. PICK after : after = Contents(v)
    OBVIOUS
  <2>4. Remains(from, before, after, index + 1, value)
    <3>1. /\ after \in Seq(Elements) /\ index < Len(after)
          /\ Remains(from, before, after, index, value) /\ Value[after[index + 1]] # value
      BY <1>5, <1>8, <1>9, <1>11, <1>14, <2>3
    <3>. QED
      BY <1>5, <1>7, <3>1, PassedOver
  <2>. QED
    BY <1>7, <2>1, <2>2, <2>3, <2>4
<1>. QED
  BY <1>13, <1>14

LEMMA ProgressAlways == Spec => []Progress
<1>1. Init => Progress
  BY DEF Init, Progress
<1>2. IInv /\ Progress /\ [Next]_vars => Progress'
  <2>. SUFFICES ASSUME IInv, Progress, [Next]_vars PROVE Progress'
    OBVIOUS
  <2>1. ASSUME removing' = Idle PROVE Progress'
    BY <2>1 DEF Progress, Idle
  <2>2. ASSUME NEW v \in Vectors, NEW x, StartRemove(v, x) PROVE Progress'
    BY <2>2, StartProgress
  <2>3. CASE RemoveRound
    BY <2>3, RoundProgress
  <2>4. CASE UNCHANGED vars
    BY <2>4 DEF vars, Progress, Contents, Slots
  <2>5. CASE EndRemove
    BY <2>1, <2>5 DEF EndRemove
  <2>6. ASSUME NEW v \in Vectors, NEW e \in Elements, push_back(v, e) PROVE Progress'
    BY <2>1, <2>6 DEF push_back
  <2>7. ASSUME NEW v \in Vectors, NEW c \in Capacities, reserve(v, c) PROVE Progress'
    BY <2>1, <2>7 DEF reserve
  <2>8. ASSUME NEW v \in Vectors, NEW i \in 0 .. MaxSize - 1, remove(v, i) PROVE Progress'
    BY <2>1, <2>8 DEF remove
  <2>9. ASSUME NEW v \in Vectors, NEW w \in Vectors, MoveAssign(v, w) \/ CopyAssign(v, w)
        PROVE  Progress'
    BY <2>1, <2>9 DEF MoveAssign, CopyAssign
  <2>. QED
    BY <2>2, <2>3, <2>4, <2>5, <2>6, <2>7, <2>8, <2>9 DEF Next
<1>. QED
  BY <1>1, <1>2, IInvAlways, PTL DEF Spec

(* remove(const U&) takes out only elements that are equal, leaves the     *)
(* others in their order, and an equal one only right behind one it took   *)
(* out, for a list of any length; contains then finds only what is in the  *)
(* list, though the pointers removed last stay in the buffer               *)
(* (vector.h:113-157).                                                     *)
THEOREM RemovedStaysGone == Spec => []RemovedIsGone
<1>1. IInv /\ Progress => RemoveTakesEqual
  <2>. SUFFICES ASSUME IInv, Progress, removing # Idle,
                       removing.index >= vec[removing.vector].size
                PROVE  RemoveTakesEqual
    BY DEF RemoveTakesEqual
  <2>1. PICK after : after = Contents(removing.vector)
    OBVIOUS
  <2>2. PICK before : before = removing.before
    OBVIOUS
  <2>3. PICK from : Remains(from, before, after, removing.index, removing.value)
    BY <2>1, <2>2 DEF Progress
  <2>4. \A i \in DOMAIN after : i <= removing.index
    <3>1. /\ removing.vector \in Vectors /\ removing.index \in Nat
      BY DEF IInv, Removing
    <3>2. DOMAIN after = 1 .. vec[removing.vector].size
      BY <2>1 DEF Contents
    <3>3. vec[removing.vector].size \in Nat
      BY <3>1, ContentsAre
    <3>. QED
      BY <3>1, <3>2, <3>3
  <2>5. DOMAIN from = DOMAIN after
    BY <2>3 DEF Remains, Places
  <2>. QED
    BY <2>1, <2>2, <2>3, <2>4, <2>5 DEF RemoveTakesEqual, Remains
<1>2. IInv => ContainsOnlyElements
  BY DEF IInv, Layout, VectorType, ContainsOnlyElements, contains, Walked
<1>. QED
  BY <1>1, <1>2, IInvAlways, ProgressAlways, PTL DEF RemovedIsGone

-------------------------------------------------------------------------------
(* Strings.  What a string says of its buffer, and what buffers hold.      *)
Byte == Letters \union {Terminator, Unwritten}

Room(string, mem) ==
  \/ string.buf = NoBuffer /\ string.length = 0
  \/ /\ string.buf \in DOMAIN mem
     /\ string.cap = Len(mem[string.buf])
     /\ string.length \in 0 .. string.cap

StringType == [buf : Buffers \union {NoBuffer}, length : Nat, cap : Int]

Stores ==
  /\ str \in [Strings -> StringType]
  /\ DOMAIN characters \subseteq Buffers
  /\ \A b \in DOMAIN characters : characters[b] \in Seq(Byte)
  /\ \A s \in Strings : Room(str[s], characters)
  /\ StringsApart

(* The terminator is the last byte and no other.                           *)
Ends(bytes) == \A i \in 1 .. Len(bytes) : bytes[i] = Terminator <=> i = Len(bytes)

StringsInv ==
  /\ Stores /\ status \in {Running, "astray", "unterminated"}
  /\ status = Running => \A s \in Strings : Ends(Bytes(s))

(* What an action does to the bytes of strings: those of s become bytes.   *)
BytesBecome(s, bytes) ==
  /\ Bytes(s)' = bytes
  /\ \A r \in Strings \ {s} : Bytes(r)' = Bytes(r)

LEMMA BytesType ==
  ASSUME Stores, NEW s \in Strings
  PROVE  /\ Bytes(s) \in Seq(Byte) /\ Len(Bytes(s)) = str[s].length /\ str[s].length \in Nat
         /\ str[s].length > 0 =>
              /\ str[s].buf \in Buffers /\ str[s].buf \in DOMAIN characters
              /\ characters[str[s].buf] \in Seq(Byte)
              /\ str[s].cap = Len(characters[str[s].buf]) /\ str[s].length <= str[s].cap
              /\ \A i \in 1 .. str[s].length : Bytes(s)[i] = characters[str[s].buf][i]
<1> USE BuffersAssumption
<1>1. str[s] \in StringType /\ Room(str[s], characters) /\ str[s].length \in Nat
  BY DEF Stores, StringType
<1>2. CASE str[s].length = 0
  <2>1. Bytes(s) = << >>
    BY <1>2 DEF Bytes
  <2> QED
    BY <1>2, <2>1, EmptySeq
<1>3. CASE str[s].length # 0
  <2> DEFINE buffer == characters[str[s].buf]
  <2>1. /\ str[s].buf \in DOMAIN characters /\ str[s].cap = Len(buffer)
        /\ str[s].length \in 0 .. str[s].cap
    BY <1>1, <1>3 DEF Room
  <2>2. buffer \in Seq(Byte) /\ str[s].buf \in Buffers
    BY <2>1 DEF Stores
  <2>3. Len(buffer) \in Nat
    BY <2>2, LenProperties
  <2> HIDE DEF buffer
  <2>4. str[s].length \in 1 .. Len(buffer)
    BY <1>3, <2>1, <2>3
  <2>5. \A i \in 1 .. str[s].length : buffer[i] \in Byte
    <3> TAKE i \in 1 .. str[s].length
    <3>1. i \in 1 .. Len(buffer)
      BY <2>3, <2>4
    <3> QED
      BY <2>2, <3>1, ElementOfSeq
  <2>6. Bytes(s) = SubSeq(buffer, 1, str[s].length)
    BY <1>3 DEF Bytes, buffer
  <2>7. /\ SubSeq(buffer, 1, str[s].length) \in Seq(Byte)
        /\ Len(SubSeq(buffer, 1, str[s].length)) =
             IF 1 <= str[s].length THEN str[s].length - 1 + 1 ELSE 0
        /\ \A i \in 1 .. str[s].length - 1 + 1 :
             SubSeq(buffer, 1, str[s].length)[i] = buffer[1 + i - 1]
    BY <1>1, <2>5, SubSeqProperties
  <2>8. Len(Bytes(s)) = str[s].length
    BY <2>4, <2>6, <2>7, <2>3
  <2>9. \A i \in 1 .. str[s].length : Bytes(s)[i] = buffer[i]
    <3> TAKE i \in 1 .. str[s].length
    <3>1. i \in 1 .. str[s].length - 1 + 1 /\ 1 + i - 1 = i
      BY <1>1
    <3> QED
      BY <2>6, <2>7, <3>1
  <2> QED
    BY <1>1, <2>1, <2>2, <2>4, <2>6, <2>7, <2>8, <2>9 DEF buffer
<1> QED
  BY <1>2, <1>3

(* Buffer and fields of s change, and no buffer of another string does.    *)
LEMMA StoresChange ==
  ASSUME Stores, NEW s \in Strings, NEW e \in StringType,
         str' = [str EXCEPT ![s] = e],
         DOMAIN characters' \subseteq Buffers,
         \A b \in DOMAIN characters' : characters'[b] \in Seq(Byte),
         Room(e, characters'),
         \A r \in Strings \ {s} : str[r].buf # NoBuffer =>
           /\ str[r].buf # e.buf /\ str[r].buf \in DOMAIN characters'
           /\ characters'[str[r].buf] = characters[str[r].buf]
  PROVE  /\ Stores'
         /\ BytesBecome(s, IF e.length = 0 THEN << >> ELSE SubSeq(characters'[e.buf], 1, e.length))
<1> USE BuffersAssumption
<1>1. /\ str'[s] = e /\ \A r \in Strings \ {s} : str'[r] = str[r]
      /\ str' \in [Strings -> StringType]
  BY DEF Stores
<1>2. \A r \in Strings \ {s} : Room(str'[r], characters')
  <2> SUFFICES ASSUME NEW r \in Strings \ {s}
               PROVE  Room(str[r], characters')
    BY <1>1
  <2>1. Room(str[r], characters)
    BY DEF Stores
  <2>2. CASE str[r].buf = NoBuffer
    <3>1. str[r].length = 0
      BY <2>1, <2>2 DEF Room, Stores
    <3> QED
      BY <2>2, <3>1 DEF Room
  <2>3. CASE str[r].buf # NoBuffer
    BY <2>1, <2>3 DEF Room
  <2> QED
    BY <2>2, <2>3
<1>3. StringsApart'
  <2> SUFFICES ASSUME NEW x \in Strings, NEW y \in Strings, x # y, str'[x].buf = str'[y].buf
               PROVE  str'[x].buf = NoBuffer
    BY DEF StringsApart
  <2>1. CASE x # s /\ y # s
    BY <1>1, <2>1 DEF Stores, StringsApart
  <2>2. CASE x = s
    BY <1>1, <2>2
  <2>3. CASE y = s
    BY <1>1, <2>3
  <2> QED
    BY <2>1, <2>2, <2>3
<1>4. Stores'
  BY <1>1, <1>2, <1>3 DEF Stores
<1>5. Bytes(s)' = IF e.length = 0 THEN << >> ELSE SubSeq(characters'[e.buf], 1, e.length)
  BY <1>1 DEF Bytes
<1>6. \A r \in Strings \ {s} : Bytes(r)' = Bytes(r)
  <2> SUFFICES ASSUME NEW r \in Strings \ {s}
               PROVE  Bytes(r)' = Bytes(r)
    OBVIOUS
  <2>1. CASE str[r].length = 0
    BY <1>1, <2>1 DEF Bytes
  <2>2. CASE str[r].length # 0
    <3>1. str[r].buf # NoBuffer
      BY <2>2 DEF Stores, Room
    <3> QED
      BY <1>1, <3>1 DEF Bytes
  <2> QED
    BY <2>1, <2>2
<1> QED
  BY <1>4, <1>5, <1>6 DEF BytesBecome

(* s gets a buffer that is not in use.                                     *)
LEMMA NewBuffer ==
  ASSUME Stores, NEW s \in Strings, NEW mem, NEW b \in Buffers, NEW contents \in Seq(Byte),
         NEW length \in Nat, length <= Len(contents),
         mem = characters \/ mem = Released(str[s].buf), b \notin DOMAIN mem,
         characters' = Stored(mem, b, contents), Become(s, b, length, Len(contents))
  PROVE  Stores' /\ BytesBecome(s, SubSeq(contents, 1, length))
<1> USE BuffersAssumption
<1> DEFINE e == [buf |-> b, length |-> length, cap |-> Len(contents)]
<1>1. Len(contents) \in Nat
  BY LenProperties
<1>2. e \in StringType /\ str' = [str EXCEPT ![s] = e]
  BY <1>1 DEF StringType, Become
<1>3. /\ DOMAIN mem \subseteq DOMAIN characters
      /\ \A x \in DOMAIN mem : mem[x] = characters[x]
      /\ \A x \in DOMAIN characters : x # str[s].buf => x \in DOMAIN mem
  BY DEF Released
<1>4. /\ DOMAIN characters' = DOMAIN mem \union {b} /\ characters'[b] = contents
      /\ \A x \in DOMAIN mem : characters'[x] = characters[x]
  BY <1>3 DEF Stored
<1>5. DOMAIN characters' \subseteq Buffers /\ \A x \in DOMAIN characters' : characters'[x] \in Seq(Byte)
  BY <1>3, <1>4 DEF Stores
<1>6. Room(e, characters')
  BY <1>1, <1>4 DEF Room
<1>7. \A r \in Strings \ {s} : str[r].buf # NoBuffer =>
        /\ str[r].buf # e.buf /\ str[r].buf \in DOMAIN characters'
        /\ characters'[str[r].buf] = characters[str[r].buf]
  <2> SUFFICES ASSUME NEW r \in Strings \ {s}, str[r].buf # NoBuffer
               PROVE  str[r].buf \in DOMAIN mem
    BY <1>4
  <2>1. str[r].buf \in DOMAIN characters /\ str[r].buf # str[s].buf
    BY DEF Stores, Room, StringsApart
  <2> QED
    BY <1>3, <2>1
<1>8. /\ Stores'
      /\ BytesBecome(s, IF e.length = 0 THEN << >> ELSE SubSeq(characters'[e.buf], 1, e.length))
  <2> HIDE DEF e
  <2> QED
    BY <1>2, <1>5, <1>6, <1>7, StoresChange
<1>9. (IF e.length = 0 THEN << >> ELSE SubSeq(characters'[e.buf], 1, e.length))
        = SubSeq(contents, 1, length)
  <2>1. length = 0 => SubSeq(contents, 1, length) = << >>
    BY SubSeqEmpty
  <2> QED
    BY <1>4, <2>1
<1> QED
  BY <1>8, <1>9

(* s has other contents in the buffer it has.                              *)
LEMMA SameBuffer ==
  ASSUME Stores, NEW s \in Strings, str[s].buf # NoBuffer, NEW contents \in Seq(Byte),
         Len(contents) = str[s].cap, NEW length \in Nat, length <= Len(contents),
         characters' = [characters EXCEPT ![str[s].buf] = contents],
         str' = [str EXCEPT ![s].length = length]
  PROVE  Stores' /\ BytesBecome(s, SubSeq(contents, 1, length))
<1> USE BuffersAssumption
<1> DEFINE e == [str[s] EXCEPT !.length = length]
<1>1. str[s] \in StringType /\ Len(contents) \in Nat
  BY LenProperties DEF Stores
<1>2. e \in StringType /\ str' = [str EXCEPT ![s] = e] /\ e.length = length
      /\ e.buf = str[s].buf /\ e.cap = str[s].cap
  BY <1>1 DEF StringType, Stores
<1>3. str[s].buf \in DOMAIN characters
  BY DEF Stores, Room
<1>4. /\ DOMAIN characters' = DOMAIN characters /\ characters'[str[s].buf] = contents
      /\ \A x \in DOMAIN characters : x # str[s].buf => characters'[x] = characters[x]
  BY <1>3
<1>5. DOMAIN characters' \subseteq Buffers /\ \A x \in DOMAIN characters' : characters'[x] \in Seq(Byte)
  BY <1>4 DEF Stores
<1>6. Room(e, characters')
  <2> HIDE DEF e
  <2> QED
    BY <1>1, <1>2, <1>3, <1>4 DEF Room
<1>7. \A r \in Strings \ {s} : str[r].buf # NoBuffer =>
        /\ str[r].buf # e.buf /\ str[r].buf \in DOMAIN characters'
        /\ characters'[str[r].buf] = characters[str[r].buf]
  <2> SUFFICES ASSUME NEW r \in Strings \ {s}, str[r].buf # NoBuffer
               PROVE  str[r].buf \in DOMAIN characters /\ str[r].buf # str[s].buf
    BY <1>2, <1>4
  <2> QED
    BY DEF Stores, Room, StringsApart
<1> HIDE DEF e
<1>8. /\ Stores'
      /\ BytesBecome(s, IF e.length = 0 THEN << >> ELSE SubSeq(characters'[e.buf], 1, e.length))
  BY <1>2, <1>5, <1>6, <1>7, StoresChange
<1>9. (IF e.length = 0 THEN << >> ELSE SubSeq(characters'[e.buf], 1, e.length))
        = SubSeq(contents, 1, length)
  <2>1. length = 0 => SubSeq(contents, 1, length) = << >>
    BY SubSeqEmpty
  <2> QED
    BY <1>2, <1>4, <2>1
<1> QED
  BY <1>8, <1>9

(* s has no characters any more, and may or may not have kept its buffer.  *)
LEMMA NoBytes ==
  ASSUME Stores, NEW s \in Strings, NEW e \in StringType, str' = [str EXCEPT ![s] = e],
         e.length = 0,
         \/ e.buf = NoBuffer /\ (characters' = characters \/ characters' = Released(str[s].buf))
         \/ e.buf = str[s].buf /\ e.cap = str[s].cap /\ characters' = characters
  PROVE  Stores' /\ BytesBecome(s, << >>)
<1> USE BuffersAssumption
<1>1. /\ DOMAIN characters' \subseteq DOMAIN characters
      /\ \A x \in DOMAIN characters' : characters'[x] = characters[x]
      /\ \A x \in DOMAIN characters : x # str[s].buf => x \in DOMAIN characters'
  BY DEF Released
<1>2. DOMAIN characters' \subseteq Buffers /\ \A x \in DOMAIN characters' : characters'[x] \in Seq(Byte)
  BY <1>1 DEF Stores
<1>3. Room(e, characters')
  <2>1. CASE e.buf = NoBuffer
    BY <2>1 DEF Room
  <2>2. CASE e.buf # NoBuffer
    <3>1. e.buf = str[s].buf /\ e.cap = str[s].cap /\ characters' = characters
      BY <2>2
    <3>2. str[s].buf \in DOMAIN characters /\ str[s].cap = Len(characters[str[s].buf])
          /\ characters[str[s].buf] \in Seq(Byte)
      BY <2>2, <3>1 DEF Stores, Room
    <3>3. str[s].cap \in Nat
      BY <3>2, LenProperties
    <3> QED
      BY <3>1, <3>2, <3>3 DEF Room
  <2> QED
    BY <2>1, <2>2
<1>4. \A r \in Strings \ {s} : str[r].buf # NoBuffer =>
        /\ str[r].buf # e.buf /\ str[r].buf \in DOMAIN characters'
        /\ characters'[str[r].buf] = characters[str[r].buf]
  <2> SUFFICES ASSUME NEW r \in Strings \ {s}, str[r].buf # NoBuffer
               PROVE  str[r].buf \in DOMAIN characters /\ str[r].buf # str[s].buf
    BY <1>1
  <2> QED
    BY DEF Stores, Room, StringsApart
<1>5. /\ Stores'
      /\ BytesBecome(s, IF e.length = 0 THEN << >> ELSE SubSeq(characters'[e.buf], 1, e.length))
  BY <1>2, <1>3, <1>4, StoresChange
<1> QED
  BY <1>5

LEMMA SeqOf ==
  ASSUME NEW S, NEW n \in Nat, NEW f \in [1 .. n -> S]
  PROVE  f \in Seq(S) /\ Len(f) = n
<1>1. f \in Seq(S)
  BY SeqDef
<1>2. Len(f) \in Nat /\ 1 .. Len(f) = 1 .. n
  BY <1>1, LenProperties
<1> QED
  BY <1>1, <1>2

LEMMA WrittenBytes ==
  ASSUME NEW buffer \in Seq(Byte), NEW source \in Seq(Byte), NEW offset \in Nat,
         offset + Len(source) <= Len(buffer)
  PROVE  /\ Written(buffer, offset, source) \in Seq(Byte)
         /\ Len(Written(buffer, offset, source)) = Len(buffer)
         /\ \A i \in 1 .. offset : Written(buffer, offset, source)[i] = buffer[i]
         /\ \A i \in 1 .. Len(source) : Written(buffer, offset, source)[offset + i] = source[i]
<1>1. /\ Len(buffer) \in Nat /\ DOMAIN buffer = 1 .. Len(buffer)
      /\ Len(source) \in Nat /\ DOMAIN source = 1 .. Len(source)
  BY LenProperties
<1>2. \A i \in 1 .. Len(buffer) : buffer[i] \in Byte
  BY ElementOfSeq
<1>3. \A i \in 1 .. Len(source) : source[i] \in Byte
  BY ElementOfSeq
<1> DEFINE w == [i \in 1 .. Len(buffer) |->
                   IF i - offset \in 1 .. Len(source) THEN source[i - offset] ELSE buffer[i]]
<1>4. Written(buffer, offset, source) = w
  BY <1>1 DEF Written
<1>5. w \in [1 .. Len(buffer) -> Byte]
  BY <1>2, <1>3
<1>6. w \in Seq(Byte) /\ Len(w) = Len(buffer)
  <2> HIDE DEF w
  <2> QED
    BY <1>1, <1>5, SeqOf
<1>7. \A i \in 1 .. offset : w[i] = buffer[i]
  <2> TAKE i \in 1 .. offset
  <2>1. i \in 1 .. Len(buffer) /\ i - offset \notin 1 .. Len(source)
    BY <1>1
  <2> QED
    BY <2>1
<1>8. \A i \in 1 .. Len(source) : w[offset + i] = source[i]
  <2> TAKE i \in 1 .. Len(source)
  <2>1. /\ offset + i \in 1 .. Len(buffer) /\ (offset + i) - offset = i
        /\ (offset + i) - offset \in 1 .. Len(source)
    BY <1>1
  <2> QED
    BY <2>1
<1> QED
  <2> HIDE DEF w
  <2> QED
    BY <1>4, <1>6, <1>7, <1>8

(* A buffer that begins with x and goes on with y.                         *)
LEMMA BeginsWith ==
  ASSUME NEW contents \in Seq(Byte), NEW x \in Seq(Byte), NEW y \in Seq(Byte),
         Len(x) + Len(y) <= Len(contents),
         \A i \in 1 .. Len(x) : contents[i] = x[i],
         \A i \in 1 .. Len(y) : contents[Len(x) + i] = y[i]
  PROVE  SubSeq(contents, 1, Len(x) + Len(y)) = x \o y
<1>1. Len(x) \in Nat /\ Len(y) \in Nat /\ Len(contents) \in Nat
  BY LenProperties
<1> DEFINE n == Len(x) + Len(y)
           z == SubSeq(contents, 1, n)
<1>2. n \in Nat /\ n - 1 + 1 = n
  BY <1>1
<1>3. \A i \in 1 .. n : contents[i] \in Byte
  <2> TAKE i \in 1 .. n
  <2>1. i \in 1 .. Len(contents)
    BY <1>1
  <2> QED
    BY <2>1, ElementOfSeq
<1>4. /\ z \in Seq(Byte) /\ Len(z) = IF 1 <= n THEN n - 1 + 1 ELSE 0
      /\ \A i \in 1 .. n - 1 + 1 : z[i] = contents[1 + i - 1]
  <2> HIDE DEF n
  <2> QED
    BY <1>2, <1>3, SubSeqProperties
<1>5. Len(z) = n
  <2> HIDE DEF n, z
  <2> QED
    BY <1>2, <1>4
<1>6. \A i \in 1 .. n : z[i] = contents[i]
  <2> HIDE DEF n, z
  <2> TAKE i \in 1 .. n
  <2>1. i \in 1 .. n - 1 + 1 /\ 1 + i - 1 = i
    BY <1>2
  <2> QED
    BY <1>4, <2>1
<1>7. /\ x \o y \in Seq(Byte) /\ Len(x \o y) = n
      /\ \A i \in 1 .. n : (x \o y)[i] = IF i <= Len(x) THEN x[i] ELSE y[i - Len(x)]
  BY ConcatProperties
<1>8. \A i \in 1 .. n : z[i] = (x \o y)[i]
  <2> SUFFICES ASSUME NEW i \in 1 .. n
               PROVE  contents[i] = IF i <= Len(x) THEN x[i] ELSE y[i - Len(x)]
    BY <1>6, <1>7
  <2>1. CASE i <= Len(x)
    <3>1. i \in 1 .. Len(x)
      BY <1>1, <2>1
    <3> QED
      BY <2>1, <3>1
  <2>2. CASE ~(i <= Len(x))
    <3>1. i - Len(x) \in 1 .. Len(y) /\ Len(x) + (i - Len(x)) = i
      BY <1>1, <2>2
    <3>2. contents[Len(x) + (i - Len(x))] = y[i - Len(x)]
      BY <3>1
    <3> QED
      BY <2>2, <3>1, <3>2
  <2> QED
    BY <2>1, <2>2
<1> QED
  <2> HIDE DEF n, z
  <2>1. z = x \o y
    BY <1>4, <1>5, <1>7, <1>8, SeqEqual
  <2> QED
    BY <2>1 DEF n, z

-------------------------------------------------------------------------------
(* The constructors and operators.                                         *)
LEMMA ConstructBytes ==
  ASSUME Stores, NEW s \in Strings, NEW bytes \in Seq(Byte), Construct(s, bytes)
  PROVE  Stores' /\ BytesBecome(s, bytes) /\ status = Running /\ status' = Running
<1>1. PICK b \in Buffers \ DOMAIN characters :
        characters' = Stored(characters, b, bytes) /\ Become(s, b, Len(bytes), Len(bytes))
  BY DEF Construct
<1>2. Len(bytes) \in Nat /\ SubSeq(bytes, 1, Len(bytes)) = bytes
  BY LenProperties, SubSeqFull
<1>3. Len(bytes) <= Len(bytes)
  BY <1>2
<1>4. Stores' /\ BytesBecome(s, SubSeq(bytes, 1, Len(bytes)))
  BY <1>1, <1>2, <1>3, NewBuffer
<1> QED
  BY <1>2, <1>4 DEF Construct

LEMMA AssignBytes ==
  ASSUME Stores, NEW s \in Strings, NEW r \in Strings, Assign(s, r)
  PROVE  /\ status = Running
         /\ \/ status' = Running /\ Stores' /\ BytesBecome(s, Bytes(r))
            \/ status' = "astray" /\ UNCHANGED <<str, characters>>
<1> DEFINE bytes == Bytes(r)
<1>1. bytes \in Seq(Byte) /\ Len(bytes) \in Nat /\ SubSeq(bytes, 1, Len(bytes)) = bytes
  <2>1. bytes \in Seq(Byte)
    BY BytesType
  <2> HIDE DEF bytes
  <2> QED
    BY <2>1, LenProperties, SubSeqFull
<1>2. status = Running
  BY DEF Assign
<1>3. CASE TooSmall(s, Len(bytes))
  <2>1. PICK b \in Buffers \ DOMAIN Released(str[s].buf) :
          /\ characters' = Stored(Released(str[s].buf), b, bytes)
          /\ Become(s, b, Len(bytes), Len(bytes))
    BY <1>3 DEF Assign
  <2>2. status' = Running
    BY <1>2, <1>3 DEF Assign
  <2> HIDE DEF bytes
  <2>3. Len(bytes) <= Len(bytes)
    BY <1>1
  <2>4. Stores' /\ BytesBecome(s, SubSeq(bytes, 1, Len(bytes)))
    BY <1>1, <2>1, <2>3, NewBuffer
  <2> QED
    BY <1>1, <1>2, <2>2, <2>4 DEF bytes
<1>4. CASE ~TooSmall(s, Len(bytes)) /\ str[s].buf = NoBuffer /\ bytes # << >>
  BY <1>2, <1>4 DEF Assign
<1>5. CASE ~TooSmall(s, Len(bytes)) /\ ~(str[s].buf = NoBuffer /\ bytes # << >>)
  <2>1. /\ characters' = IF bytes = << >> THEN characters
                         ELSE [characters EXCEPT ![str[s].buf] =
                                 Written(characters[str[s].buf], 0, bytes)]
        /\ str' = [str EXCEPT ![s].length = Len(bytes)]
        /\ status' = Running
    BY <1>2, <1>5 DEF Assign
  <2>2. str[s] \in StringType /\ Room(str[s], characters)
    BY DEF Stores
  <2> HIDE DEF bytes
  <2>3. CASE bytes = << >>
    <3> DEFINE e == [str[s] EXCEPT !.length = 0]
    <3>1. Len(bytes) = 0
      BY <2>3
    <3>2. /\ e \in StringType /\ e.length = 0 /\ e.buf = str[s].buf /\ e.cap = str[s].cap
          /\ str' = [str EXCEPT ![s] = e]
      BY <2>1, <2>2, <3>1 DEF StringType, Stores
    <3> HIDE DEF e
    <3>3. Stores' /\ BytesBecome(s, << >>)
      BY <2>1, <2>3, <3>2, NoBytes
    <3> QED
      BY <1>2, <2>1, <2>3, <3>3 DEF bytes
  <2>4. CASE bytes # << >>
    <3> DEFINE buffer == characters[str[s].buf]
               contents == Written(buffer, 0, bytes)
    <3>1. str[s].buf # NoBuffer
      BY <1>5, <2>4
    <3>2. str[s].buf \in DOMAIN characters /\ str[s].cap = Len(buffer)
      BY <2>2, <3>1 DEF Room
    <3>3. buffer \in Seq(Byte)
      BY <3>2 DEF Stores
    <3> HIDE DEF buffer
    <3>4. Len(buffer) \in Nat /\ 0 + Len(bytes) <= Len(buffer)
      BY <1>1, <1>5, <3>2, <3>3, LenProperties DEF TooSmall
    <3>5. /\ contents \in Seq(Byte) /\ Len(contents) = Len(buffer)
          /\ \A i \in 1 .. Len(bytes) : contents[0 + i] = bytes[i]
      BY <1>1, <3>3, <3>4, WrittenBytes
    <3>6. characters' = [characters EXCEPT ![str[s].buf] = contents]
      BY <2>1, <2>4 DEF buffer
    <3> HIDE DEF contents
    <3>7. Len(bytes) <= Len(contents)
      BY <1>1, <3>4, <3>5
    <3>8. Stores' /\ BytesBecome(s, SubSeq(contents, 1, Len(bytes)))
      BY <1>1, <2>1, <3>1, <3>2, <3>5, <3>6, <3>7, SameBuffer
    <3>9. SubSeq(contents, 1, Len(bytes)) = bytes
      <4>1. << >> \in Seq(Byte) /\ Len(<< >>) = 0
        BY EmptySeq
      <4>2. Len(<< >>) + Len(bytes) = Len(bytes)
        BY <1>1, <4>1
      <4>3. \A i \in 1 .. Len(<< >>) : contents[i] = << >>[i]
        BY <4>1
      <4>4. \A i \in 1 .. Len(bytes) : contents[Len(<< >>) + i] = bytes[i]
        BY <3>5, <4>1
      <4>5. SubSeq(contents, 1, Len(<< >>) + Len(bytes)) = << >> \o bytes
        BY <1>1, <3>5, <3>7, <4>1, <4>2, <4>3, <4>4, BeginsWith
      <4> QED
        BY <1>1, <4>2, <4>5, ConcatEmptySeq
    <3> QED
      BY <1>2, <2>1, <3>8, <3>9 DEF bytes
  <2> QED
    BY <2>3, <2>4
<1> QED
  BY <1>3, <1>4, <1>5

LEMMA TextBytes ==
  ASSUME Stores, NEW s \in Strings, str[s].length > 0
  PROVE  /\ Text(s) \in Seq(Byte) /\ Len(Text(s)) = str[s].length - 1
         /\ \A i \in 1 .. str[s].length - 1 : Text(s)[i] = Bytes(s)[i]
<1>1. Bytes(s) \in Seq(Byte) /\ Len(Bytes(s)) = str[s].length /\ str[s].length \in Nat
  BY BytesType
<1> DEFINE k == str[s].length - 1
<1>2. k \in Nat /\ k < Len(Bytes(s)) /\ Text(s) = SubSeq(Bytes(s), 1, k)
  BY <1>1 DEF Text
<1> HIDE DEF k
<1>3. \A i \in 1 .. k : Bytes(s)[i] \in Byte
  <2> TAKE i \in 1 .. k
  <2>1. i \in 1 .. Len(Bytes(s))
    BY <1>1, <1>2
  <2> QED
    BY <1>1, <2>1, ElementOfSeq
<1>4. /\ Text(s) \in Seq(Byte) /\ Len(Text(s)) = IF 1 <= k THEN k - 1 + 1 ELSE 0
      /\ \A i \in 1 .. k - 1 + 1 : Text(s)[i] = Bytes(s)[1 + i - 1]
  BY <1>2, <1>3, SubSeqProperties
<1>5. Len(Text(s)) = k
  BY <1>2, <1>4
<1>6. \A i \in 1 .. k : Text(s)[i] = Bytes(s)[i]
  <2> TAKE i \in 1 .. k
  <2>1. i \in 1 .. k - 1 + 1 /\ 1 + i - 1 = i
    BY <1>2
  <2> QED
    BY <1>4, <2>1
<1> QED
  BY <1>4, <1>5, <1>6 DEF k

LEMMA FreshBytes ==
  ASSUME NEW n \in Nat
  PROVE  Fresh(n) \in Seq(Byte) /\ Len(Fresh(n)) = n
<1>1. Fresh(n) \in [1 .. n -> Byte]
  BY DEF Fresh, Byte
<1> QED
  BY <1>1, SeqOf

LEMMA ExtendBytes ==
  ASSUME Stores, NEW s \in Strings, NEW bytes \in Seq(Byte), Extend(s, bytes)
  PROVE  /\ status = Running
         /\ status' \in {Running, "astray", "unterminated"}
         /\ status' = Running => str[s].length > 0 /\ bytes # << >>
         /\ \/ UNCHANGED <<str, characters>> /\ status' = "astray"
            \/ str[s].length > 0 /\ Stores' /\ BytesBecome(s, Text(s) \o bytes)
<1>1. str[s].length \in Nat /\ str[s].cap \in Int /\ Len(bytes) \in Nat
  BY LenProperties DEF Stores, StringType
<1>2. /\ status = Running
      /\ status' = IF str[s].length = 0 THEN "astray"
                   ELSE IF bytes = << >> THEN "unterminated" ELSE Running
  BY DEF Extend
<1>3. CASE str[s].length = 0
  <2>1. UNCHANGED <<str, characters>> /\ status' = "astray"
    BY <1>2, <1>3 DEF Extend
  <2> QED
    BY <1>2, <2>1 DEF Running
<1>4. CASE str[s].length # 0
  <2> DEFINE k == str[s].length - 1
             n == str[s].length + Len(bytes) - 1
             buffer == characters[str[s].buf]
  <2>1. str[s].length > 0 /\ k \in Nat /\ n \in Nat /\ Behind(s) = k /\ n = k + Len(bytes)
    BY <1>1, <1>4 DEF Behind
  <2>2. /\ Text(s) \in Seq(Byte) /\ Len(Text(s)) = k
        /\ \A i \in 1 .. k : Text(s)[i] = Bytes(s)[i]
    BY <2>1, TextBytes
  <2>3. /\ str[s].buf \in Buffers /\ str[s].buf \in DOMAIN characters
        /\ buffer \in Seq(Byte)
        /\ str[s].cap = Len(buffer) /\ str[s].length <= str[s].cap
        /\ \A i \in 1 .. str[s].length : Bytes(s)[i] = buffer[i]
    BY <2>1, BytesType
  <2>4. status' \in {Running, "astray", "unterminated"}
        /\ (status' = Running => str[s].length > 0 /\ bytes # << >>)
    BY <1>2, <1>4, <2>1 DEF Running
  <2>5. Len(buffer) \in Nat
    BY <2>3, LenProperties
  <2>6. CASE TooSmall(s, str[s].length + Len(bytes))
    <3> DEFINE c == NewCapacity(s, bytes)
               begun == Written(Fresh(c), 0, Text(s))
               contents == Written(begun, k, bytes)
    <3>1. PICK b \in Buffers \ DOMAIN characters :
            /\ characters' = Stored(characters, b, contents)
            /\ Become(s, b, n, c)
      BY <1>4, <2>1, <2>6 DEF Extend, Text
    <3>2. c \in Nat /\ n <= c /\ 0 + k <= c
      <4>1. c = str[s].cap * 2 + Len(bytes)
        BY DEF NewCapacity
      <4> HIDE DEF c, buffer
      <4> QED
        BY <1>1, <2>1, <2>3, <2>5, <4>1
    <3> HIDE DEF c
    <3>3. Fresh(c) \in Seq(Byte) /\ Len(Fresh(c)) = c
      BY <3>2, FreshBytes
    <3>4. 0 + Len(Text(s)) <= Len(Fresh(c))
      BY <2>2, <3>2, <3>3
    <3>5. /\ begun \in Seq(Byte) /\ Len(begun) = c
          /\ \A i \in 1 .. Len(Text(s)) : begun[0 + i] = Text(s)[i]
      <4> HIDE DEF n, k, buffer, contents
      <4> QED
        BY <2>2, <3>3, <3>4, WrittenBytes
    <3>6. \A i \in 1 .. k : begun[i] = Text(s)[i]
      BY <2>2, <3>5
    <3> HIDE DEF begun
    <3>7. k + Len(bytes) <= Len(begun)
      BY <2>1, <3>2, <3>5
    <3>8. /\ contents \in Seq(Byte) /\ Len(contents) = Len(begun)
          /\ \A i \in 1 .. k : contents[i] = begun[i]
          /\ \A i \in 1 .. Len(bytes) : contents[k + i] = bytes[i]
      BY <2>1, <3>5, <3>7, WrittenBytes
    <3> HIDE DEF contents
    <3>9. SubSeq(contents, 1, n) = Text(s) \o bytes
      <4>1. /\ Len(Text(s)) + Len(bytes) <= Len(contents)
            /\ \A i \in 1 .. Len(Text(s)) : contents[i] = Text(s)[i]
            /\ \A i \in 1 .. Len(bytes) : contents[Len(Text(s)) + i] = bytes[i]
            /\ Len(Text(s)) + Len(bytes) = n
        BY <2>1, <2>2, <3>6, <3>7, <3>8
      <4>2. SubSeq(contents, 1, Len(Text(s)) + Len(bytes)) = Text(s) \o bytes
        BY <2>2, <3>8, <4>1, BeginsWith
      <4> QED
        BY <4>1, <4>2
    <3>10. n <= Len(contents) /\ Become(s, b, n, Len(contents)) /\ n \in Nat
      BY <2>1, <3>1, <3>2, <3>5, <3>8
    <3>11. Stores' /\ BytesBecome(s, SubSeq(contents, 1, n))
      <4> HIDE DEF n
      <4> QED
        BY <3>1, <3>8, <3>10, NewBuffer
    <3> QED
      BY <1>2, <2>1, <2>4, <3>9, <3>11
  <2>7. CASE ~TooSmall(s, str[s].length + Len(bytes))
    <3> DEFINE contents == Written(buffer, k, bytes)
    <3>1. /\ characters' = [characters EXCEPT ![str[s].buf] = contents]
          /\ str' = [str EXCEPT ![s].length = n]
      BY <1>4, <2>1, <2>7 DEF Extend
    <3>2. str[s].length + Len(bytes) <= str[s].cap
      BY <1>1, <2>7 DEF TooSmall
    <3> HIDE DEF buffer
    <3>3. k + Len(bytes) <= Len(buffer)
      BY <1>1, <2>1, <2>3, <2>5, <3>2
    <3>4. /\ contents \in Seq(Byte) /\ Len(contents) = Len(buffer)
          /\ \A i \in 1 .. k : contents[i] = buffer[i]
          /\ \A i \in 1 .. Len(bytes) : contents[k + i] = bytes[i]
      BY <2>1, <2>3, <3>3, WrittenBytes
    <3> HIDE DEF contents
    <3>5. SubSeq(contents, 1, n) = Text(s) \o bytes
      <4>1. \A i \in 1 .. k : contents[i] = Text(s)[i]
        <5> TAKE i \in 1 .. k
        <5>1. i \in 1 .. str[s].length
          BY <1>1
        <5> QED
          BY <2>2, <2>3, <3>4, <5>1
      <4>2. /\ Len(Text(s)) + Len(bytes) <= Len(contents)
            /\ \A i \in 1 .. Len(Text(s)) : contents[i] = Text(s)[i]
            /\ \A i \in 1 .. Len(bytes) : contents[Len(Text(s)) + i] = bytes[i]
            /\ Len(Text(s)) + Len(bytes) = n
        BY <2>1, <2>2, <3>3, <3>4, <4>1
      <4>3. SubSeq(contents, 1, Len(Text(s)) + Len(bytes)) = Text(s) \o bytes
        BY <2>2, <3>4, <4>2, BeginsWith
      <4> QED
        BY <4>2, <4>3
    <3>6. n <= Len(contents) /\ Len(contents) = str[s].cap /\ str[s].buf # NoBuffer
      BY <2>1, <2>3, <3>3, <3>4, BuffersAssumption
    <3>7. Stores' /\ BytesBecome(s, SubSeq(contents, 1, n))
      <4> HIDE DEF n
      <4> QED
        BY <2>1, <3>1, <3>4, <3>6, SameBuffer
    <3> QED
      BY <1>2, <2>1, <2>4, <3>5, <3>7
  <2> QED
    BY <2>6, <2>7
<1> QED
  BY <1>3, <1>4

LEMMA ItselfBytes ==
  ASSUME Stores, NEW s \in Strings, ExtendByItself(s)
  PROVE  /\ status = Running /\ str[s].length > 0
         /\ status' = IF str[s].length = 1 THEN Running ELSE "unterminated"
         /\ Stores'
         /\ \E bytes \in Seq(Byte) :
              /\ BytesBecome(s, bytes)
              /\ str[s].length = 1 => bytes = Bytes(s)
<1> DEFINE k == str[s].length - 1
           n == 2 * str[s].length - 1
           buffer == characters[str[s].buf]
           once == Written(buffer, k, Bytes(s))
           contents == Written(once, 2 * k, <<Bytes(s)[1]>>)
<1>1. str[s].length \in Nat /\ str[s].cap \in Int
  BY DEF Stores, StringType
<1>2. /\ 2 * str[s].length <= str[s].cap /\ 2 * str[s].length >= 1
  BY <1>1 DEF ExtendByItself, AddsToItself, TooSmall
<1>3. str[s].length > 0 /\ k \in Nat /\ n \in Nat /\ Behind(s) = k /\ n = 2 * k + 1
  BY <1>1, <1>2 DEF Behind
<1>4. /\ str[s].buf \in Buffers /\ str[s].buf \in DOMAIN characters
      /\ buffer \in Seq(Byte) /\ str[s].cap = Len(buffer)
      /\ Bytes(s) \in Seq(Byte) /\ Len(Bytes(s)) = str[s].length
  BY <1>3, BytesType
<1>5. /\ characters' = [characters EXCEPT ![str[s].buf] = contents]
      /\ str' = [str EXCEPT ![s].length = n]
      /\ status = Running /\ status' = IF str[s].length = 1 THEN Running ELSE "unterminated"
  BY <1>3 DEF ExtendByItself
<1> DEFINE first == Bytes(s)[1]
<1>6. first \in Byte
  <2>1. 1 \in 1 .. Len(Bytes(s))
    BY <1>1, <1>3, <1>4
  <2> QED
    BY <1>4, <2>1, ElementOfSeq
<1>7. /\ k + str[s].length <= str[s].cap /\ 2 * k + 1 <= str[s].cap /\ 2 * k \in Nat
  BY <1>1, <1>2
<1> HIDE DEF buffer, k
<1>8. once \in Seq(Byte) /\ Len(once) = Len(buffer)
  <2>1. k + Len(Bytes(s)) <= Len(buffer)
    BY <1>4, <1>7
  <2> QED
    BY <1>3, <1>4, <2>1, WrittenBytes
<1> HIDE DEF once, first
<1>9. /\ contents \in Seq(Byte) /\ Len(contents) = Len(buffer)
      /\ contents[2 * k + 1] = first
  <2>1. <<first>> \in Seq(Byte) /\ Len(<<first>>) = 1 /\ <<first>>[1] = first
    BY <1>6
  <2>2. 2 * k \in Nat /\ 2 * k + Len(<<first>>) <= Len(once)
    BY <1>4, <1>8, <1>7, <2>1
  <2> DEFINE o == 2 * k
             w == Written(once, o, <<first>>)
  <2>3. contents = w
    BY DEF first
  <2> HIDE DEF contents, o, w
  <2>4. o \in Nat /\ o + Len(<<first>>) <= Len(once)
    BY <2>2 DEF o
  <2>5. /\ w \in Seq(Byte) /\ Len(w) = Len(once)
        /\ \A i \in 1 .. Len(<<first>>) : w[o + i] = <<first>>[i]
    BY <1>8, <2>1, <2>4, WrittenBytes DEF w
  <2>6. 1 \in 1 .. Len(<<first>>)
    BY <2>1
  <2>7. w[o + 1] = first
    BY <2>1, <2>5, <2>6
  <2> QED
    BY <1>8, <2>3, <2>5, <2>7 DEF o
<1> HIDE DEF contents
<1>10. n <= Len(contents) /\ Len(contents) = str[s].cap /\ str[s].buf # NoBuffer
  BY <1>1, <1>2, <1>3, <1>4, <1>9, BuffersAssumption
<1>11. Stores' /\ BytesBecome(s, SubSeq(contents, 1, n))
  <2> HIDE DEF n, k
  <2> QED
    BY <1>3, <1>5, <1>9, <1>10, SameBuffer
<1> DEFINE bytes == SubSeq(contents, 1, n)
<1>12. /\ bytes \in Seq(Byte) /\ Len(bytes) = IF 1 <= n THEN n - 1 + 1 ELSE 0
       /\ \A i \in 1 .. n - 1 + 1 : bytes[i] = contents[1 + i - 1]
  <2>1. \A i \in 1 .. n : contents[i] \in Byte
    <3> TAKE i \in 1 .. n
    <3>1. i \in 1 .. Len(contents)
      <4>1. Len(contents) \in Nat
        BY <1>9, LenProperties
      <4> QED
        BY <1>3, <1>10, <4>1
    <3> QED
      BY <1>9, <3>1, ElementOfSeq
  <2> HIDE DEF n, k
  <2> QED
    BY <1>3, <2>1, SubSeqProperties
<1>13. str[s].length = 1 => bytes = Bytes(s)
  <2> SUFFICES ASSUME str[s].length = 1
               PROVE  bytes = Bytes(s)
    OBVIOUS
  <2>1. n = 1 /\ 2 * k + 1 = 1
    BY DEF k
  <2>2. Len(bytes) = 1 /\ bytes[1] = contents[1]
    <3>1. 1 <= n /\ n - 1 + 1 = 1 /\ 1 \in 1 .. n - 1 + 1 /\ 1 + 1 - 1 = 1
      BY <2>1
    <3> HIDE DEF n, bytes
    <3> QED
      BY <1>12, <3>1
  <2>3. bytes[1] = Bytes(s)[1]
    BY <1>9, <2>1, <2>2 DEF first
  <2>4. Len(bytes) = Len(Bytes(s)) /\ \A i \in 1 .. Len(bytes) : bytes[i] = Bytes(s)[i]
    <3> HIDE DEF n, bytes
    <3> QED
      BY <1>4, <2>2, <2>3
  <2> HIDE DEF n, bytes
  <2> QED
    BY <1>4, <1>12, <2>4, SeqEqual
<1> QED
  BY <1>3, <1>5, <1>11, <1>12, <1>13

(* Texts that are given to strings.                                        *)
LEMMA CstrBytes ==
  ASSUME NEW t \in Literals
  PROVE  /\ Cstr(t) \in Seq(Byte) /\ Ends(Cstr(t)) /\ Cstr(t) # << >>
         /\ t \in Seq(Byte) /\ Len(Cstr(t)) = Len(t) + 1
         /\ \A i \in 1 .. Len(t) : Cstr(t)[i] = t[i]
<1>1. t \in Seq(Letters) /\ Terminator \notin Letters
  BY StringAssumption
<1>2. Letters \subseteq Byte /\ Terminator \in Byte
  BY DEF Byte
<1>3. t \in Seq(Byte)
  BY <1>1, <1>2, SeqMonotonic
<1>4. Len(t) \in Nat
  BY <1>1, LenProperties
<1>5. /\ Append(t, Terminator) \in Seq(Byte) /\ Append(t, Terminator) # << >>
      /\ Len(Append(t, Terminator)) = Len(t) + 1
      /\ \A i \in 1 .. Len(t) : Append(t, Terminator)[i] = t[i]
      /\ Append(t, Terminator)[Len(t) + 1] = Terminator
  BY <1>2, <1>3, AppendProperties
<1>6. Ends(Cstr(t))
  <2> SUFFICES ASSUME NEW i \in 1 .. Len(t) + 1
               PROVE  Append(t, Terminator)[i] = Terminator <=> i = Len(t) + 1
    BY <1>5 DEF Ends, Cstr
  <2>1. CASE i = Len(t) + 1
    BY <1>5, <2>1
  <2>2. CASE i # Len(t) + 1
    <3>1. i \in 1 .. Len(t)
      BY <1>4, <2>2
    <3>2. t[i] \in Letters
      BY <1>1, <3>1, ElementOfSeq
    <3> QED
      BY <1>1, <1>5, <2>2, <3>1, <3>2
  <2> QED
    BY <2>1, <2>2
<1> QED
  BY <1>3, <1>5, <1>6 DEF Cstr

(* Behind a text without a terminator, what ends with one goes on.         *)
LEMMA EndsBehind ==
  ASSUME Stores, NEW s \in Strings, str[s].length > 0, Ends(Bytes(s)),
         NEW bytes \in Seq(Byte), bytes # << >>, Ends(bytes)
  PROVE  Text(s) \o bytes \in Seq(Byte) /\ Ends(Text(s) \o bytes)
<1> DEFINE k == str[s].length - 1
           z == Text(s) \o bytes
<1>1. Len(Bytes(s)) = str[s].length /\ str[s].length \in Nat
  BY BytesType
<1>2. /\ Text(s) \in Seq(Byte) /\ Len(Text(s)) = k
      /\ \A i \in 1 .. k : Text(s)[i] = Bytes(s)[i]
  BY TextBytes
<1>3. Len(bytes) \in Nat \ {0}
  BY EmptySeq
<1>4. /\ z \in Seq(Byte) /\ Len(z) = k + Len(bytes)
      /\ \A i \in 1 .. k + Len(bytes) : z[i] = IF i <= k THEN Text(s)[i] ELSE bytes[i - k]
  <2> HIDE DEF k
  <2> QED
    BY <1>2, ConcatProperties
<1>5. \A i \in 1 .. k + Len(bytes) : z[i] = Terminator <=> i = k + Len(bytes)
  <2> SUFFICES ASSUME NEW i \in 1 .. k + Len(bytes)
               PROVE  z[i] = Terminator <=> i = k + Len(bytes)
    OBVIOUS
  <2> HIDE DEF z
  <2>1. CASE i <= k
    <3>1. i \in 1 .. k /\ i \in 1 .. str[s].length /\ i # str[s].length /\ i # k + Len(bytes)
      BY <1>1, <1>3, <2>1
    <3>2. z[i] = Bytes(s)[i]
      BY <1>2, <1>4, <2>1, <3>1
    <3> QED
      BY <1>1, <3>1, <3>2 DEF Ends
  <2>2. CASE ~(i <= k)
    <3>1. i - k \in 1 .. Len(bytes) /\ (i - k = Len(bytes) <=> i = k + Len(bytes))
      BY <1>1, <1>3, <2>2
    <3>2. z[i] = bytes[i - k]
      BY <1>4, <2>2
    <3> QED
      BY <3>1, <3>2 DEF Ends
  <2> QED
    BY <2>1, <2>2
<1> QED
  <2> HIDE DEF z, k
  <2>1. Ends(z)
    BY <1>4, <1>5 DEF Ends
  <2> QED
    BY <1>4, <2>1 DEF z

-------------------------------------------------------------------------------
(* The text in bytes that end with a terminator.                           *)
TextOf(bytes) == SubSeq(bytes, 1, Len(bytes) - 1)

LEMMA TextOfBytes ==
  ASSUME NEW bytes \in Seq(Byte)
  PROVE  /\ TextOf(bytes) \in Seq(Byte)
         /\ bytes # << >> => /\ Len(bytes) \in Nat \ {0} /\ Len(TextOf(bytes)) = Len(bytes) - 1
                             /\ \A i \in 1 .. Len(bytes) - 1 : TextOf(bytes)[i] = bytes[i]
         /\ bytes = << >> => TextOf(bytes) = << >>
<1> DEFINE k == Len(bytes) - 1
<1>1. Len(bytes) \in Nat /\ (bytes # << >> => Len(bytes) > 0) /\ (bytes = << >> => Len(bytes) = 0)
  BY EmptySeq, LenProperties
<1>2. k \in Int /\ (bytes # << >> => k \in Nat) /\ (bytes = << >> => k < 1)
  BY <1>1
<1>3. \A i \in 1 .. k : bytes[i] \in Byte
  <2> TAKE i \in 1 .. k
  <2>1. i \in 1 .. Len(bytes)
    BY <1>1
  <2> QED
    BY <2>1, ElementOfSeq
<1> HIDE DEF k
<1>4. /\ SubSeq(bytes, 1, k) \in Seq(Byte)
      /\ Len(SubSeq(bytes, 1, k)) = IF 1 <= k THEN k - 1 + 1 ELSE 0
      /\ \A i \in 1 .. k - 1 + 1 : SubSeq(bytes, 1, k)[i] = bytes[1 + i - 1]
  BY <1>2, <1>3, SubSeqProperties
<1>5. bytes # << >> => /\ Len(SubSeq(bytes, 1, k)) = k
                       /\ \A i \in 1 .. k : SubSeq(bytes, 1, k)[i] = bytes[i]
  <2> SUFFICES ASSUME bytes # << >>
               PROVE  /\ Len(SubSeq(bytes, 1, k)) = k
                      /\ \A i \in 1 .. k : SubSeq(bytes, 1, k)[i] = bytes[i]
    OBVIOUS
  <2>1. Len(SubSeq(bytes, 1, k)) = k
    BY <1>2, <1>4
  <2>2. \A i \in 1 .. k : i \in 1 .. k - 1 + 1 /\ 1 + i - 1 = i
    BY <1>2
  <2> QED
    BY <1>4, <2>1, <2>2
<1>6. bytes = << >> => SubSeq(bytes, 1, k) = << >>
  BY <1>2, SubSeqEmpty
<1>7. TextOf(bytes) = SubSeq(bytes, 1, k)
  BY DEF TextOf, k
<1> QED
  BY <1>1, <1>4, <1>5, <1>6, <1>7 DEF k

LEMMA TextIsOf ==
  ASSUME Stores, NEW s \in Strings
  PROVE  Text(s) = TextOf(Bytes(s))
<1>1. Len(Bytes(s)) = str[s].length
  BY BytesType
<1> QED
  BY <1>1 DEF Text, TextOf

LEMMA LiteralText ==
  ASSUME NEW t \in Literals
  PROVE  TextOf(Cstr(t)) = t
<1>1. /\ Cstr(t) \in Seq(Byte) /\ Cstr(t) # << >> /\ t \in Seq(Byte)
      /\ Len(Cstr(t)) = Len(t) + 1 /\ \A i \in 1 .. Len(t) : Cstr(t)[i] = t[i]
  BY CstrBytes
<1>2. Len(t) \in Nat
  BY <1>1, LenProperties
<1>3. Len(Cstr(t)) - 1 = Len(t)
  BY <1>1, <1>2
<1>4. /\ TextOf(Cstr(t)) \in Seq(Byte) /\ Len(TextOf(Cstr(t))) = Len(t)
      /\ \A i \in 1 .. Len(t) : TextOf(Cstr(t))[i] = t[i]
  BY <1>1, <1>3, TextOfBytes
<1> QED
  BY <1>1, <1>4, SeqEqual

LEMMA TextBehind ==
  ASSUME NEW x \in Seq(Byte), NEW bytes \in Seq(Byte), bytes # << >>
  PROVE  TextOf(x \o bytes) = x \o TextOf(bytes)
<1> DEFINE l == Len(x)
           k == Len(bytes) - 1
           z == x \o bytes
           y == TextOf(bytes)
<1>1. /\ l \in Nat /\ k \in Nat /\ Len(bytes) = k + 1
      /\ y \in Seq(Byte) /\ Len(y) = k /\ \A i \in 1 .. k : y[i] = bytes[i]
  <2>1. Len(bytes) \in Nat \ {0} /\ l \in Nat
    BY TextOfBytes, LenProperties
  <2>2. k \in Nat /\ Len(bytes) = k + 1
    BY <2>1
  <2> QED
    BY <2>1, <2>2, TextOfBytes
<1>2. /\ z \in Seq(Byte) /\ Len(z) = l + (k + 1)
      /\ \A i \in 1 .. l + (k + 1) : z[i] = IF i <= l THEN x[i] ELSE bytes[i - l]
  <2>1. /\ z \in Seq(Byte) /\ Len(z) = Len(x) + Len(bytes)
        /\ \A i \in 1 .. Len(x) + Len(bytes) : z[i] = IF i <= Len(x) THEN x[i] ELSE bytes[i - Len(x)]
    BY ConcatProperties
  <2> QED
    BY <1>1, <2>1
<1>3. /\ x \o y \in Seq(Byte) /\ Len(x \o y) = l + k
      /\ \A i \in 1 .. l + k : (x \o y)[i] = IF i <= l THEN x[i] ELSE y[i - l]
  <2> HIDE DEF y, k
  <2> QED
    BY <1>1, ConcatProperties
<1> HIDE DEF l, k, z, y
<1>4. z # << >> /\ Len(z) - 1 = l + k
  <2>1. Len(z) # 0
    BY <1>1, <1>2
  <2> QED
    BY <1>1, <1>2, <2>1, EmptySeq
<1>5. /\ TextOf(z) \in Seq(Byte) /\ Len(TextOf(z)) = l + k
      /\ \A i \in 1 .. l + k : TextOf(z)[i] = z[i]
  BY <1>2, <1>4, TextOfBytes
<1>6. \A i \in 1 .. l + k : TextOf(z)[i] = (x \o y)[i]
  <2> SUFFICES ASSUME NEW i \in 1 .. l + k
               PROVE  z[i] = IF i <= l THEN x[i] ELSE y[i - l]
    BY <1>3, <1>5
  <2>1. i \in 1 .. l + (k + 1) /\ (~(i <= l) => i - l \in 1 .. k)
    BY <1>1
  <2> QED
    BY <1>1, <1>2, <2>1
<1>7. TextOf(z) = x \o y
  BY <1>3, <1>5, <1>6, SeqEqual
<1> QED
  BY <1>7 DEF z, y

TextsAre == \A s \in Strings : Text(s) = TextOf(Bytes(s))

LEMMA TextsInBytes == Stores => TextsAre
BY TextIsOf DEF TextsAre

(* An action that gives s new bytes gives it the text in them.             *)
LEMMA TextsFollow ==
  ASSUME Stores, Stores', NEW s \in Strings, NEW bytes, BytesBecome(s, bytes)
  PROVE  AbstractTexts!SetTo(s, TextOf(bytes))
<1>1. \A r \in Strings : Text(r) = TextOf(Bytes(r))
  BY TextIsOf
<1>2. \A r \in Strings : Text(r)' = TextOf(Bytes(r)')
  <2>1. TextsAre'
    BY TextsInBytes, PTL
  <2> QED
    BY <2>1 DEF TextsAre
<1>3. Text(s)' = TextOf(bytes) /\ \A r \in Strings \ {s} : Text(r)' = Text(r)
  BY <1>1, <1>2 DEF BytesBecome
<1> QED
  BY <1>3 DEF AbstractTexts!SetTo

(* What every action is to the invariant and to the texts.                 *)
StringStep == StringsInv' /\ (status' = Running => AbstractTexts!Next)

LEMMA GivenBytes ==
  ASSUME StringsInv, NEW s \in Strings, NEW bytes \in Seq(Byte),
         Stores', BytesBecome(s, bytes), status = Running,
         status' \in {Running, "astray", "unterminated"},
         status' = Running => Ends(bytes)
  PROVE  StringsInv'
<1>1. status' = Running => \A r \in Strings : Ends(Bytes(r)')
  <2> SUFFICES ASSUME status' = Running, NEW r \in Strings
               PROVE  Ends(Bytes(r)')
    OBVIOUS
  <2>1. CASE r = s
    BY <2>1 DEF BytesBecome
  <2>2. CASE r # s
    BY <2>2 DEF BytesBecome, StringsInv
  <2> QED
    BY <2>1, <2>2
<1>2. \A r \in Strings : Ends(Bytes(r)') => Ends(Bytes(r))'
  BY DEF Ends
<1> QED
  BY <1>1, <1>2 DEF StringsInv

LEMMA NothingEnds == << >> \in Seq(Byte) /\ Ends(<< >>) /\ TextOf(<< >>) = << >>
<1>1. << >> \in Seq(Byte) /\ Len(<< >>) = 0
  BY EmptySeq
<1>2. TextOf(<< >>) = << >>
  BY <1>1, TextOfBytes
<1>3. Ends(<< >>)
  <2>1. 1 .. Len(<< >>) = {}
    BY <1>1
  <2> QED
    BY <2>1 DEF Ends
<1> QED
  BY <1>1, <1>2, <1>3

LEMMA NoFieldsStep ==
  ASSUME StringsInv, UNCHANGED <<str, characters>>, status' = "astray"
  PROVE  StringStep
<1>1. Stores' /\ \A s \in Strings : Bytes(s)' = Bytes(s)
  BY DEF StringsInv, Stores, StringsApart, Bytes, Room
<1> QED
  BY <1>1 DEF StringStep, StringsInv, Running

LEMMA ConstructStep ==
  ASSUME StringsInv, NEW s \in Strings
  PROVE  /\ \A t \in Literals : FromLiteral(s, t) => StringStep
         /\ \A r \in Strings : FromString(s, r) => StringStep
<1>1. ASSUME NEW t \in Literals, FromLiteral(s, t)
      PROVE  StringStep
  <2>1. Cstr(t) \in Seq(Byte) /\ Ends(Cstr(t)) /\ TextOf(Cstr(t)) = t
    BY CstrBytes, LiteralText
  <2>2. Stores' /\ BytesBecome(s, Cstr(t)) /\ status = Running /\ status' = Running
    BY <1>1, <2>1, ConstructBytes DEF FromLiteral, StringsInv
  <2>3. StringsInv'
    BY <2>1, <2>2, GivenBytes
  <2>4. AbstractTexts!SetTo(s, t)
    BY <2>1, <2>2, TextsFollow DEF StringsInv
  <2> QED
    BY <2>3, <2>4 DEF StringStep, AbstractTexts!Next
<1>2. ASSUME NEW r \in Strings, FromString(s, r)
      PROVE  StringStep
  <2>1. Bytes(r) \in Seq(Byte) /\ TextOf(Bytes(r)) = Text(r)
    BY BytesType, TextIsOf DEF StringsInv
  <2>2. Stores' /\ BytesBecome(s, Bytes(r)) /\ status = Running /\ status' = Running
    BY <1>2, <2>1, ConstructBytes DEF FromString, StringsInv
  <2>3. StringsInv'
    BY <2>1, <2>2, GivenBytes DEF StringsInv
  <2>4. AbstractTexts!SetTo(s, Text(r))
    BY <2>1, <2>2, TextsFollow DEF StringsInv
  <2> QED
    BY <2>3, <2>4 DEF StringStep, AbstractTexts!Next
<1> QED
  BY <1>1, <1>2

LEMMA EmptyStep ==
  ASSUME StringsInv, NEW s \in Strings, Default(s) \/ Destroy(s)
  PROVE  StringStep
<1>1. PICK e \in StringType :
        /\ str' = [str EXCEPT ![s] = e] /\ e.length = 0 /\ e.buf = NoBuffer
        /\ characters' = characters \/ characters' = Released(str[s].buf)
        /\ status = Running /\ status' = Running
  <2>1. CASE Default(s)
    <3>1. PICK cap \in Garbage : Become(s, NoBuffer, 0, cap)
      BY <2>1 DEF Default
    <3>2. [buf |-> NoBuffer, length |-> 0, cap |-> cap] \in StringType
      BY <3>1, StringAssumption DEF StringType
    <3> QED
      BY <2>1, <3>1, <3>2 DEF Default, Become
  <2>2. CASE Destroy(s)
    <3>1. Gone \in StringType /\ Gone.length = 0 /\ Gone.buf = NoBuffer
      BY DEF Gone, StringType
    <3> QED
      BY <2>2, <3>1 DEF Destroy
  <2> QED
    BY <2>1, <2>2
<1>2. Stores' /\ BytesBecome(s, << >>)
  BY <1>1, NoBytes DEF StringsInv
<1>3. StringsInv'
  BY <1>1, <1>2, NothingEnds, GivenBytes
<1>4. AbstractTexts!SetTo(s, TextOf(<< >>))
  BY <1>2, TextsFollow DEF StringsInv
<1> QED
  BY <1>3, <1>4, NothingEnds DEF StringStep, AbstractTexts!Next

LEMMA AssignStep ==
  ASSUME StringsInv, NEW s \in Strings, NEW r \in Strings, Assign(s, r)
  PROVE  StringStep
<1>1. Bytes(r) \in Seq(Byte) /\ TextOf(Bytes(r)) = Text(r) /\ Stores
  BY BytesType, TextIsOf DEF StringsInv
<1>2. /\ status = Running
      /\ \/ status' = Running /\ Stores' /\ BytesBecome(s, Bytes(r))
         \/ status' = "astray" /\ UNCHANGED <<str, characters>>
  BY <1>1, AssignBytes
<1>3. CASE status' = Running /\ Stores' /\ BytesBecome(s, Bytes(r))
  <2>1. StringsInv'
    BY <1>1, <1>2, <1>3, GivenBytes DEF StringsInv
  <2>2. AbstractTexts!SetTo(s, Text(r))
    BY <1>1, <1>3, TextsFollow
  <2> QED
    BY <2>1, <2>2 DEF StringStep, AbstractTexts!Next
<1>4. CASE status' = "astray" /\ UNCHANGED <<str, characters>>
  BY <1>4, NoFieldsStep
<1> QED
  BY <1>2, <1>3, <1>4

(* operator+ with bytes that end with a terminator, or that are none.      *)
LEMMA ExtendStep ==
  ASSUME StringsInv, NEW s \in Strings, NEW bytes \in Seq(Byte), Ends(bytes),
         TextOf(bytes) \in Literals \union {Text(r) : r \in Strings}, Extend(s, bytes)
  PROVE  StringStep
<1>1. Stores
  BY DEF StringsInv
<1>2. /\ status = Running
      /\ status' \in {Running, "astray", "unterminated"}
      /\ status' = Running => str[s].length > 0 /\ bytes # << >>
      /\ \/ UNCHANGED <<str, characters>> /\ status' = "astray"
         \/ str[s].length > 0 /\ Stores' /\ BytesBecome(s, Text(s) \o bytes)
  BY <1>1, ExtendBytes
<1>3. CASE UNCHANGED <<str, characters>> /\ status' = "astray"
  BY <1>3, NoFieldsStep
<1>4. CASE str[s].length > 0 /\ Stores' /\ BytesBecome(s, Text(s) \o bytes)
  <2>1. Text(s) \in Seq(Byte) /\ Text(s) \o bytes \in Seq(Byte)
    BY <1>1, <1>4, TextBytes, ConcatProperties
  <2>2. status' = Running => Ends(Text(s) \o bytes)
    BY <1>1, <1>2, <1>4, EndsBehind DEF StringsInv
  <2>3. StringsInv'
    BY <1>2, <1>4, <2>1, <2>2, GivenBytes
  <2>4. status' = Running => AbstractTexts!SetTo(s, Text(s) \o TextOf(bytes))
    BY <1>1, <1>2, <1>4, <2>1, TextBehind, TextsFollow
  <2>5. status' = Running => AbstractTexts!Next
    <3> SUFFICES ASSUME status' = Running
                 PROVE  AbstractTexts!Next
      OBVIOUS
    <3> DEFINE texts == [r \in Strings |-> Text(r)]
    <3>1. texts[s] = Text(s) /\ {texts[r] : r \in Strings} = {Text(r) : r \in Strings}
      OBVIOUS
    <3> QED
      BY <2>4, <3>1 DEF AbstractTexts!Next
  <2> QED
    BY <2>3, <2>5 DEF StringStep
<1> QED
  BY <1>2, <1>3, <1>4

LEMMA ItselfStep ==
  ASSUME StringsInv, NEW s \in Strings, ExtendByItself(s)
  PROVE  StringStep
<1>1. Stores
  BY DEF StringsInv
<1>2. /\ status = Running /\ str[s].length > 0
      /\ status' = IF str[s].length = 1 THEN Running ELSE "unterminated"
      /\ Stores'
      /\ \E bytes \in Seq(Byte) :
           /\ BytesBecome(s, bytes)
           /\ str[s].length = 1 => bytes = Bytes(s)
  BY <1>1, ItselfBytes
<1>3. PICK bytes \in Seq(Byte) : BytesBecome(s, bytes) /\ (str[s].length = 1 => bytes = Bytes(s))
  BY <1>2
<1>4. status' = Running => bytes = Bytes(s) /\ str[s].length = 1
  BY <1>2, <1>3 DEF Running
<1>5. status' \in {Running, "astray", "unterminated"}
  BY <1>2
<1>6. StringsInv'
  BY <1>2, <1>3, <1>4, <1>5, GivenBytes DEF StringsInv
<1>7. status' = Running => AbstractTexts!SetTo(s, << >>)
  <2> SUFFICES ASSUME status' = Running
               PROVE  AbstractTexts!SetTo(s, << >>)
    OBVIOUS
  <2>1. Len(Text(s)) = 0 /\ Text(s) \in Seq(Byte)
    BY <1>1, <1>2, <1>4, TextBytes
  <2>2. Text(s) = << >>
    BY <2>1, EmptySeq
  <2>3. TextOf(bytes) = << >>
    BY <1>1, <1>4, <2>2, TextIsOf
  <2> QED
    BY <1>1, <1>2, <1>3, <2>3, TextsFollow
<1> QED
  BY <1>6, <1>7 DEF StringStep, AbstractTexts!Next

LEMMA StringsNextStep ==
  ASSUME StringsInv, StringsNext
  PROVE  StringStep
<1> USE DEF StringsNext
<1>1. PICK s \in Strings :
        \/ \E t \in Literals : FromLiteral(s, t) \/ ExtendLiteral(s, t)
        \/ \E r \in Strings : FromString(s, r) \/ Assign(s, r) \/ ExtendString(s, r)
        \/ Default(s) \/ Destroy(s) \/ ExtendByItself(s)
  OBVIOUS
<1>2. ASSUME NEW t \in Literals, ExtendLiteral(s, t)
      PROVE  StringStep
  <2>1. Cstr(t) \in Seq(Byte) /\ Ends(Cstr(t)) /\ TextOf(Cstr(t)) = t
    BY CstrBytes, LiteralText
  <2> QED
    BY <1>2, <2>1, ExtendStep DEF ExtendLiteral
<1>3. ASSUME NEW r \in Strings, ExtendString(s, r)
      PROVE  StringStep
  <2>1. Stores /\ status = Running /\ Extend(s, Bytes(r))
    BY <1>3 DEF ExtendString, Extend, StringsInv
  <2>2. Bytes(r) \in Seq(Byte) /\ TextOf(Bytes(r)) = Text(r) /\ Ends(Bytes(r))
    BY <2>1, BytesType, TextIsOf DEF StringsInv
  <2> QED
    BY <2>1, <2>2, ExtendStep
<1> QED
  BY <1>1, <1>2, <1>3, ConstructStep, AssignStep, EmptyStep, ItselfStep

LEMMA StringsInitInv ==
  ASSUME StringsInit
  PROVE  StringsInv
<1> USE BuffersAssumption
<1>1. Gone \in StringType /\ Gone.buf = NoBuffer /\ Gone.length = 0
  BY DEF Gone, StringType
<1>2. /\ \A s \in Strings : str[s] = Gone
      /\ str \in [Strings -> StringType] /\ DOMAIN characters = {} /\ status = Running
  BY <1>1 DEF StringsInit
<1>3. Stores
  BY <1>1, <1>2 DEF Stores, Room, StringsApart
<1>4. \A s \in Strings : Bytes(s) = << >>
  BY <1>1, <1>2 DEF Bytes
<1> QED
  BY <1>2, <1>3, <1>4, NothingEnds DEF StringsInv

LEMMA StringsStay ==
  ASSUME StringsInv, UNCHANGED stringVars
  PROVE  StringsInv'
BY DEF stringVars, StringsInv, Stores, StringsApart, Bytes, Room, Ends

LEMMA StringsInvariant == StringsSpec => []StringsInv
<1>1. StringsInv /\ [StringsNext]_stringVars => StringsInv'
  BY StringsNextStep, StringsStay DEF StringStep
<1>2. StringsInit => StringsInv
  BY StringsInitInv
<1> QED
  BY <1>1, <1>2, PTL DEF StringsSpec

LEMMA EqualTexts ==
  ASSUME StringsInv, status = Running, NEW s \in Strings, NEW r \in Strings,
         str[s].length > 0, str[r].length > 0
  PROVE  Equal(s, r) <=> Text(s) = Text(r)
<1>1. /\ Stores /\ Ends(Bytes(s)) /\ Ends(Bytes(r))
      /\ Len(Bytes(s)) = str[s].length /\ Len(Bytes(r)) = str[r].length
      /\ str[s].length \in Nat /\ str[r].length \in Nat
  BY BytesType DEF StringsInv
<1>2. /\ Text(s) \in Seq(Byte) /\ Len(Text(s)) = str[s].length - 1
      /\ \A i \in 1 .. str[s].length - 1 : Text(s)[i] = Bytes(s)[i]
  BY <1>1, TextBytes
<1>3. /\ Text(r) \in Seq(Byte) /\ Len(Text(r)) = str[r].length - 1
      /\ \A i \in 1 .. str[r].length - 1 : Text(r)[i] = Bytes(r)[i]
  BY <1>1, TextBytes
<1>4. \A i \in 1 .. str[s].length : Bytes(s)[i] = Terminator <=> i = str[s].length
  BY <1>1 DEF Ends
<1>5. \A i \in 1 .. str[r].length : Bytes(r)[i] = Terminator <=> i = str[r].length
  BY <1>1 DEF Ends
<1>6. ASSUME Equal(s, r)
      PROVE  Text(s) = Text(r)
  <2>1. str[s].length = str[r].length
    <3>1. ~(str[s].length < str[r].length)
      <4> SUFFICES ASSUME str[s].length < str[r].length
                   PROVE  FALSE
        OBVIOUS
      <4>1. str[s].length \in Compared(s, r)
        BY <1>1 DEF Compared
      <4>2. Bytes(r)[str[s].length] = Terminator
        BY <1>1, <1>4, <1>6, <4>1 DEF Equal
      <4> QED
        BY <1>1, <1>5, <4>2
    <3>2. ~(str[r].length < str[s].length)
      <4> SUFFICES ASSUME str[r].length < str[s].length
                   PROVE  FALSE
        OBVIOUS
      <4>1. str[r].length \in Compared(s, r)
        BY <1>1 DEF Compared
      <4>2. Bytes(s)[str[r].length] = Terminator
        BY <1>1, <1>5, <1>6, <4>1 DEF Equal
      <4> QED
        BY <1>1, <1>4, <4>2
    <3> QED
      BY <1>1, <3>1, <3>2
  <2>2. \A i \in 1 .. str[s].length - 1 : Text(s)[i] = Text(r)[i]
    <3> SUFFICES ASSUME NEW i \in 1 .. str[s].length - 1
                 PROVE  Text(s)[i] = Text(r)[i]
      OBVIOUS
    <3>1. i \in Compared(s, r) /\ i \in 1 .. str[r].length - 1
      BY <1>1, <2>1 DEF Compared
    <3> QED
      BY <1>2, <1>3, <1>6, <3>1 DEF Equal
  <2> QED
    BY <1>2, <1>3, <2>1, <2>2, SeqEqual
<1>7. ASSUME Text(s) = Text(r)
      PROVE  Equal(s, r)
  <2>1. str[s].length = str[r].length
    BY <1>1, <1>2, <1>3, <1>7
  <2> SUFFICES ASSUME NEW i \in Compared(s, r)
               PROVE  Bytes(s)[i] = Bytes(r)[i]
    BY DEF Equal
  <2>2. i \in 1 .. str[s].length /\ i \in 1 .. str[r].length
    BY <1>1, <2>1 DEF Compared
  <2>3. CASE i = str[s].length
    BY <1>4, <1>5, <2>1, <2>2, <2>3
  <2>4. CASE i # str[s].length
    <3>1. i \in 1 .. str[s].length - 1 /\ i \in 1 .. str[r].length - 1
      BY <1>1, <2>1, <2>2, <2>4
    <3> QED
      BY <1>2, <1>3, <1>7, <3>1
  <2> QED
    BY <2>3, <2>4
<1> QED
  BY <1>6, <1>7

(* Whatever is constructed, copied, assigned and added up, a string keeps  *)
(* to a buffer of its own and to its terminator, and operator== tells any  *)
(* two texts apart (string.cpp:4-86).                                      *)
THEOREM EqualOnlySameText == StringsSpec => []EqualIsSameText
<1>1. StringsInv => EqualIsSameText
  <2> SUFFICES ASSUME StringsInv
               PROVE  EqualIsSameText
    OBVIOUS
  <2>1. StringsTypeOK /\ StringsApart
    BY DEF StringsInv, Stores, Room, StringsTypeOK
  <2>2. Terminated
    <3> SUFFICES ASSUME status = Running, NEW s \in Strings, NEW i \in 1 .. str[s].length
                 PROVE  Bytes(s)[i] = Terminator <=> i = str[s].length
      BY DEF Terminated
    <3>1. Len(Bytes(s)) = str[s].length /\ Ends(Bytes(s))
      BY BytesType DEF StringsInv
    <3> QED
      BY <3>1 DEF Ends
  <2>3. EqualMeansSameText
    BY EqualTexts DEF EqualMeansSameText
  <2> QED
    BY <2>1, <2>2, <2>3 DEF EqualIsSameText
<1> QED
  BY <1>1, StringsInvariant, PTL

(* Strings implement variables that hold texts: every operation sets one,  *)
(* copies one or adds to one, until one of the failures that status records*)
(* (string.cpp:4-77).                                                      *)
THEOREM ImplementsTexts == StringsSpec => RefinesTexts
<1>1. StringsInit => AbstractTexts!Init
  <2> SUFFICES ASSUME StringsInit
               PROVE  AbstractTexts!Init
    OBVIOUS
  <2>1. Stores /\ \A s \in Strings : Bytes(s) = << >>
    <3>1. \A s \in Strings : str[s] = Gone
      BY DEF StringsInit
    <3> QED
      BY <3>1, StringsInitInv DEF StringsInv, Bytes, Gone
  <2>2. \A s \in Strings : Text(s) = << >>
    BY <2>1, TextIsOf, NothingEnds
  <2> QED
    BY <2>2 DEF AbstractTexts!Init
<1>2. StringsInv /\ [StringsNext]_stringVars
        => [status' = Running => AbstractTexts!Next]_stringVars
  BY StringsNextStep DEF StringStep
<1> QED
  BY <1>1, <1>2, StringsInvariant, PTL DEF StringsSpec, RefinesTexts

===============================================================================
