-------------------------------- MODULE Vector ---------------------------------
(***************************************************************************)
(* Util::vector on buffers of the heap, for the two element types the      *)
(* kernel uses: UniquePtr<Mapping> (owning) and uint64_t.  operator new is *)
(* seen through its promise: any buffer that is not in use.                *)
(***************************************************************************)
EXTENDS Integers, Sequences, HeapBuffers

CONSTANTS
  Vectors,
  Elements,    \* pointers to objects if owning, otherwise numbers
  Value,       \* what operator== compares: the object's value
  Capacities,  \* arguments of reserve
  MaxSize      \* bound on the size of a vector

ASSUME VectorAssumption ==
  /\ Elements \subseteq Nat \ {0} /\ Value \in [Elements -> Nat]
  /\ Capacities \subseteq Nat /\ MaxSize \in Nat

Null == 0    \* the pointer of a UniquePtr that owns nothing
Raw == -1    \* memory in which nothing was constructed

VARIABLES
  owning,    \* whether T is UniquePtr: never changes
  vec,       \* buff, size and capacity of each vector
  memory,    \* the slots of the buffers that operator new gave out
  born,      \* elements that were ever pushed
  deleted,   \* objects deleted by a UniquePtr; Raw, if raw memory was taken
             \* for a pointer to one
  removing   \* remove(const U&): vector, value, next index and, as history,
             \* the list before; or Idle

vars == <<owning, vec, memory, born, deleted, removing>>

Empty == [buff |-> NoBuffer, size |-> 0, capacity |-> 0]
Idle == [vector |-> NoBuffer, value |-> 0, index |-> 0, before |-> << >>]

Slots(v) == IF vec[v].buff = NoBuffer THEN << >> ELSE memory[vec[v].buff]

Contents(v) == [i \in 1 .. vec[v].size |-> Slots(v)[i - 1]]

-------------------------------------------------------------------------------
(* Mutant: the assignment of a UniquePtr leaves the pointer it took.       *)
MovedFromKept(slot) == slot

(* What moving an element leaves behind.  The assignment overwrites its    *)
(* target without deleting what that owned, be it raw memory or an object. *)
MovedFrom(slot) == IF owning THEN Null ELSE slot

Freed(buff) == [b \in DOMAIN memory \ {buff} |-> memory[b]]

With(mem, buff, slots) ==
  [b \in DOMAIN mem \union {buff} |-> IF b = buff THEN slots ELSE mem[b]]

(* Mutant: the last element stays behind.                                  *)
FilledShort(v, capacity) ==
  [i \in 0 .. capacity - 1 |-> IF i < vec[v].size - 1 THEN Slots(v)[i] ELSE Raw]

Filled(v, capacity) ==
  [i \in 0 .. capacity - 1 |-> IF i < vec[v].size THEN Slots(v)[i] ELSE Raw]

(* Elements are moved to buffer b and the old one is deleted.              *)
swapBuffers(v, capacity, b) == With(Freed(vec[v].buff), b, Filled(v, capacity))

(* The size is 0 but there is a buffer: its first slot holds what was      *)
(* removed last, or is raw.                                                *)
HasLeftover(v) == vec[v].size = 0 /\ vec[v].buff # NoBuffer

(* swapBuffers destroys what it moved from, and "delete buff" the first    *)
(* slot, also of an empty vector: a UniquePtr that has a pointer deletes   *)
(* the object.                                                             *)
Destroyed(v) ==
  {MovedFrom(Slots(v)[i]) : i \in 0 .. vec[v].size - 1}
    \union (IF HasLeftover(v) THEN {Slots(v)[0]} ELSE {})

SwapDeletes(v) == IF owning THEN Destroyed(v) \ {Null} ELSE {}

(* Raw memory may hold a null pointer.                                     *)
DeleteMovedFrom(v) ==
  \E null \in SUBSET {Raw} : deleted' = deleted \union (SwapDeletes(v) \ null)

MustGrow(v) == vec[v].size + 1 > vec[v].capacity

(* Mutant: the loop ends before the last element moved.                    *)
RemovedShort(v, index) ==
  [i \in DOMAIN Slots(v) |->
     IF i \in index .. vec[v].size - 3 THEN Slots(v)[i + 1] ELSE Slots(v)[i]]

(* remove(uint64_t): the elements behind move down; a last one that was    *)
(* removed itself stays where it is, behind the end.                       *)
Removed(v, index) ==
  LET last == vec[v].size - 1
  IN  [i \in DOMAIN Slots(v) |->
         IF i \in index .. last - 1 THEN Slots(v)[i + 1]
         ELSE IF i = last /\ index < last THEN MovedFrom(Slots(v)[i])
         ELSE Slots(v)[i]]

(* Mutant: remove compares the element behind.                             *)
MatchesNext(i, x) == i + 1 < vec[removing.vector].size /\ Value[Slots(removing.vector)[i + 1]] = x

(* begin() to end(), which is the address of the last element.  On an      *)
(* empty vector the walk starts behind its end and goes astray.            *)
Walked(v) == 0 .. vec[v].size - 2

contains(v, x) == \E i \in Walked(v) : Slots(v)[i] \in Elements /\ Value[Slots(v)[i]] = x

Matches(i, x) == Value[Slots(removing.vector)[i]] = x

-------------------------------------------------------------------------------
Init ==
  /\ owning \in BOOLEAN
  /\ vec = [v \in Vectors |-> Empty]
  /\ memory = << >>
  /\ born = {} /\ deleted = {}
  /\ removing = Idle

push_back(v, e) ==
  /\ removing = Idle /\ vec[v].size < MaxSize
  /\ owning => e \notin born
  /\ \E b \in Buffers \union {NoBuffer} :
       LET grow == MustGrow(v)
           capacity == IF grow THEN (vec[v].capacity + 1) * 2 ELSE vec[v].capacity
           mem == IF grow THEN swapBuffers(v, capacity, b) ELSE memory
       IN  /\ IF grow THEN b \in Buffers \ DOMAIN memory ELSE b = vec[v].buff
           /\ vec' = [vec EXCEPT ![v] = [buff |-> b, size |-> vec[v].size + 1,
                                         capacity |-> capacity]]
           /\ memory' = With(mem, b, [i \in DOMAIN mem[b] \union {vec[v].size} |->
                                        IF i = vec[v].size THEN e ELSE mem[b][i]])
           /\ IF grow THEN DeleteMovedFrom(v) ELSE deleted' = deleted
  /\ born' = born \union {e}
  /\ UNCHANGED <<owning, removing>>

reserve(v, capacity) ==
  /\ removing = Idle /\ vec[v].capacity < capacity
  /\ \E b \in Buffers \ DOMAIN memory :
       /\ memory' = swapBuffers(v, capacity, b)
       /\ vec' = [vec EXCEPT ![v] = [buff |-> b, size |-> vec[v].size, capacity |-> capacity]]
  /\ DeleteMovedFrom(v)
  /\ UNCHANGED <<owning, born, removing>>

RemoveAt(v, index) ==
  /\ memory' = [memory EXCEPT ![vec[v].buff] = Removed(v, index)]
  /\ vec' = [vec EXCEPT ![v].size = @ - 1]

(* remove(uint64_t), which does not exist for vectors of uint64_t: the     *)
(* call would be ambiguous.                                                *)
remove(v, index) ==
  /\ owning /\ removing = Idle /\ index < vec[v].size
  /\ RemoveAt(v, index)
  /\ UNCHANGED <<owning, born, deleted, removing>>

(* remove(const U&): a loop over the indices.                              *)
StartRemove(v, x) ==
  /\ owning /\ removing = Idle
  /\ removing' = [vector |-> v, value |-> x, index |-> 0, before |-> Contents(v)]
  /\ UNCHANGED <<owning, vec, memory, born, deleted>>

RemoveRound ==
  LET v == removing.vector
  IN  /\ removing # Idle /\ removing.index < vec[v].size
      /\ IF Matches(removing.index, removing.value)
         THEN RemoveAt(v, removing.index) ELSE UNCHANGED <<vec, memory>>
      /\ removing' = [removing EXCEPT !.index = @ + 1]
      /\ UNCHANGED <<owning, born, deleted>>

EndRemove ==
  /\ removing # Idle /\ removing.index >= vec[removing.vector].size
  /\ removing' = Idle
  /\ UNCHANGED <<owning, vec, memory, born, deleted>>

(* Mutant: the vector that is moved from keeps its buffer.                 *)
TakenKept(v, w) == [vec EXCEPT ![v] = vec[w]]

Taken(v, w) == [[vec EXCEPT ![v] = vec[w]] EXCEPT ![w] = Empty]

(* The move constructor and the move assignment, which drops what the      *)
(* vector had.                                                             *)
MoveAssign(v, w) ==
  /\ removing = Idle
  /\ vec' = Taken(v, w)
  /\ UNCHANGED <<owning, memory, born, deleted, removing>>

(* The copy constructor and the copy assignment: destroyBuff, and a copy   *)
(* element by element into a buffer of the same capacity.  UniquePtr       *)
(* cannot be copied.  Assigned to itself a vector would be copied from the *)
(* new buffer: no code does that.                                          *)
CopyAssign(v, w) ==
  /\ ~owning /\ removing = Idle /\ v # w
  /\ \E b \in Buffers \ DOMAIN Freed(vec[v].buff) :
       /\ memory' = With(Freed(vec[v].buff), b, Filled(w, vec[w].capacity))
       /\ vec' = [vec EXCEPT ![v] = [vec[w] EXCEPT !.buff = b]]
  /\ UNCHANGED <<owning, born, deleted, removing>>

(* The heap may be anything after a delete of raw memory: there the        *)
(* behaviours end.                                                         *)
Next ==
  /\ Raw \notin deleted
  /\ \/ \E v \in Vectors :
          \/ \E e \in Elements : push_back(v, e)
          \/ \E c \in Capacities : reserve(v, c)
          \/ \E i \in 0 .. MaxSize - 1 : remove(v, i)
          \/ \E e \in Elements : StartRemove(v, Value[e])
          \/ \E w \in Vectors : MoveAssign(v, w) \/ CopyAssign(v, w)
     \/ RemoveRound
     \/ EndRemove

Spec == Init /\ [][Next]_vars

-------------------------------------------------------------------------------
(* Types, and the bounds every access relies on: size is at most capacity, *)
(* capacity is what the buffer has room for (vector.h:12-14, 89-96).       *)
TypeOK ==
  /\ owning \in BOOLEAN
  /\ vec \in [Vectors -> [buff : Buffers \union {NoBuffer}, size : Nat, capacity : Nat]]
  /\ DOMAIN memory \subseteq Buffers
  /\ born \subseteq Elements /\ deleted \subseteq Elements \union {Raw}
  /\ \A v \in Vectors :
       /\ vec[v].size <= vec[v].capacity
       /\ vec[v].buff # NoBuffer => /\ vec[v].buff \in DOMAIN memory
                                    /\ DOMAIN Slots(v) = 0 .. vec[v].capacity - 1
       /\ vec[v].buff = NoBuffer => vec[v].capacity = 0

(* No two vectors share a buffer, so the one that grows does not delete    *)
(* the other's (vector.h:22, 79-87).                                       *)
BuffersApart ==
  \A v, w \in Vectors : v # w /\ vec[v].buff = vec[w].buff => vec[v].buff = NoBuffer

(* Every element in a vector was constructed, and an object in a vector is *)
(* not deleted; nor is one deleted twice.  swapBuffers destroys all slots  *)
(* it moved from and the first of them again, and deletes what was removed *)
(* last from a vector that is empty (vector.h:18-22).                      *)
ElementsAlive ==
  \A v \in Vectors :
    /\ \A i \in 0 .. vec[v].size - 1 : Slots(v)[i] \in born \ deleted
    /\ SwapDeletes(v) \intersect deleted \subseteq {Raw}

(* An object is in one place of one vector (UniquePtr).                    *)
SoleOwner ==
  owning => \A v, w \in Vectors :
    \A i \in 0 .. vec[v].size - 1, j \in 0 .. vec[w].size - 1 :
      Slots(v)[i] = Slots(w)[j] => v = w /\ i = j

(* Where in a list before its elements after have been, in their order.    *)
Places(before, after) ==
  {from \in [DOMAIN after -> DOMAIN before] :
     \A i, j \in DOMAIN after :
       after[i] = before[from[i]] /\ (i < j => from[i] < from[j])}

(* When remove(const U&) is through, the other elements are all there in   *)
(* their order, and an equal one is left only right behind one that was    *)
(* taken out: the loop does not look at what moved into the gap.           *)
RemoveTakesEqual ==
  removing # Idle /\ removing.index >= vec[removing.vector].size =>
    LET before == removing.before
    IN  \E from \in Places(before, Contents(removing.vector)) :
          LET taken == DOMAIN before \ {from[i] : i \in DOMAIN from}
          IN  /\ \A p \in taken : Value[before[p]] = removing.value
              /\ \A i \in DOMAIN from :
                   Value[before[from[i]]] = removing.value => from[i] - 1 \in taken

(* contains of a vector that is not empty never finds what was removed,    *)
(* although removed pointers stay in the buffer (vector.h:114, 156).       *)
ContainsOnlyElements ==
  \A v \in Vectors, e \in Elements :
    vec[v].size > 0 /\ contains(v, Value[e]) =>
      \E i \in 0 .. vec[v].size - 1 : Value[Slots(v)[i]] = Value[e]

(* remove(const U&) takes out what it is asked to, and contains does not   *)
(* find it in a slot behind the end (vector.h:113-157).                    *)
RemovedIsGone == RemoveTakesEqual /\ ContainsOnlyElements

(* Vectors are lists, whatever buffers their elements are moved to.        *)
Abstract == INSTANCE Lists WITH lists <- [v \in Vectors |-> Contents(v)]

RefinesLists == Abstract!Spec

===============================================================================
