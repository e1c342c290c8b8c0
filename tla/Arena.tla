-------------------------------- MODULE Arena ---------------------------------
(***************************************************************************)
(* What operator new and operator delete promise: a block is given out     *)
(* inside the heap, apart from every block that is live, and stays the     *)
(* owner's until it is deleted.  The heap may grow, and shrink where no    *)
(* block is live.                                                          *)
(***************************************************************************)
EXTENDS Integers

VARIABLES
  low, high,   \* the heap is low .. high - 1
  live         \* the live blocks: address and size

Bytes(block) == block.address .. block.address + block.size - 1

Fits(blocks) ==
  /\ \A b \in blocks : Bytes(b) \subseteq low' .. high' - 1
  /\ \A b, c \in blocks : b # c => Bytes(b) \intersect Bytes(c) = {}

Init == low \in Nat /\ high \in Nat /\ live = {}

(* At most one block comes or goes in a step; the others do not move.      *)
Next ==
  /\ low' = low
  /\ \/ \E b \in live' : b \notin live /\ live' = live \union {b}
     \/ \E b \in live : live' = live \ {b}
     \/ live' = live
  /\ Fits(live')

Spec == Init /\ [][Next]_<<low, high, live>>

===============================================================================
