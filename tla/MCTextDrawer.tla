----------------------------- MODULE MCTextDrawer -----------------------------
(* Two columns; two lines and, as with 1080 pixel rows, half of a third.   *)
(* Numbers of one and two bytes: all of one byte, and those around powers  *)
(* of ten and at the ends of the types.  For the interrupts, three lines   *)
(* of three characters, a last message of two, an interrupt at the vector  *)
(* of the double fault and one at a vector without a handler.              *)
EXTENDS TextDrawer, Numbers, Interrupts

MCChars == {"a", "b"}
MCTypes == [bytes : {1, 2}, signed : BOOLEAN]

Edges == {1000, 10000, 32768, 65536, -32768, -10000, -1000}
MCIrqs == {8, 32}

MCArguments == (-130 .. 258) \union {n + d : n \in Edges, d \in -2 .. 2}

-------------------------------------------------------------------------------
(* Digits are put in a buffer before any of them is drawn, and Interrupts  *)
(* only follows the cursor, so one run explores the drawer, each number,   *)
(* and main with its interrupts; two of them rest while one runs, about to *)
(* print 0, and main at its begin.                                         *)
NoNumber == NumbersInit /\ v = 0 /\ type = [bytes |-> 1, signed |-> FALSE]

NoInterrupts ==
  InterruptsInit /\ cursor.y = 0 /\ gates = [vector \in Vectors |-> "absent"]

MCInit == Init /\ NumbersInit /\ InterruptsInit /\ (NoNumber \/ NoInterrupts)

MCNext ==
  \/ NoNumber /\ NoInterrupts /\ Next /\ UNCHANGED <<numberVars, processor>>
  \/ Init /\ NoInterrupts /\ NumbersNext /\ UNCHANGED <<vars, processor>>
  \/ NoNumber /\ Init /\ InterruptsNext /\ UNCHANGED <<vars, numberVars>>

(* Fairness is that of Interrupts, the processor executes; where something *)
(* else runs nothing is claimed to happen in the end.                      *)
MCSpec ==
  MCInit /\ [][MCNext]_<<vars, numberVars, processor>> /\ WF_processor(Execute)

===============================================================================
