----------------------------- MODULE MCContainers ------------------------------
(* Two vectors, whose elements 1 and 3 have equal values, and two strings, *)
(* with the empty text and two others, one the beginning of the other.     *)
EXTENDS Vector, String, TLC

MCVectors == {"v", "w"}
MCValue == [e \in Elements |-> e % 2]
MCStrings == {"s", "t"}
MCLiterals == {<< >>, <<"a">>, <<"a", "b">>}
MCSymmetry == Permutations(Buffers)

-------------------------------------------------------------------------------
(* Vectors and strings share nothing but the heap they get buffers from:   *)
(* one run explores the vectors with no string there, and the strings with *)
(* no vector in use.                                                       *)
(* Numbers are copied, so two of them make more states than three objects. *)
NumberBound == owning \/ born' \subseteq {1, 2}

MCInit == Init /\ StringsInit

MCNext ==
  \/ StringsInit /\ Next /\ NumberBound /\ UNCHANGED stringVars
  \/ Init /\ ~owning /\ StringsNext /\ UNCHANGED vars

MCSpec == MCInit /\ [][MCNext]_<<vars, stringVars>>

===============================================================================
