--------------------------------- MODULE Texts ---------------------------------
(***************************************************************************)
(* What strings promise, without buffers: a variable is set to a text, to  *)
(* a copy of another's, or gets a text added behind its own.               *)
(***************************************************************************)
EXTENDS Sequences

CONSTANTS Strings, Literals

VARIABLE text

SetTo(s, t) == text' = [text EXCEPT ![s] = t]

Init == text = [s \in Strings |-> << >>]

Next ==
  \E s \in Strings :
    \/ SetTo(s, << >>)
    \/ \E t \in Literals \union {text[r] : r \in Strings} : SetTo(s, t) \/ SetTo(s, text[s] \o t)

Spec == Init /\ [][Next]_text

===============================================================================
