--------------------------------- MODULE Lists ---------------------------------
(***************************************************************************)
(* What vectors promise, without buffers: each vector is a list, an        *)
(* element is added behind it, elements are taken out of it and the others *)
(* keep their order, it takes over another list or gets a copy of it.      *)
(***************************************************************************)
EXTENDS Naturals, Sequences

CONSTANTS Vectors, Elements

VARIABLE lists

WithoutIndex(list, i) == SubSeq(list, 1, i - 1) \o SubSeq(list, i + 1, Len(list))

Append1(v) == \E e \in Elements : lists' = [lists EXCEPT ![v] = Append(@, e)]

Remove1(v) == \E i \in DOMAIN lists[v] : lists' = [lists EXCEPT ![v] = WithoutIndex(@, i)]

Take(v, w) == lists' = [[lists EXCEPT ![v] = lists[w]] EXCEPT ![w] = << >>]

Copy(v, w) == lists' = [lists EXCEPT ![v] = lists[w]]

Init == lists = [v \in Vectors |-> << >>]

Next == \E v, w \in Vectors : Append1(v) \/ Remove1(v) \/ Take(v, w) \/ Copy(v, w)

Spec == Init /\ [][Next]_lists

===============================================================================
