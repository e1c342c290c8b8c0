------------------------------ MODULE AddressMap -------------------------------
(***************************************************************************)
(* What a virtual memory manager promises: a map from virtual pages to     *)
(* frames that changes one page at a time.  A page that is mapped again    *)
(* keeps the flags it had; a page that is unmapped loses them.             *)
(***************************************************************************)
CONSTANTS
  Pages,      \* virtual pages
  Targets,    \* frames a page may be mapped to
  FlagSets,   \* flag arguments of MapMemory
  Unmapped    \* the entry of a page that is not mapped: no flags

VARIABLE mapping

Init == mapping = [page \in Pages |-> Unmapped]

OnlyChanges(page) == \A other \in Pages \ {page} : mapping'[other] = mapping[other]

Map(page, frame, flags) ==
  /\ OnlyChanges(page)
  /\ mapping'[page] =
       [frame |-> frame, flags |-> mapping[page].flags \union flags \union {"Present"}]

Unmap(page) ==
  /\ OnlyChanges(page)
  /\ mapping'[page] = Unmapped

Next ==
  \E page \in Pages :
    \/ Unmap(page)
    \/ \E flags \in FlagSets :
         mapping'[page].frame \in Targets /\ Map(page, mapping'[page].frame, flags)

Spec == Init /\ [][Next]_mapping

===============================================================================
