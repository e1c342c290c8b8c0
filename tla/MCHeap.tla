-------------------------------- MODULE MCHeap --------------------------------
(* A heap of two pages of 8 blocks that grows and shrinks page by page.    *)
EXTENDS Heap

(* A block that leaves no room for a second header, one of half a page,    *)
(* one that needs two pages to grow.                                       *)
MCSizes == {1, 4, 9}

MCOverstatements == {0, 1}

===============================================================================
