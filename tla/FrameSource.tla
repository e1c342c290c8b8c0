----------------------------- MODULE FrameSource ------------------------------
(***************************************************************************)
(* What a page frame allocator promises: a frame that is granted leaves    *)
(* the pool, a frame given back may be granted again or may be lost, and   *)
(* no frame enters the pool in another way.                                *)
(***************************************************************************)
CONSTANT Frames

VARIABLES
  avail,     \* frames that may still be granted
  granted    \* frames somebody holds

Init ==
  /\ avail \in SUBSET Frames
  /\ granted = {}

Grant(f) ==
  /\ avail' = avail \ {f}
  /\ granted' = granted \union {f}

(* The frame goes back to the pool, or leaks.                              *)
Release(f) ==
  /\ granted' = granted \ {f}
  /\ avail' \in {avail, avail \union {f}}

(* Frames taken out of circulation for good.                               *)
Withdraw ==
  /\ avail' \in SUBSET avail
  /\ UNCHANGED granted

Next ==
  \/ \E f \in avail : Grant(f)
  \/ \E f \in granted : Release(f)
  \/ Withdraw

Spec == Init /\ [][Next]_<<avail, granted>>

===============================================================================
