------------------------------ MODULE HeapBuffers ------------------------------
(* What vectors and strings see of the heap.                               *)
CONSTANTS
  Buffers,     \* addresses operator new and operator new[] can return
  NoBuffer     \* nullptr

ASSUME BuffersAssumption == NoBuffer \notin Buffers

===============================================================================
