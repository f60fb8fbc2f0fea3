-------------------------------- MODULE MCHeap --------------------------------
(* Bounded instances of Heap.  Bytes are scaled by four: a hole node takes  *)
(* 4 bytes aligned to 2.                                                    *)
EXTENDS Heap

MCLayouts ==
  {[size |-> 1, align |-> 1], [size |-> 5, align |-> 2],
   [size |-> 4, align |-> 8], [size |-> 8, align |-> 4]}
===============================================================================
