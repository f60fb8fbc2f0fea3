------------------------------ MODULE MCMemmove ------------------------------
(* Bounded instance of Memmove: four-byte words, blocks from six bytes on,   *)
(* and every pair of ranges in eighteen bytes of memory.                     *)
EXTENDS Memmove
==============================================================================
