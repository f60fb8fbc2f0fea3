----------------------------- MODULE MCInterrupts -----------------------------
(* Bounded instance of Interrupts: the timer's and the keyboard's vectors.  *)
EXTENDS Interrupts
===============================================================================
