----------------------------- MODULE MCBootImage -----------------------------
(* Bounded instance of BootImage: two-byte pages, four to a large page, and *)
(* images at every offset of a large page.                                  *)
EXTENDS BootImage
==============================================================================
