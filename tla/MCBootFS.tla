------------------------------ MODULE MCBootFS ------------------------------
(* One kernel and two drivers, as in the source's lists; headers of three  *)
(* bytes and room for exactly three of them, so that one more would show.  *)
EXTENDS BootFS

MCKERNELS == <<"kernel">>
MCDRIVERS == <<"file_system", "libpci.a">>
=============================================================================
