----------------------------- MODULE MCConsole -----------------------------
(* A reader and a writer on two CPUs, one of which takes the keyboard's  *)
(* interrupts; a ring of two characters whose indices wrap at four.        *)
EXTENDS Console
=============================================================================
