------------------------------- MODULE MCProc ------------------------------
(* Instances of Proc for TLC; the constants are given in the MCProc*.cfg.  *)
EXTENDS Proc, TLC
=============================================================================
