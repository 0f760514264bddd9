------------------------------- MODULE MCLog -------------------------------
(* Instances of Log for TLC; the constants are given in the MCLog*.cfg.    *)
EXTENDS Log
=============================================================================
