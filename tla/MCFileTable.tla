---------------------------- MODULE MCFileTable ----------------------------
(* Instances of FileTable for TLC; the constants are in MCFileTable*.cfg.  *)
EXTENDS FileTable
=============================================================================
