------------------------------ MODULE MCBcache -----------------------------
(* Instances of Bcache for TLC; the constants are in the MCBcache*.cfg.    *)
EXTENDS Bcache, TLC

Symmetry ==
  UNION {Permutations(S) : S \in {Procs, Vals, Blocks, Bufs}}
=============================================================================
