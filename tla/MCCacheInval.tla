---------------------------- MODULE MCCacheInval ----------------------------
(* Instances of CacheInval for TLC. *)
EXTENDS CacheInval, TLC
Symmetry == Permutations(Backends)
=============================================================================
