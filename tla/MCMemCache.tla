----------------------------- MODULE MCMemCache -----------------------------
(* Instances of MemCache for TLC. *)
EXTENDS MemCache, TLC
Symmetry == Permutations(Threads) \union Permutations(Objects)
=============================================================================
