------------------------------ MODULE MCBufMgr ------------------------------
(***************************************************************************)
(* Two backends and a checkpointer with one or two buffers for three       *)
(* blocks, and what may fail in several combinations.                      *)
(***************************************************************************)
EXTENDS BufMgr, TLC

CONSTANTS p1, p2, k1, k2, k3

MCBackends == {p1, p2}
MCBlocks == {k1, k2, k3}
MCPlans == {[NBuffers |-> 2, may |-> {}], [NBuffers |-> 1, may |-> {"read", "error", "cleanup", "cancel"}],
            [NBuffers |-> 1, may |-> {"write", "cleanup"}]}
MCSymmetry == Permutations(MCBlocks) \cup Permutations(MCBackends)
=============================================================================
