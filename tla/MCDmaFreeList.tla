-------------------------- MODULE MCDmaFreeList --------------------------
(* Instances of DmaFreeList for TLC. *)
EXTENDS DmaFreeList, TLC

Symmetry == Permutations(Threads)
=============================================================================
