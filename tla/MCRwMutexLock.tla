-------------------------- MODULE MCRwMutexLock --------------------------
(* Instances of RwMutexLock for TLC. *)
EXTENDS RwMutexLock, TLC

Symmetry == Permutations(Readers \ Owners)
=============================================================================
