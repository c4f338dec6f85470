-------------------------- MODULE MCImmutableStore --------------------------
(* Small instances of ImmutableStore.                                      *)
EXTENDS ImmutableStore, TLC

Symmetry == Permutations(Inodes) \cup Permutations(Contents)
=============================================================================
