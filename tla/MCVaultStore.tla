---------------------------- MODULE MCVaultStore ----------------------------
(* TLC instances of VaultStore. *)
EXTENDS VaultStore, TLC

Symmetry == Permutations(Devices \ Retirable) \cup Permutations(SnapIds) \cup Permutations(Items)
=============================================================================
