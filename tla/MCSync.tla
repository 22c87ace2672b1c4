------------------------------- MODULE MCSync -------------------------------
(* Small instances of Sync for TLC. *)
EXTENDS Sync, TLC

Symmetry == Permutations(Hashes) \union Permutations(Storages)
=============================================================================
