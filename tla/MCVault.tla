------------------------------- MODULE MCVault -------------------------------
(* Small instances of Vault for TLC. *)
EXTENDS Vault, TLC

Symmetric == Permutations(Plain) \cup Permutations(Backups)
                \cup Permutations(Collectors)
=============================================================================
