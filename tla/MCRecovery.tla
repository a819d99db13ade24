----------------------------- MODULE MCRecovery -----------------------------
(* Recovery for TLC. *)
EXTENDS Recovery, TLC

Symmetric == Permutations(Plain) \cup Permutations(Backups)
               \cup Permutations(Collectors)
=============================================================================
