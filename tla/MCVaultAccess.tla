----------------------------- MODULE MCVaultAccess -----------------------------
(* Small instances of VaultAccess: what may be permuted. *)
EXTENDS VaultAccess, TLC

Symmetry == Permutations(Users) \cup Permutations(Vaults) \cup Permutations(Secrets)
================================================================================
