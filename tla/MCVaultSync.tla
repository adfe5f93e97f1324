---------------------------- MODULE MCVaultSync ----------------------------
(* VaultSync on a small instance.  Turns are interchangeable, and contents. *)
EXTENDS VaultSync, TLC

Symmetric == Permutations(Turns) \union Permutations(Contents)
=============================================================================
