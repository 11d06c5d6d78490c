----------------------------- MODULE MCVaultInit -----------------------------
(***************************************************************************)
(* Instances of VaultInit for TLC.                                         *)
(***************************************************************************)
EXTENDS VaultInit, TLC

Symmetry == UNION {Permutations(S) : S \in {Key, Entry, Initer, User}}
=============================================================================
