------------------------------- MODULE MCVault -------------------------------
(***************************************************************************)
(* Instances of Vault for TLC.                                             *)
(***************************************************************************)
EXTENDS Vault, TLC

CONSTANTS c1, c2

\* Two contents of different lengths.
MCSize == [c \in Content |-> IF c = c1 THEN 1 ELSE 2]

Symmetry == Permutations(Name) \cup Permutations(Id)
=============================================================================
