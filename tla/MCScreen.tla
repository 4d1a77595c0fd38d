------------------------------ MODULE MCScreen ------------------------------
(***************************************************************************)
(* Instances of VaultScreen for TLC.                                       *)
(***************************************************************************)
EXTENDS VaultScreen, TLC

Symmetry == Permutations(Jobs)
=============================================================================
