------------------------------- MODULE MCVault -------------------------------
(***************************************************************************)
(* Instances of Vault for TLC.                                             *)
(***************************************************************************)
EXTENDS Vault, TLC

(***************************************************************************)
(* Calls and users are told apart by nothing but their names.              *)
(***************************************************************************)
Symmetry == Permutations(Requests) \cup Permutations(Users)
==============================================================================
