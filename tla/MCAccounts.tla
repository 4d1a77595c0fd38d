----------------------------- MODULE MCAccounts -----------------------------
(***************************************************************************)
(* Instances of Accounts for TLC.                                          *)
(***************************************************************************)
EXTENDS Accounts, TLC

(***************************************************************************)
(* Requests, secrets and accounts are told apart by nothing but their      *)
(* names; every account begins with the same password.                     *)
(***************************************************************************)
Symmetry ==
  Permutations(Requests) \cup Permutations(Secrets) \cup Permutations(Users)
==============================================================================
