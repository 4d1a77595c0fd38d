------------------------------ MODULE MCBrowser ------------------------------
(***************************************************************************)
(* Instances of Browser for TLC.                                           *)
(***************************************************************************)
EXTENDS Browser, TLC

(***************************************************************************)
(* Fetches are told apart by nothing but their names.  Liveness is checked *)
(* without it.                                                             *)
(***************************************************************************)
Symmetry == Permutations(Calls)
==============================================================================
