------------------------------ MODULE MCHealth ------------------------------
(***************************************************************************)
(* Instances of HealthReports for TLC.                                     *)
(***************************************************************************)
EXTENDS HealthReports, TLC

Symmetry == Permutations(Users) \cup Permutations(Items) \cup Permutations(Requests)
=============================================================================
