---------------------------- MODULE MCOnboarding ----------------------------
(***************************************************************************)
(* Instances of Onboarding for TLC.                                        *)
(***************************************************************************)
EXTENDS Onboarding, TLC

Symmetry == Permutations(Calls) \cup Permutations(Tabs) \cup Permutations(Passwords)
=============================================================================
