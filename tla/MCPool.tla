------------------------------- MODULE MCPool -------------------------------
(***************************************************************************)
(* Instances of Pool for TLC.  Its liveness rules out symmetry.            *)
(***************************************************************************)
EXTENDS Pool
=============================================================================
