---------------------------- MODULE MCExtension ----------------------------
(***************************************************************************)
(* Instances of Extension for TLC.                                         *)
(***************************************************************************)
EXTENDS Extension
=============================================================================
