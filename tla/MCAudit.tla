------------------------------ MODULE MCAudit ------------------------------
(***************************************************************************)
(* Instances of AuditPages for TLC.                                        *)
(***************************************************************************)
EXTENDS AuditPages, TLC

Symmetry == Permutations(Writers)
=============================================================================
