---------------------------- MODULE MCAuditPackage ----------------------------
(* Instances of AuditPackage for TLC. *)
EXTENDS AuditPackage

Symmetry == Permutations(Tasks)
=============================================================================
