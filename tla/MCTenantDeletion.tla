-------------------------- MODULE MCTenantDeletion --------------------------
(* Instances of TenantDeletion for TLC. *)
EXTENDS TenantDeletion, TLC

Symmetry == Permutations(Callers) \cup Permutations(Holds)
=============================================================================
