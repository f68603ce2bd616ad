-------------------------- MODULE MCEvidenceLedger --------------------------
(* EvidenceLedger for TLC.                                                 *)
EXTENDS EvidenceLedger, TLC

Symmetry == Permutations(Evidence) \cup Permutations(Tenants) \cup Permutations(Verifiers)
=============================================================================
