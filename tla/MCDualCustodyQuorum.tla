------------------------- MODULE MCDualCustodyQuorum -------------------------
(* Instances of DualCustodyQuorum for TLC. *)
EXTENDS DualCustodyQuorum, TLC

Symmetry ==
    Permutations(Users) \cup Permutations(Tasks) \cup Permutations(Quorums)
    \cup Permutations(Scopes)
=============================================================================
