-------------------------- MODULE MCActionSimulation --------------------------
(* Instances of ActionSimulation for TLC. *)
EXTENDS ActionSimulation, TLC

Symmetry == Permutations(Approvers) \cup Permutations(Sims)
            \cup Permutations(Users) \cup Permutations(Proposals)
            \cup Permutations(Actions)
=============================================================================
