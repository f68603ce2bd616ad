---------------------------- MODULE MCEventDelivery ----------------------------
(* Instances of EventDelivery for TLC. *)
EXTENDS EventDelivery

Symmetry == Permutations(Publishers) \cup Permutations(Consumers)
=============================================================================
