-------------------------- MODULE MCWebhookDelivery --------------------------
(* Instances of WebhookDelivery for TLC. *)
EXTENDS WebhookDelivery, TLC

Symmetry == Permutations(Deliveries) \cup Permutations(Pods)
=============================================================================
