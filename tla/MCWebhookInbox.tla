--------------------------- MODULE MCWebhookInbox ---------------------------
(* Model values and symmetry for WebhookInbox, with its assumptions.       *)
EXTENDS WebhookInboxProof, TLC
Symmetry == Permutations(Deliveries)
=============================================================================
