-------------------------- MODULE MCWebhookDelivery --------------------------
(***************************************************************************)
(* WebhookDelivery for TLC.  Row ids and workers are interchangeable.      *)
(***************************************************************************)
EXTENDS WebhookDelivery, TLC

DeliverySymmetry == Permutations(Deliveries) \cup Permutations(Workers)

=============================================================================
