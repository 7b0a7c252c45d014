------------------------ MODULE MCWebhookDelivery ------------------------
(* Instances of WebhookDelivery for TLC. *)
EXTENDS WebhookDelivery

CONSTANTS e1, e2
=============================================================================
