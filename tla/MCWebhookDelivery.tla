------------------------- MODULE MCWebhookDelivery -------------------------
(***************************************************************************)
(* Small instances of WebhookDelivery for TLC.                             *)
(***************************************************************************)
EXTENDS WebhookDelivery, TLC

CONSTANT p1

(* Every endpoint belongs to the same partner.                             *)
OneOwner == [h \in Hook |-> p1]

=============================================================================
