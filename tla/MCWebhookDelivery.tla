-------------------------- MODULE MCWebhookDelivery --------------------------
(* One endpoint and one event, with two replicas, a replay call and the inline *)
(* dispatch all busy with them.                                                *)
EXTENDS WebhookDelivery

CONSTANTS n1, e1

OnePair == {<<n1, e1>>}
=============================================================================
