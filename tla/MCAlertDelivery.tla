-------------------------- MODULE MCAlertDelivery ---------------------------
(* AlertDelivery with two alerts: one expires early, the other may be invalid. *)
EXTENDS AlertDelivery

CONSTANTS early, late

MCExpires == [i \in Intent |-> IF i = early THEN 1 ELSE 2]

=============================================================================
