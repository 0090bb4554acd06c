-------------------------- MODULE MCAlertDelivery --------------------------
(* A small instance of AlertDelivery for TLC.                              *)
EXTENDS AlertDelivery, TLC

CONSTANTS n1, n2, t1, x1, admin
=============================================================================
