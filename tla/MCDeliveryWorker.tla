-------------------------- MODULE MCDeliveryWorker --------------------------
(***************************************************************************)
(* Three messages for TLC, one of them malformed.                          *)
(***************************************************************************)
EXTENDS DeliveryWorker

CONSTANTS m1, m2, bad
=============================================================================
