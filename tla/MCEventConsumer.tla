-------------------------- MODULE MCEventConsumer --------------------------
(***************************************************************************)
(* A small partition for TLC.                                              *)
(***************************************************************************)
EXTENDS EventConsumer

CONSTANT ana

MCCalls == 1 .. MaxLog * (MaxCrashes + 1)

Event(type, customerId, userId) ==
  [type |-> type, customerId |-> customerId, userId |-> userId]

\* Two events that notify, by either field, and one of each kind that does not.
MCMessages == {Event("USER_REGISTERED", None, ana), Event("BOOKING_CREATED", ana, None),
               Event("PAYMENT_SUCCESS", None, None), Event("OTHER", ana, None),
               NoValue, Garbage}
=============================================================================
