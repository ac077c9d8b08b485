----------------------------- MODULE MCDispatch -----------------------------
(***************************************************************************)
(* A small way from Kafka to the worker for TLC.                           *)
(***************************************************************************)
EXTENDS Dispatch

CONSTANT ana

MCCalls == 1 .. MaxLog * (MaxCrashes + 1)

Event(type, customerId) == [type |-> type, customerId |-> customerId, userId |-> None]

\* One event that notifies, one that does not, and one that is no event.
MCMessages == {Event("BOOKING_CREATED", ana), Event("OTHER", ana), Garbage}
=============================================================================
