---------------------------- MODULE MCLifecycle ----------------------------
(***************************************************************************)
(* Two events, two requests and two signals for TLC.                       *)
(***************************************************************************)
EXTENDS Lifecycle

CONSTANTS e1, e2, r1, r2
=============================================================================
