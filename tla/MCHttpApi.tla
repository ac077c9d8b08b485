----------------------------- MODULE MCHttpApi -----------------------------
(***************************************************************************)
(* Two requests at the same time for TLC.                                  *)
(***************************************************************************)
EXTENDS HttpApi

CONSTANTS r1, r2
=============================================================================
