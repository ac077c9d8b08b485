------------------------- MODULE MCTemplateService -------------------------
(***************************************************************************)
(* Small instances of TemplateService for TLC.                             *)
(***************************************************************************)
EXTENDS TemplateService

CONSTANTS p1, p2, s1, t1, t2, welcome, receipt

\* The script's list, shortened to two.
MCDefaults == <<[name |-> welcome, text |-> "default"], [name |-> receipt, text |-> "default"]>>
=============================================================================
