------------------------ MODULE MCPreferenceService ------------------------
(***************************************************************************)
(* Three edits of two customers for TLC: two that touch different fields,  *)
(* one under a name the schema lacks, and two that take one of the fields  *)
(* back and name a customer, who may be the one who edits or the other.    *)
(***************************************************************************)
EXTENDS PreferenceService, TLC

CONSTANTS c1, c2, c3, u1, u2, d1, d2, d3

FewBodies == {[emailEnabled |-> FALSE], [pushEnabled |-> FALSE], [email_enabled |-> FALSE]}
             \cup {[emailEnabled |-> TRUE, customerId |-> u] : u \in {u1, u2}}

Symmetry == Permutations({c1, c2, c3}) \cup Permutations({u1, u2}) \cup Permutations({d1, d2, d3})
=============================================================================
