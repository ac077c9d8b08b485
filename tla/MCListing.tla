----------------------------- MODULE MCListing -----------------------------
(***************************************************************************)
(* Four notifications for TLC; pages of one and two, all at once, and      *)
(* clients that count from -1, 0 and 1.                                    *)
(***************************************************************************)
EXTENDS Listing, TLC

CONSTANTS n1, n2, n3, n4

FewPages  == {None, -1, 0, 1}
FewLimits == {None, 0, 1, 2}
Symmetry  == Permutations({n1, n2, n3, n4})
=============================================================================
