----------------------------- MODULE MCListing -----------------------------
(* Small instances of the listing: one user, one text. *)
EXTENDS Listing

CONSTANTS d1, d2, d3, u1, c1

OneUser == [d \in Docs |-> u1]
OneText == [d \in Docs |-> c1]
Symmetry == Permutations(Docs)
=============================================================================
