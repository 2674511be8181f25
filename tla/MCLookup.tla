------------------------------ MODULE MCLookup ------------------------------
(* A small instance for the lookups: a user submits one text twice. *)
EXTENDS Lookup, TLC

CONSTANTS d1, d2, u1, c1

OneText == [d \in Docs |-> c1]
OneUser == [d \in Docs |-> u1]

Symmetry == Permutations(Workers) \cup Permutations(Docs)
=============================================================================
