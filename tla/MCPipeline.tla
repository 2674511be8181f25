----------------------------- MODULE MCPipeline -----------------------------
(* Small instances of the service: who submits what, and symmetry. *)
EXTENDS Pipeline, TLC

CONSTANTS d1, d2, d3, d4, u1, u2, c1, c2

(* One text submitted by two users in turn. *)
OneText == [d \in Docs |-> c1]
TwoUsers == [d \in Docs |-> IF d \in {d1, d3} THEN u1 ELSE u2]

(* Two texts, the second by one document only; a single user. *)
TwoTexts == [d \in Docs |-> IF d = d2 THEN c2 ELSE c1]
OneUser == [d \in Docs |-> u1]

(* In Races the documents of one user are interchangeable as well. *)
Symmetry == Permutations(Workers) \cup Permutations({d1, d3}) \cup Permutations({d2, d4})
WorkerSymmetry == Permutations(Workers)
=============================================================================
