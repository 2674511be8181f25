----------------------------- MODULE MCJobTimes -----------------------------
(* Small instances of the pipeline on a clock.  The unit is 5 seconds where *)
(* the numbers are the defaults of config.py.                               *)
EXTENDS JobTimes, TLC

CONSTANTS d1, d2, d3, u1, u2, c1

OneText == [d \in Docs |-> c1]
OneUser == [d \in Docs |-> u1]
TwoUsers == [d \in Docs |-> IF d = d2 THEN u2 ELSE u1]

WorkerSymmetry == Permutations(Workers)
Symmetry == WorkerSymmetry \cup Permutations(Docs)   \* of one user and one text
=============================================================================
