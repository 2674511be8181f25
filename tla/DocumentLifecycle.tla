------------------------- MODULE DocumentLifecycle -------------------------
(***************************************************************************)
(* What the service promises about one document, whatever happens around   *)
(* it: the life the enum, the repository and the worker describe.  A       *)
(* terminal status is final; a summary is the document's own; a document   *)
(* is tried at most MaxRetries + 1 times, and fails only after the last;   *)
(* one that was processed is never also served from someone else's result. *)
(***************************************************************************)
EXTENDS Naturals

CONSTANTS Docs, MaxRetries

VARIABLES phase,     \* "absent", then the stored status
          attempts,
          result     \* "none", "fresh" (processed), "shared" (cached), "error"

lifeVars == <<phase, attempts, result>>

Init ==
  /\ phase = [d \in Docs |-> "absent"]
  /\ attempts = [d \in Docs |-> 0]
  /\ result = [d \in Docs |-> "none"]

Move(d, from, to) == phase[d] = from /\ phase' = [phase EXCEPT ![d] = to]
Gets(d, r) == result' = [result EXCEPT ![d] = r]

Create(d) == Move(d, "absent", "queued") /\ UNCHANGED <<attempts, result>>

CreateServed(d) == Move(d, "absent", "completed") /\ Gets(d, "shared") /\ UNCHANGED attempts

(* A document still waiting for its first attempt takes over a known result. *)
Serve(d) ==
  /\ attempts[d] = 0
  /\ Move(d, "queued", "completed")
  /\ Gets(d, "shared")
  /\ UNCHANGED attempts

Start(d) ==
  /\ attempts[d] <= MaxRetries
  /\ Move(d, "queued", "processing")
  /\ attempts' = [attempts EXCEPT ![d] = @ + 1]
  /\ UNCHANGED result

Finish(d) == Move(d, "processing", "completed") /\ Gets(d, "fresh") /\ UNCHANGED attempts

Retry(d) ==
  /\ attempts[d] <= MaxRetries
  /\ Move(d, "processing", "queued")
  /\ UNCHANGED <<attempts, result>>

GiveUp(d) ==
  /\ attempts[d] = MaxRetries + 1
  /\ Move(d, "processing", "failed")
  /\ Gets(d, "error")
  /\ UNCHANGED attempts

Live(d) ==
  \/ Create(d) \/ CreateServed(d) \/ Serve(d) \/ Start(d)
  \/ Finish(d) \/ Retry(d) \/ GiveUp(d)

Next == \E d \in Docs : Live(d)

Spec == Init /\ [][Next]_lifeVars
=============================================================================
