------------------------- MODULE DocumentRepository -------------------------
(***************************************************************************)
(* The `documents` collection and the repository's updates of it.  Every   *)
(* update but the claim is unconditional: it names the document, not the   *)
(* status it expects.  Timestamps, title and content are left out; a       *)
(* summary is represented by the content it summarises.                    *)
(***************************************************************************)
EXTENDS Environment

VARIABLE docs

Statuses == {"queued", "processing", "completed", "failed"}
Active == {"queued", "processing"}
Terminal == {"completed", "failed"}

DocumentInDB ==
  [ status   : Statuses \cup {"absent"},   \* "absent": never inserted
    summary  : Contents \cup {Null},
    error    : BOOLEAN,                    \* an error message is stored
    attempts : Nat,
    cached   : BOOLEAN ]

NoDocument == [ status |-> "absent", summary |-> Null, error |-> FALSE,
                attempts |-> 0, cached |-> FALSE ]

RepositoryInit == docs = [d \in Docs |-> NoDocument]

Status(d) == docs[d].status

Insert(d, status, summary, cached) ==
  docs' = [docs EXCEPT ![d] =
             [ status |-> status, summary |-> summary, error |-> FALSE,
               attempts |-> 0, cached |-> cached ]]

(* Mutant: the claim does not ask for status queued. *)
ClaimWithoutStatus(d) ==
  docs' = [docs EXCEPT ![d].status = "processing", ![d].attempts = @ + 1]

(* find_one_and_update on {_id, status: queued}: the test and the update are one step. *)
ClaimForProcessing(d) ==
  /\ Status(d) = "queued"
  /\ docs' = [docs EXCEPT ![d].status = "processing", ![d].attempts = @ + 1]

ClaimMatchesNothing(d) ==
  /\ Status(d) # "queued"
  /\ UNCHANGED docs

MarkCompleted(d, summary, cached) ==
  docs' = [docs EXCEPT ![d].status = "completed", ![d].summary = summary,
                       ![d].error = FALSE, ![d].cached = cached]

(* Mutant: the reason is not stored. *)
MarkFailedSilently(d) == docs' = [docs EXCEPT ![d].status = "failed"]

MarkFailed(d) ==
  docs' = [docs EXCEPT ![d].status = "failed", ![d].error = TRUE]

Requeue(d) == docs' = [docs EXCEPT ![d].status = "queued"]
=============================================================================
