------------------------------- MODULE Lookup -------------------------------
(***************************************************************************)
(* GET /documents/{id} while the pipeline works on the document.  A lookup *)
(* is one read; its answer is made of what it read without another await,  *)
(* so GetDocument is what a client would be told in the present state.     *)
(***************************************************************************)
EXTENDS Pipeline

(* DocumentResponse.from_db: attempts and the content stay inside. *)
FromDb(document) ==
  [ status |-> document.status, summary |-> document.summary,
    error |-> document.error, cached |-> document.cached ]

(* The 404. *)
NotFound == FromDb(NoDocument)

(* find_one: whether there is such a document; an id that was never stored, or is no *)
(* ObjectId at all, finds nothing.                                                    *)
FindById(d) == Status(d) # "absent"

GetDocument(d) == IF FindById(d) THEN FromDb(docs[d]) ELSE NotFound
-----------------------------------------------------------------------------
(* Under every fault, what a client is shown is of one piece: a summary, and that of *)
(* its own text, exactly with completed; an error exactly with failed; and two       *)
(* clients that submitted one text never get different summaries.                    *)
WholeAnswer(d, a) ==
  /\ a.summary = IF a.status = "completed" THEN ContentOf[d] ELSE Null
  /\ a.error <=> a.status = "failed"
  /\ a.cached => a.status = "completed"
AnswersAreWhole == \A d \in Docs : WholeAnswer(d, GetDocument(d))

(* Under every fault, no answer is taken back: after a 201, or once it was shown, a  *)
(* document is found; after a 201 that said completed it is completed; and an answer *)
(* with a terminal status is the last word, summary, error and cached included.      *)
NoAnswerTakenBack ==
  [][\A d \in Docs :
       /\ request[d] \in {"served"} \cup Accepted \/ GetDocument(d) # NotFound
            => GetDocument(d)' # NotFound
       /\ request[d] = "served" => GetDocument(d)'.status = "completed"
       /\ GetDocument(d).status \in Terminal => GetDocument(d)' = GetDocument(d)]_vars
=============================================================================
