------------------------------ MODULE Listing ------------------------------
(***************************************************************************)
(* GET /users/{user_id}/documents: one client walks the pages of one user's *)
(* documents while they are inserted and updated.  An answer is made of two *)
(* queries that run concurrently, the page and the count.  A query sees the *)
(* collection at one moment; documents created at the same time come in any *)
(* order, which may differ from query to query.                             *)
(***************************************************************************)
EXTENDS DocumentRepository, SequencesExt

CONSTANTS PageSize,      \* page_size, the same on every page of a walk
          MaxAttempts    \* bound: a document is claimed at most so often
ASSUME ListingAssumption == PageSize \in Nat \ {0} /\ MaxAttempts \in Nat

VARIABLES created,   \* created_at, 0 before the insert has read the clock
          now,       \* the last time handed out
          wanted,    \* the status filter, or Null
          walk,      \* "before", "reading" or "after"
          page,      \* the page asked for
          items,     \* the page query's result, or Null
          total,     \* the count query's result, or Null
          rule,      \* when the client stops: see Answer
          shown,     \* everything the walk has shown, in order
          present,   \* what the filter matched when the walk began
          quiet      \* nothing has been written since then

clockVars == <<created, now>>
walkVars == <<wanted, walk, page, items, total, rule, shown, present>>
vars == <<docs, clockVars, walkVars, quiet>>

Init ==
  /\ RepositoryInit
  /\ created = [d \in Docs |-> 0]
  /\ now = 0
  /\ wanted = Null /\ walk = "before" /\ page = 1 /\ items = Null /\ total = Null
  /\ rule = "total_pages" /\ shown = <<>> /\ present = {} /\ quiet = FALSE

Matching(status) == {d \in Docs : Status(d) # "absent" /\ status \in {Null, Status(d)}}

(* What sort({created_at: -1}) may return. *)
NewestFirst ==
  {order \in SetToSeqs(Matching(wanted)) :
     \A i, j \in DOMAIN order : i < j => created[order[i]] >= created[order[j]]}

Skip(p) == (p - 1) * PageSize

(* Mutant: pages counted from 0. *)
PageFromZero(order, p) ==
  SubSeq(order, p * PageSize + 1,
         IF (p + 1) * PageSize < Len(order) THEN (p + 1) * PageSize ELSE Len(order))

(* skip and limit. *)
PageOf(order, p) ==
  SubSeq(order, Skip(p) + 1,
         IF Skip(p) + PageSize < Len(order) THEN Skip(p) + PageSize ELSE Len(order))

(* Mutant: the last, partial page is not counted. *)
FullPages(n) == n \div PageSize

(* math.ceil(total_items / page_size) *)
TotalPages(n) == (n + PageSize - 1) \div PageSize
-----------------------------------------------------------------------------
(* insert reads the clock before it writes, so documents need not appear in *)
(* the order of their times.  Two may read the same time.                   *)
ReadClock(d) ==
  /\ created[d] = 0
  /\ now' \in {now, now + 1} \ {0}
  /\ created' = [created EXCEPT ![d] = now']
  /\ UNCHANGED <<docs, walkVars, quiet>>

Write(d) ==
  /\ created[d] # 0
  /\ \/ Status(d) = "absent" /\ Insert(d, "queued", Null, FALSE)
     \/ Status(d) = "absent" /\ Insert(d, "completed", ContentOf[d], TRUE)
     \/ docs[d].attempts < MaxAttempts /\ ClaimForProcessing(d)
     \/ Status(d) = "processing" /\ MarkCompleted(d, ContentOf[d], FALSE)
     \/ Status(d) = "processing" /\ (MarkFailed(d) \/ Requeue(d))
     \/ Status(d) = "queued" /\ MarkCompleted(d, ContentOf[d], TRUE)
  /\ quiet' = FALSE
  /\ UNCHANGED <<clockVars, walkVars>>

StartWalk ==
  /\ walk = "before"
  /\ walk' = "reading"
  /\ wanted' \in Statuses \cup {Null}
  /\ rule' \in {"total_pages", "short_page"}
  /\ present' = Matching(wanted')
  /\ quiet' = TRUE
  /\ UNCHANGED <<docs, clockVars, page, items, total, shown>>

FetchPage ==
  /\ walk = "reading" /\ items = Null
  /\ \E order \in NewestFirst : items' = PageOf(order, page)
  /\ UNCHANGED <<docs, clockVars, wanted, walk, page, total, rule, shown, present, quiet>>

CountDocuments ==
  /\ walk = "reading" /\ total = Null
  /\ total' = Cardinality(Matching(wanted))
  /\ UNCHANGED <<docs, clockVars, wanted, walk, page, items, rule, shown, present, quiet>>

GoesOn ==
  \/ rule = "total_pages" /\ page < TotalPages(total)
  \/ rule = "short_page" /\ Len(items) = PageSize

(* Both queries are back.  The client goes on while the answer announces more *)
(* pages or, by the other rule, until a page is not full.                     *)
Answer ==
  /\ items # Null /\ total # Null
  /\ shown' = shown \o items
  /\ \/ GoesOn /\ page' = page + 1 /\ UNCHANGED walk
     \/ ~GoesOn /\ walk' = "after" /\ UNCHANGED page
  /\ items' = Null /\ total' = Null
  /\ UNCHANGED <<docs, clockVars, wanted, rule, present, quiet>>

Next ==
  \/ \E d \in Docs : ReadClock(d) \/ Write(d)
  \/ StartWalk \/ FetchPage \/ CountDocuments \/ Answer

Spec == Init /\ [][Next]_vars
-----------------------------------------------------------------------------
TimesOf(order) == [i \in DOMAIN order |-> created[order[i]]]

(* A walk during which nothing was written shows as many documents as the      *)
(* filter matches, newest first, of exactly their times: skip, limit and       *)
(* total_pages fit together, at the last page too.  The sort has no            *)
(* tie-breaker, so of documents created at the same time one may be shown       *)
(* twice in place of another, but never one of another time.                   *)
QuietWalkIsExact ==
  walk = "after" /\ quiet => \E order \in NewestFirst : TimesOf(shown) = TimesOf(order)

(* Whatever is inserted and updated during the walk: for every time, a client is *)
(* shown as many documents as were there when it began, without a filter or with *)
(* one on a terminal status, if it reads until a page is not full.  (No document *)
(* leaves such a list, so later ones can only push it to a later page.)  If it   *)
(* trusts total_pages, which may be older than the page it came with, what it    *)
(* missed stands behind the pages it read: a further page would have shown it.   *)
NothingSkipped ==
  walk = "after" /\ wanted \in {Null} \cup Terminal =>
    \A t \in 1..now :
      LET seen == Cardinality({i \in DOMAIN shown : created[shown[i]] = t})
          newer == Cardinality({d \in Matching(wanted) : created[d] > t})
      IN \/ seen >= Cardinality({d \in present : created[d] = t})
         \/ rule = "total_pages" /\ seen + newer >= page * PageSize
=============================================================================
