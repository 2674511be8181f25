-------------------------- MODULE DocumentService --------------------------
(***************************************************************************)
(* submit_document, one request per document id.  Requests run as tasks of *)
(* one API process and interleave at every await, so each call of another  *)
(* service is a step of its own.                                           *)
(***************************************************************************)
EXTENDS DocumentRepository, RateLimiter, CacheService, QueueService

VARIABLES request,   \* where request d stands
          found      \* the summary it read from the cache (a local)

requestVars == <<request, found>>
storeVars == <<docs, slots, cacheVars, queue>>

(* Before the await of the same name.  From "elect" on the document is stored. *)
Unstored == {"new", "insert_cached", "acquire", "insert"}
Stored == {"elect", "recheck", "complete", "register", "enqueue"}
Settling == {"release", "unlock"}
InProgress == (Unstored \ {"new"}) \cup Stored \cup Settling

(* How a request ends: 201 completed, 201 queued (as the leader or as a     *)
(* follower), 429, 500, or no answer because the API process died.          *)
Answered == {"served", "led", "followed", "rejected", "errored"}
Ended == Answered \cup {"aborted"}
Accepted == {"led", "followed"}

ServiceInit ==
  /\ request = [d \in Docs |-> "new"]
  /\ found = [d \in Docs |-> Null]

GoTo(d, at) == request' = [request EXCEPT ![d] = at] /\ UNCHANGED found

(* A cache read that leads to hit when there is a summary and to miss otherwise. *)
ReadCache(d, hit, miss) ==
  \E summary \in Contents \cup {Null} :
    /\ CacheGet(ContentOf[d], summary)
    /\ IF summary = Null
       THEN GoTo(d, miss)
       ELSE /\ request' = [request EXCEPT ![d] = hit]
            /\ found' = [found EXCEPT ![d] = summary]

(* The request of d changes the collection with Op and goes on to next; the *)
(* handler of unexpected errors answers 500 when the repository raises.     *)
Store(d, Op, next) ==
  \/ Op /\ GoTo(d, next)
  \/ MongoRaises(Op, UNCHANGED docs) /\ GoTo(d, "errored")

LookUpCache(d) ==
  /\ request[d] = "new"
  /\ ReadCache(d, "insert_cached", "acquire")
  /\ UNCHANGED <<docs, slots, queue>>

InsertCached(d) ==
  /\ request[d] = "insert_cached"
  /\ Store(d, Insert(d, "completed", found[d], TRUE), "served")
  /\ UNCHANGED <<slots, cacheVars, queue>>

(* Mutant: the slot is added first and tested afterwards. *)
AddSlotThenTest(d) ==
  /\ request[d] = "acquire"
  /\ slots' = [slots EXCEPT ![UserOf[d]] = @ \cup {d}]
  /\ GoTo(d, IF Cardinality(slots[UserOf[d]]) < MaxActive THEN "insert" ELSE "rejected")
  /\ UNCHANGED <<docs, cacheVars, queue>>

AcquireSlot(d) ==
  /\ request[d] = "acquire"
  /\ \/ TryAcquire(UserOf[d], d, TRUE) /\ GoTo(d, "insert")
     \/ TryAcquire(UserOf[d], d, FALSE) /\ GoTo(d, "rejected")
  /\ UNCHANGED <<docs, cacheVars, queue>>

InsertQueued(d) ==
  /\ request[d] = "insert"
  /\ Store(d, Insert(d, "queued", Null, FALSE), "elect")
  /\ UNCHANGED <<slots, cacheVars, queue>>

ElectLeader(d) ==
  /\ request[d] = "elect"
  /\ \/ TryAcquireProcessingLock(ContentOf[d], TRUE) /\ GoTo(d, "recheck")
     \/ TryAcquireProcessingLock(ContentOf[d], FALSE) /\ GoTo(d, "register")
  /\ UNCHANGED <<docs, slots, queue>>

(* Mutant: no double check. *)
SkipRecheck(d) ==
  /\ request[d] = "recheck"
  /\ GoTo(d, "enqueue")
  /\ UNCHANGED storeVars

(* The double check: a result may have been cached between the miss and the lock. *)
RecheckCache(d) ==
  /\ request[d] = "recheck"
  /\ ReadCache(d, "complete", "enqueue")
  /\ UNCHANGED <<docs, slots, queue>>

(* Mutant: the double-check branch keeps the document's slot. *)
CompleteKeepingSlot(d) ==
  /\ request[d] = "complete"
  /\ Store(d, MarkCompleted(d, found[d], TRUE), "unlock")
  /\ UNCHANGED <<slots, cacheVars, queue>>

CompleteFromCache(d) ==
  /\ request[d] = "complete"
  /\ Store(d, MarkCompleted(d, found[d], TRUE), "release")
  /\ UNCHANGED <<slots, cacheVars, queue>>

ReleaseOwnSlot(d) ==
  /\ request[d] = "release"
  /\ Release(UserOf[d], d)
  /\ GoTo(d, "unlock")
  /\ UNCHANGED <<docs, cacheVars, queue>>

ReleaseOwnLock(d) ==
  /\ request[d] = "unlock"
  /\ ReleaseProcessingLock(ContentOf[d])
  /\ GoTo(d, "served")
  /\ UNCHANGED <<docs, slots, queue>>

EnqueueJob(d) ==
  /\ request[d] = "enqueue"
  /\ \/ Enqueue(d) /\ GoTo(d, "led")
     \/ EnqueueRaises(d) /\ GoTo(d, "errored")
  /\ UNCHANGED <<docs, slots, cacheVars>>

JoinWaiters(d) ==
  /\ request[d] = "register"
  /\ RegisterWaiter(ContentOf[d], d)
  /\ GoTo(d, "followed")
  /\ UNCHANGED <<docs, slots, queue>>

Submit(d) ==
  \/ LookUpCache(d)       \/ InsertCached(d)  \/ AcquireSlot(d)
  \/ InsertQueued(d)      \/ ElectLeader(d)   \/ RecheckCache(d)
  \/ CompleteFromCache(d) \/ ReleaseOwnSlot(d) \/ ReleaseOwnLock(d)
  \/ EnqueueJob(d)        \/ JoinWaiters(d)

(* The one API process dies: every request under way ends where it stands. *)
ApiCrash ==
  /\ "crash" \in Faults
  /\ \E d \in Docs : request[d] \in InProgress
  /\ request' = [d \in Docs |-> IF request[d] \in InProgress THEN "aborted" ELSE request[d]]
  /\ UNCHANGED <<found, storeVars>>
=============================================================================
