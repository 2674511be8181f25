------------------------------ MODULE Pipeline ------------------------------
(***************************************************************************)
(* The whole service: requests in the API process and the worker processes *)
(* share one Mongo collection and one Redis.                               *)
(***************************************************************************)
EXTENDS DocumentService, SummarizerWorker, Functions

CONSTANT MaxQueue   \* bound on redelivery only
ASSUME PipelineAssumption == MaxQueue \in Nat

vars == <<storeVars, requestVars, workerVars>>

Init ==
  /\ RepositoryInit /\ RateLimiterInit /\ CacheInit /\ QueueInit
  /\ ServiceInit /\ WorkerInit

Request(d) == Submit(d) /\ UNCHANGED workerVars
MainLoop(w) == Work(w) /\ UNCHANGED requestVars
Backoff(w) == RetryFires(w) /\ UNCHANGED requestVars

Supervise(w) ==
  /\ Drained(w) \/ SigTerm(w) \/ WorkerCrash(w) \/ PollRaises(w) \/ Restart(w)
  /\ UNCHANGED requestVars

(* A key reaches its TTL. *)
Expire ==
  /\ \/ /\ \E u \in Users : ExpireSlots(u)
        /\ UNCHANGED cacheVars
     \/ /\ \E c \in Contents : ExpireCache(c) \/ ExpireLock(c) \/ ExpireWaiters(c)
        /\ UNCHANGED slots
  /\ UNCHANGED <<docs, queue, requestVars, workerVars>>

(* A job that was handed to the queue comes back: a crashed worker's job put *)
(* back, a duplicate enqueue, an operator's requeue.                         *)
Redeliver(d) ==
  /\ "duplicate" \in Faults
  /\ Len(queue) < MaxQueue
  /\ d \in Range(queue) \/ docs[d].attempts > 0
  /\ Enqueue(d)
  /\ UNCHANGED <<docs, slots, cacheVars, requestVars, workerVars>>

Next ==
  \/ \E d \in Docs : Request(d)
  \/ \E w \in Workers : MainLoop(w) \/ Backoff(w) \/ Supervise(w)
  \/ ApiCrash /\ UNCHANGED workerVars
  \/ Expire
  \/ \E d \in Docs : Redeliver(d)

Spec == Init /\ [][Next]_vars

(* A request under way, a worker's main loop and a scheduled backoff go on:  *)
(* asyncio resumes every task whose await is answered.  Nobody has to send a *)
(* request, and nothing has to fail, expire or stop.                         *)
Fairness ==
  /\ \A d \in Docs : WF_vars(request[d] # "new" /\ Request(d))
  /\ \A w \in Workers : WF_vars(MainLoop(w)) /\ WF_vars(Backoff(w))

FairSpec == Spec /\ Fairness
-----------------------------------------------------------------------------
(* Who is responsible for a document. *)
Submitting(d) == request[d] \in Stored
Waiting(d) == d \in Range(waiters[ContentOf[d]])
Popped(d) == \E w \in Workers : d \in Range(popped[w])
Claimed(d) == \E w \in Workers : at[w] = "process" /\ job[w] = d
Taken(d) == \E w \in Workers : at[w] = "claim" /\ job[w] = d
Backing(d) == \E w \in Workers : \E t \in retries[w] : t[1] = d
Runnable(d) == d \in Range(queue) \/ Taken(d) \/ Backing(d)

(* Type invariant of the composed state. *)
TypeOK ==
  /\ docs \in [Docs -> DocumentInDB]
  /\ slots \in [Users -> SUBSET Docs]
  /\ cache \in [Contents -> Contents \cup {Null}]
  /\ lock \in [Contents -> BOOLEAN]
  /\ waiters \in [Contents -> Seq(Docs)]
  /\ queue \in Seq(Docs)
  /\ request \in [Docs -> {"new"} \cup InProgress \cup Ended]
  /\ found \in [Docs -> Contents \cup {Null}]
  /\ at \in [Workers -> Places]
  /\ job \in [Workers -> Docs \cup {Null}]
  /\ \A w \in Workers : at[w] \notin Loop => job[w] \in Docs
  /\ attempt \in [Workers -> Nat]
  /\ popped \in [Workers -> Seq(Docs)]
  /\ waiter \in [Workers -> Docs \cup {Null}]
  /\ \A w \in Workers : at[w] = "release_waiter" => waiter[w] \in Docs
  /\ retries \in [Workers -> SUBSET (Docs \X Nat)]
  /\ stop \in [Workers -> BOOLEAN]

(* Under every fault, redelivery included: two workers never process the same *)
(* document at a time, and the one that does finds it still in processing, at  *)
(* the attempt its claim returned (the claim in Mongo is the only guard).      *)
ExclusiveClaim ==
  \A w \in Workers : at[w] = "process" =>
    /\ Status(job[w]) = "processing"
    /\ docs[job[w]].attempts = attempt[w]
    /\ \A v \in Workers : (at[v] = "process" /\ job[v] = job[w]) => v = w

(* Why the claim suffices, although every other update is unconditional: whoever *)
(* updates a document without claiming it - its request, or the worker that      *)
(* popped it from a waiter list - is its only owner, and nobody can start it.    *)
Unstarted(d) ==
  /\ docs[d].attempts = 0
  /\ ~Runnable(d)

RequestOwnership ==
  \A d \in Docs :
    /\ request[d] \in Unstored => docs[d] = NoDocument
    /\ request[d] \in Stored => Status(d) = "queued"
    /\ request[d] \in Unstored \cup Stored => Unstarted(d) /\ ~Waiting(d) /\ ~Popped(d)

WaiterOwnership ==
  \A c \in Contents :
    /\ IsInjective(waiters[c])
    /\ \A d \in Range(waiters[c]) :
         ContentOf[d] = c /\ Status(d) = "queued" /\ Unstarted(d) /\ ~Popped(d)

WorkerOwnership ==
  \A w \in Workers :
    /\ IsInjective(popped[w])
    /\ at[w] \notin {"resolve", "release_waiter", "promote"} => popped[w] = <<>>
    /\ \A d \in Range(popped[w]) :
         /\ ContentOf[d] = ContentOf[job[w]] /\ Status(d) = "queued" /\ Unstarted(d)
         /\ \A v \in Workers : d \in Range(popped[v]) => v = w

(* No document is tried more than MaxRetries + 1 times, nor waits for a try beyond. *)
AttemptsBounded ==
  \A d \in Docs :
    /\ docs[d].attempts <= MaxRetries + 1
    /\ Status(d) = "queued" => docs[d].attempts <= MaxRetries

(* Every summary in the cache, and every one a request read, is the text's own. *)
SummariesMatch ==
  /\ \A c \in Contents : cache[c] \in {Null, c}
  /\ \A d \in Docs :
       /\ found[d] \in {Null, ContentOf[d]}
       /\ request[d] \in {"insert_cached", "complete"} => found[d] # Null

(* Under every fault: the inductive invariant behind ExclusiveClaim and the       *)
(* refinement.                                                                    *)
Ownership ==
  /\ RequestOwnership /\ WaiterOwnership /\ WorkerOwnership
  /\ ExclusiveClaim /\ AttemptsBounded /\ SummariesMatch

(* What the collection says of each document, as the lifecycle sees it. *)
Result(d) ==
  CASE docs[d].error -> "error"
    [] ~docs[d].error /\ docs[d].summary = Null -> "none"
    [] ~docs[d].error /\ docs[d].summary = ContentOf[d] ->
         IF docs[d].cached THEN "shared" ELSE "fresh"
    [] OTHER -> "foreign"

(* Under every fault the collection only ever makes the moves of              *)
(* DocumentLifecycle, although every update but the claim is unconditional:   *)
(* no late or duplicated writer reopens, fails or re-serves a finished        *)
(* document, and no summary of another text reaches it.                       *)
Lifecycle == INSTANCE DocumentLifecycle WITH
               phase <- [d \in Docs |-> docs[d].status],
               attempts <- [d \in Docs |-> docs[d].attempts],
               result <- [d \in Docs |-> Result(d)]
ImplementsLifecycle == Lifecycle!Spec

(* Under every fault: what the client was told is, from then on, what the      *)
(* collection holds.  201 completed means completed, 201 queued means stored,  *)
(* and a 429 left nothing behind.                                              *)
AnswersMatchStore ==
  \A d \in Docs :
    /\ request[d] = "served" => Status(d) = "completed"
    /\ request[d] \in Accepted => Status(d) # "absent"
    /\ request[d] = "rejected" =>
         Status(d) = "absent" /\ \A u \in Users : d \notin slots[u]

(* Unless Redis fails or a slot set expires: a user never has more than       *)
(* MaxActive documents queued or processing, whoever completes, fails,        *)
(* retries or resolves them, because no slot is returned before its document  *)
(* is terminal.                                                               *)
ActiveJobs(u) == {d \in Docs : UserOf[d] = u /\ Status(d) \in Active}
ActiveJobsLimited == \A u \in Users : Cardinality(ActiveJobs(u)) <= MaxActive

(* Unless Redis, Mongo or a process fails: every slot is held for a document   *)
(* about to be stored, an active one, or one whose slot somebody is about to   *)
(* return.  None leaks.                                                        *)
ReleasePending(d) ==
  \/ request[d] = "release"
  \/ \E w \in Workers :
       \/ at[w] \in {"release", "fail_release"} /\ job[w] = d
       \/ at[w] = "release_waiter" /\ waiter[w] = d
SlotsAccountedFor ==
  \A u \in Users : \A d \in slots[u] :
    /\ UserOf[d] = u
    /\ request[d] = "insert" \/ Status(d) \in Active \/ ReleasePending(d)

(* Unless Redis, Mongo or a process fails or a waiter list expires: every      *)
(* queued document is with its request, waiting behind a leader, in a worker's *)
(* hands, in the queue or in a scheduled retry; every processing document is   *)
(* claimed by a worker.  A worker that stops gracefully drops nothing.         *)
NoDocumentLost ==
  \A d \in Docs :
    /\ Status(d) = "queued" => Submitting(d) \/ Waiting(d) \/ Popped(d) \/ Runnable(d)
    /\ Status(d) = "processing" => Claimed(d)

(* Unless Redis, Mongo or a process fails: while a lock is held, the request or  *)
(* the job that will delete it is still to come.  A lock nobody deletes would   *)
(* make every later submission of the text a follower of nobody.               *)
HoldsLock(d) ==
  \/ request[d] \in {"recheck", "complete", "release", "unlock", "enqueue"}
  \/ Status(d) \in Active /\ (Runnable(d) \/ Claimed(d))
  \/ \E w \in Workers :
       job[w] = d /\ at[w] \in Success \cup {"fail_release", "fail_unlock"}
LocksAccountedFor ==
  \A c \in Contents : lock[c] => \E d \in Docs : ContentOf[d] = c /\ HoldsLock(d)

(* Unless Redis fails or an entry expires: however many identical submissions    *)
(* race, stop and retry, and whatever a crash or an error of Mongo drops, a text *)
(* is processed for a second document only after the job of one failed for good, *)
(* because the leader re-reads the cache under the lock and the worker fills the *)
(* cache before it returns the lock.                                             *)
NoRedundantProcessing ==
  \A c \in Contents :
    \/ Cardinality({d \in Docs : ContentOf[d] = c /\ docs[d].attempts > 0}) <= 1
    \/ \E d \in Docs : ContentOf[d] = c /\ Status(d) = "failed"
-----------------------------------------------------------------------------
(* Liveness, of FairSpec, unless Redis, Mongo or a process fails or a worker   *)
(* stops.                                                                      *)

(* A document in the queue reaches a terminal status. *)
QueuedJobsFinish == \A d \in Docs : d \in Range(queue) ~> Status(d) \in Terminal

(* A waiter of a text whose job has not yet popped its waiters is finished. *)
LiveJob(c) ==
  \E d \in Docs :
    /\ ContentOf[d] = c
    /\ \/ Runnable(d) /\ Status(d) = "queued"
       \/ \E w \in Workers :
            job[w] = d /\ at[w] \in {"process", "release", "cache", "pop"}
                                    \cup {"fail_release", "fail_unlock", "fail_pop"}
WaitersOfLiveJobsFinish ==
  \A d \in Docs : (Waiting(d) /\ LiveJob(ContentOf[d])) ~> Status(d) \in Terminal

(* A finished document gives its slot back, and every lock is returned. *)
SlotsReturned ==
  \A d \in Docs : Status(d) \in Terminal ~> d \notin slots[UserOf[d]]
LocksReturned == \A c \in Contents : lock[c] ~> ~lock[c]
-----------------------------------------------------------------------------
(* What a comment or the README says and the code does not keep. *)

(* README: a follower "waits and gets the same result once the first one       *)
(* finishes", or is processed independently, "instead of waiting forever".     *)
FollowersFinish == \A d \in Docs : request[d] = "followed" ~> Status(d) \in Terminal

(* cache_service: the first request for a hash is the leader, concurrent ones  *)
(* register as waiters: two unfinished documents of one text never both came   *)
(* from winning the lock.                                                      *)
OneLeader ==
  \A d, e \in Docs :
    (/\ request[d] = "led" /\ request[e] = "led"
     /\ ContentOf[d] = ContentOf[e]
     /\ Status(d) \in Active /\ Status(e) \in Active) => d = e

(* cache_service: a document that could not be registered as a waiter "will    *)
(* fall back to independent processing".                                       *)
FollowersHaveAPlace ==
  \A d \in Docs :
    (request[d] = "followed" /\ Status(d) = "queued")
       => Waiting(d) \/ Popped(d) \/ Runnable(d)
=============================================================================
