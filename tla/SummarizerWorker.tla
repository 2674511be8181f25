-------------------------- MODULE SummarizerWorker --------------------------
(***************************************************************************)
(* The worker processes.  Each runs one job at a time in its main loop and *)
(* any number of scheduled retries as background tasks; both interleave    *)
(* with the other workers and with the API at every await.                 *)
(***************************************************************************)
EXTENDS DocumentRepository, RateLimiter, CacheService, QueueService

CONSTANTS Workers,
          MaxRetries   \* worker_max_retries
ASSUME WorkerAssumption == MaxRetries \in Nat

VARIABLES at,        \* where the main loop of w stands
          job,       \* the document it took from the queue
          attempt,   \* document.attempts as the claim returned it
          popped,    \* the waiter ids it has popped and not yet handled
          waiter,    \* the waiter it is resolving
          retries,   \* scheduled retries: <<document, failed attempt>>
          stop       \* the stop event is set

localVars == <<job, attempt, popped, waiter>>
workerVars == <<at, localVars, retries, stop>>

Loop == {"poll", "drain", "stopped"}
Success == {"release", "cache", "pop", "resolve", "release_waiter"}
Failure == {"fail_release", "fail_unlock", "fail_pop", "promote"}
Places == Loop \cup {"claim", "process"} \cup Success \cup Failure

WorkerInit ==
  /\ at = [w \in Workers |-> "poll"]
  /\ job = [w \in Workers |-> Null]
  /\ attempt = [w \in Workers |-> 0]
  /\ popped = [w \in Workers |-> <<>>]
  /\ waiter = [w \in Workers |-> Null]
  /\ retries = [w \in Workers |-> {}]
  /\ stop = [w \in Workers |-> FALSE]

Step(w, next) == at' = [at EXCEPT ![w] = next]

ForgetJob(w) ==
  /\ job' = [job EXCEPT ![w] = Null]
  /\ attempt' = [attempt EXCEPT ![w] = 0]
  /\ popped' = [popped EXCEPT ![w] = <<>>]
  /\ waiter' = [waiter EXCEPT ![w] = Null]

(* _process_job returned or raised: back to the loop test. *)
EndJob(w) ==
  /\ Step(w, IF stop[w] THEN "drain" ELSE "poll")
  /\ ForgetJob(w)

(* The loop swallows whatever the repository raises and forgets the job. *)
JobRaises(w, Op) ==
  /\ MongoRaises(Op, UNCHANGED docs)
  /\ EndJob(w)
  /\ UNCHANGED retries

(* Mutant: the loop does not keep the id it dequeued. *)
PollDroppingId(w) ==
  /\ at[w] = "poll"
  /\ \E d \in Docs : Dequeue(d)
  /\ Step(w, "claim")
  /\ UNCHANGED <<docs, slots, cacheVars, localVars, retries, stop>>

Poll(w) ==
  /\ at[w] = "poll"
  /\ \E d \in Docs : Dequeue(d) /\ job' = [job EXCEPT ![w] = d]
  /\ Step(w, "claim")
  /\ UNCHANGED <<docs, slots, cacheVars, attempt, popped, waiter, retries, stop>>

(* BLPOP came back empty-handed (a job may have arrived since) and the stop event is set. *)
LeaveLoop(w) ==
  /\ at[w] = "poll"
  /\ stop[w]
  /\ Step(w, "drain")
  /\ UNCHANGED <<docs, slots, cacheVars, queue, localVars, retries, stop>>

Claim(w) ==
  /\ at[w] = "claim"
  /\ \/ /\ ClaimForProcessing(job[w])
        /\ attempt' = [attempt EXCEPT ![w] = docs'[job[w]].attempts]
        /\ Step(w, "process")
        /\ UNCHANGED <<job, popped, waiter, retries>>
     \/ ClaimMatchesNothing(job[w]) /\ EndJob(w) /\ UNCHANGED retries
     \/ JobRaises(w, ClaimForProcessing(job[w]))
  /\ UNCHANGED <<slots, cacheVars, queue, stop>>

ProcessingSucceeds(w) ==
  /\ at[w] = "process"
  /\ LET completed == MarkCompleted(job[w], ContentOf[job[w]], FALSE)
     IN \/ completed /\ Step(w, "release") /\ UNCHANGED <<localVars, retries>>
        \/ JobRaises(w, completed)
  /\ UNCHANGED <<slots, cacheVars, queue, stop>>

(* Mutant: one retry too many. *)
RetryOnceMore(w) ==
  /\ "failure" \in Faults
  /\ at[w] = "process"
  /\ attempt[w] <= MaxRetries + 1
  /\ Requeue(job[w])
  /\ retries' = [retries EXCEPT ![w] = @ \cup {<<job[w], attempt[w]>>}]
  /\ EndJob(w)
  /\ UNCHANGED <<slots, cacheVars, queue, stop>>

(* Mutant: a retry gives the slot back while the document is still active. *)
RetryWithoutSlot(w) ==
  /\ "failure" \in Faults
  /\ at[w] = "process"
  /\ attempt[w] <= MaxRetries
  /\ Requeue(job[w])
  /\ retries' = [retries EXCEPT ![w] = @ \cup {<<job[w], attempt[w]>>}]
  /\ slots' = [slots EXCEPT ![UserOf[job[w]]] = @ \ {job[w]}]
  /\ EndJob(w)
  /\ UNCHANGED <<cacheVars, queue, stop>>

(* Back to queued in the collection; the job itself returns after the backoff. *)
ProcessingFails(w) ==
  /\ "failure" \in Faults
  /\ at[w] = "process"
  /\ attempt[w] <= MaxRetries
  /\ \/ /\ Requeue(job[w])
        /\ retries' = [retries EXCEPT ![w] = @ \cup {<<job[w], attempt[w]>>}]
        /\ EndJob(w)
     \/ JobRaises(w, Requeue(job[w]))
  /\ UNCHANGED <<slots, cacheVars, queue, stop>>

ProcessingFailsForGood(w) ==
  /\ "failure" \in Faults
  /\ at[w] = "process"
  /\ attempt[w] > MaxRetries
  /\ \/ MarkFailed(job[w]) /\ Step(w, "fail_release") /\ UNCHANGED <<localVars, retries>>
     \/ JobRaises(w, MarkFailed(job[w]))
  /\ UNCHANGED <<slots, cacheVars, queue, stop>>

ReleaseJobSlot(w, here, next) ==
  /\ at[w] = here
  /\ Release(UserOf[job[w]], job[w])
  /\ Step(w, next)
  /\ UNCHANGED <<docs, cacheVars, queue, localVars, retries, stop>>

CacheResult(w) ==
  /\ at[w] = "cache"
  /\ CacheSet(ContentOf[job[w]], ContentOf[job[w]])
  /\ Step(w, "pop")
  /\ UNCHANGED <<docs, slots, queue, localVars, retries, stop>>

(* Mutant: the list is cleared and the ids it held are dropped. *)
ClearWaiters(w, here, next) ==
  /\ at[w] = here
  /\ waiters' = [waiters EXCEPT ![ContentOf[job[w]]] = <<>>]
  /\ Step(w, next)
  /\ UNCHANGED <<docs, slots, cache, lock, queue, localVars, retries, stop>>

TakeWaiters(w, here, next) ==
  /\ at[w] = here
  /\ \E ids \in {waiters[ContentOf[job[w]]], <<>>} :
       /\ PopWaiters(ContentOf[job[w]], ids)
       /\ popped' = [popped EXCEPT ![w] = ids]
  /\ Step(w, next)
  /\ UNCHANGED <<docs, slots, queue, job, attempt, waiter, retries, stop>>

(* A popped id always names a stored document, so the branch for a vanished *)
(* one is left out; the lookup only fetches the waiter's user.              *)
ResolveWaiter(w) ==
  /\ at[w] = "resolve"
  /\ popped[w] # <<>>
  /\ LET completed == MarkCompleted(Head(popped[w]), ContentOf[job[w]], TRUE)
     IN \/ /\ completed
           /\ waiter' = [waiter EXCEPT ![w] = Head(popped[w])]
           /\ popped' = [popped EXCEPT ![w] = Tail(@)]
           /\ Step(w, "release_waiter")
           /\ UNCHANGED <<job, attempt, retries>>
        \/ JobRaises(w, completed)
  /\ UNCHANGED <<slots, cacheVars, queue, stop>>

(* Mutant: the leader's slot is released in place of the waiter's. *)
ReleaseLeaderSlot(w) ==
  /\ at[w] = "release_waiter"
  /\ Release(UserOf[job[w]], job[w])
  /\ waiter' = [waiter EXCEPT ![w] = Null]
  /\ Step(w, "resolve")
  /\ UNCHANGED <<docs, cacheVars, queue, job, attempt, popped, retries, stop>>

ReleaseWaiterSlot(w) ==
  /\ at[w] = "release_waiter"
  /\ Release(UserOf[waiter[w]], waiter[w])
  /\ waiter' = [waiter EXCEPT ![w] = Null]
  /\ Step(w, "resolve")
  /\ UNCHANGED <<docs, cacheVars, queue, job, attempt, popped, retries, stop>>

(* Mutant: the lock is left to its TTL. *)
FinishWithLock(w) ==
  /\ at[w] = "resolve"
  /\ popped[w] = <<>>
  /\ EndJob(w)
  /\ UNCHANGED <<docs, slots, cacheVars, queue, retries, stop>>

(* All waiters handled: delete the content's lock, whoever holds it by now. *)
FinishSuccess(w) ==
  /\ at[w] = "resolve"
  /\ popped[w] = <<>>
  /\ ReleaseProcessingLock(ContentOf[job[w]])
  /\ EndJob(w)
  /\ UNCHANGED <<docs, slots, queue, retries, stop>>

(* Mutant: a job that failed for good keeps the lock. *)
KeepLockAfterFailure(w) ==
  /\ at[w] = "fail_unlock"
  /\ Step(w, "fail_pop")
  /\ UNCHANGED <<docs, slots, cacheVars, queue, localVars, retries, stop>>

UnlockAfterFailure(w) ==
  /\ at[w] = "fail_unlock"
  /\ ReleaseProcessingLock(ContentOf[job[w]])
  /\ Step(w, "fail_pop")
  /\ UNCHANGED <<docs, slots, queue, localVars, retries, stop>>

(* Each waiter gets a job of its own; if RPUSH raises, the rest are dropped. *)
PromoteWaiter(w) ==
  /\ at[w] = "promote"
  /\ popped[w] # <<>>
  /\ \/ /\ Enqueue(Head(popped[w]))
        /\ popped' = [popped EXCEPT ![w] = Tail(@)]
        /\ UNCHANGED <<at, job, attempt, waiter>>
     \/ EnqueueRaises(Head(popped[w])) /\ EndJob(w)
  /\ UNCHANGED <<docs, slots, cacheVars, retries, stop>>

FinishFailure(w) ==
  /\ at[w] = "promote"
  /\ popped[w] = <<>>
  /\ EndJob(w)
  /\ UNCHANGED <<docs, slots, cacheVars, queue, retries, stop>>

(* The main loop of w: the step that follows the await it stands at. *)
Work(w) ==
  \/ Poll(w)                   \/ LeaveLoop(w)          \/ Claim(w)
  \/ ProcessingSucceeds(w)     \/ ProcessingFails(w)    \/ ProcessingFailsForGood(w)
  \/ ReleaseJobSlot(w, "release", "cache")              \/ CacheResult(w)
  \/ TakeWaiters(w, "pop", "resolve")                   \/ ResolveWaiter(w)
  \/ ReleaseWaiterSlot(w)      \/ FinishSuccess(w)
  \/ ReleaseJobSlot(w, "fail_release", "fail_unlock")   \/ UnlockAfterFailure(w)
  \/ TakeWaiters(w, "fail_pop", "promote")              \/ PromoteWaiter(w)
  \/ FinishFailure(w)

(* Mutant: the background task does not put the job back. *)
RetryForgotten(w) ==
  /\ \E t \in retries[w] : retries' = [retries EXCEPT ![w] = @ \ {t}]
  /\ UNCHANGED <<docs, slots, cacheVars, queue, at, localVars, stop>>

(* A backoff elapsed.  What RPUSH raises in a background task is lost with the task. *)
RetryFires(w) ==
  /\ \E t \in retries[w] :
       /\ Enqueue(t[1]) \/ EnqueueRaises(t[1])
       /\ retries' = [retries EXCEPT ![w] = @ \ {t}]
  /\ UNCHANGED <<docs, slots, cacheVars, at, localVars, stop>>

(* Mutant: shutdown does not wait for the scheduled retries. *)
DrainedAtOnce(w) ==
  /\ at[w] = "drain"
  /\ retries' = [retries EXCEPT ![w] = {}]
  /\ Step(w, "stopped")
  /\ UNCHANGED <<docs, slots, cacheVars, queue, localVars, stop>>

(* run() returns only after every scheduled retry is back in the queue. *)
Drained(w) ==
  /\ at[w] = "drain"
  /\ retries[w] = {}
  /\ Step(w, "stopped")
  /\ UNCHANGED <<docs, slots, cacheVars, queue, localVars, retries, stop>>

SigTerm(w) ==
  /\ "stop" \in Faults
  /\ at[w] # "stopped"
  /\ ~stop[w]
  /\ stop' = [stop EXCEPT ![w] = TRUE]
  /\ UNCHANGED <<docs, slots, cacheVars, queue, at, localVars, retries>>

(* The process is gone, with its job and its scheduled retries. *)
Dies(w) ==
  /\ Step(w, "stopped")
  /\ ForgetJob(w)
  /\ retries' = [retries EXCEPT ![w] = {}]
  /\ UNCHANGED <<docs, slots, cacheVars, stop>>

WorkerCrash(w) ==
  /\ "crash" \in Faults
  /\ at[w] # "stopped"
  /\ Dies(w)
  /\ UNCHANGED queue

(* BLPOP is outside the loop's try: RedisError leaves run() without the flush. *)
PollRaises(w) ==
  /\ at[w] = "poll"
  /\ DequeueRaises
  /\ Dies(w)

(* A new process takes the place of w. *)
Restart(w) ==
  /\ at[w] = "stopped"
  /\ Step(w, "poll")
  /\ stop' = [stop EXCEPT ![w] = FALSE]
  /\ UNCHANGED <<docs, slots, cacheVars, queue, localVars, retries>>
=============================================================================
