---------------------------- MODULE PipelineSteps ----------------------------
(***************************************************************************)
(* For each piece of state that the accounting of the service rests on,    *)
(* everything that can change it: the status of a document, the place of   *)
(* its request, the slots, a worker's place, the lists and the locks.      *)
(* The invariants of the modules that follow need these lemmas, and not    *)
(* the actions.                                                            *)
(***************************************************************************)
EXTENDS PipelineOwnership

(* Why a worker changed the status of d and, unless Mongo fails, where it goes on. *)
WorkerStatusStep(d, w) ==
  \/ /\ at[w] = "claim" /\ job[w] = d
     /\ Status(d) = "queued" /\ docs'[d].status = "processing"
     /\ "mongo" \notin Faults => at'[w] = "process" /\ job'[w] = d
  \/ /\ at[w] = "process" /\ job[w] = d
     /\ Status(d) = "processing"
     /\ \/ /\ docs'[d].status = "completed"
           /\ "mongo" \notin Faults => at'[w] = "release" /\ job'[w] = d
        \/ /\ docs'[d].status = "queued"
           /\ "mongo" \notin Faults => \E t \in retries'[w] : t[1] = d
        \/ /\ docs'[d].status = "failed"
           /\ "mongo" \notin Faults => at'[w] = "fail_release" /\ job'[w] = d
  \/ /\ at[w] = "resolve" /\ d \in Range(popped[w])
     /\ Status(d) = "queued" /\ docs'[d].status = "completed"
     /\ "mongo" \notin Faults => at'[w] = "release_waiter" /\ waiter'[w] = d

(* Why the status of d changed at all. *)
StatusStep(d) ==
  \/ docs'[d].status = docs[d].status
  \/ /\ request[d] = "insert_cached"
     /\ Status(d) = "absent" /\ docs'[d].status = "completed"
  \/ /\ request[d] = "insert"
     /\ Status(d) = "absent" /\ docs'[d].status = "queued"
     /\ "mongo" \notin Faults => request'[d] = "elect"
  \/ /\ request[d] = "complete"
     /\ Status(d) = "queued" /\ docs'[d].status = "completed"
     /\ "mongo" \notin Faults => request'[d] = "release"
  \/ \E w \in Workers : WorkerStatusStep(d, w)
-----------------------------------------------------------------------------
(* The effects of the repository's updates on the statuses. *)

LEMMA StatusEffects ==
  ASSUME TypeOK, NEW d \in Docs, NEW m, NEW c, NEW s
  PROVE  /\ Insert(d, s, m, c) =>
              docs'[d].status = s /\ \A e \in Docs \ {d} : docs'[e] = docs[e]
         /\ MarkCompleted(d, m, c) =>
              docs'[d].status = "completed" /\ \A e \in Docs \ {d} : docs'[e] = docs[e]
         /\ MarkFailed(d) =>
              docs'[d].status = "failed" /\ \A e \in Docs \ {d} : docs'[e] = docs[e]
         /\ Requeue(d) =>
              docs'[d].status = "queued" /\ \A e \in Docs \ {d} : docs'[e] = docs[e]
         /\ ClaimForProcessing(d) =>
              docs'[d].status = "processing" /\ \A e \in Docs \ {d} : docs'[e] = docs[e]
<1>1. docs \in [Docs -> DocumentInDB]
  BY DEF TypeOK
<1>2. Insert(d, s, m, c) =>
        docs'[d].status = s /\ \A e \in Docs \ {d} : docs'[e] = docs[e]
  BY <1>1 DEF Insert
<1>3. MarkCompleted(d, m, c) =>
        docs'[d].status = "completed" /\ \A e \in Docs \ {d} : docs'[e] = docs[e]
  BY <1>1, CompletedEffect
<1>4. MarkFailed(d) =>
        docs'[d].status = "failed" /\ \A e \in Docs \ {d} : docs'[e] = docs[e]
  BY <1>1 DEF MarkFailed, DocumentInDB
<1>5. Requeue(d) =>
        docs'[d].status = "queued" /\ \A e \in Docs \ {d} : docs'[e] = docs[e]
  BY <1>1 DEF Requeue, DocumentInDB
<1>6. ClaimForProcessing(d) =>
        docs'[d].status = "processing" /\ \A e \in Docs \ {d} : docs'[e] = docs[e]
  BY <1>1 DEF ClaimForProcessing, DocumentInDB
<1> QED BY <1>2, <1>3, <1>4, <1>5, <1>6

LEMMA RequestStatus ==
  ASSUME TypeOK, Ownership, NEW e \in Docs, Request(e), NEW d \in Docs
  PROVE  StatusStep(d)
<1>a. /\ request[e] \in Unstored => Status(e) = "absent"
      /\ request[e] \in Stored => Status(e) = "queued"
  BY DEF Ownership, RequestOwnership, NoDocument, Status
<1>b. request \in [Docs -> {"new"} \cup InProgress \cup Ended]
  BY DEF TypeOK
<1>1. CASE InsertCached(e)
  <2>1. Status(e) = "absent" /\ request[e] = "insert_cached"
    BY <1>a, <1>1 DEF InsertCached, Unstored
  <2>2. Insert(e, "completed", found[e], TRUE) \/ UNCHANGED docs
    BY <1>1 DEF InsertCached, Store, MongoRaises
  <2>3. Insert(e, "completed", found[e], TRUE) =>
          docs'[e].status = "completed" /\ \A f \in Docs \ {e} : docs'[f] = docs[f]
    BY StatusEffects
  <2> QED BY <2>1, <2>2, <2>3 DEF StatusStep
<1>2. CASE InsertQueued(e)
  <2>1. Status(e) = "absent" /\ request[e] = "insert"
    BY <1>a, <1>2 DEF InsertQueued, Unstored
  <2>2. \/ Insert(e, "queued", Null, FALSE) /\ ("mongo" \notin Faults => request'[e] = "elect")
        \/ UNCHANGED docs
    BY <1>2, <1>b DEF InsertQueued, Store, MongoRaises, GoTo
  <2>3. Insert(e, "queued", Null, FALSE) =>
          docs'[e].status = "queued" /\ \A f \in Docs \ {e} : docs'[f] = docs[f]
    BY StatusEffects
  <2> QED BY <2>1, <2>2, <2>3 DEF StatusStep
<1>3. CASE CompleteFromCache(e)
  <2>1. Status(e) = "queued" /\ request[e] = "complete"
    BY <1>a, <1>3 DEF CompleteFromCache, Stored
  <2>2. \/ /\ MarkCompleted(e, found[e], TRUE)
           /\ "mongo" \notin Faults => request'[e] = "release"
        \/ UNCHANGED docs
    BY <1>3, <1>b DEF CompleteFromCache, Store, MongoRaises, GoTo
  <2> QED BY <2>1, <2>2, StatusEffects DEF StatusStep
<1>4. CASE LookUpCache(e) \/ AcquireSlot(e) \/ ElectLeader(e) \/ RecheckCache(e)
  BY <1>4 DEF LookUpCache, AcquireSlot, ElectLeader, RecheckCache, StatusStep
<1>5. CASE ReleaseOwnSlot(e) \/ ReleaseOwnLock(e) \/ EnqueueJob(e) \/ JoinWaiters(e)
  BY <1>5 DEF ReleaseOwnSlot, ReleaseOwnLock, EnqueueJob, JoinWaiters, StatusStep
<1> QED BY <1>1, <1>2, <1>3, <1>4, <1>5 DEF Request, Submit

LEMMA MainLoopStatus ==
  ASSUME TypeOK, Ownership, NEW w \in Workers, MainLoop(w), NEW d \in Docs
  PROVE  StatusStep(d)
<1> DEFINE j == job[w]
<1>a. /\ at[w] \notin Loop => j \in Docs
      /\ at \in [Workers -> Places] /\ job \in [Workers -> Docs \cup {Null}]
      /\ waiter \in [Workers -> Docs \cup {Null}]
      /\ retries \in [Workers -> SUBSET (Docs \X Nat)]
  BY DEF TypeOK
<1>b. at[w] = "process" => Status(j) = "processing" /\ j \in Docs
  BY <1>a DEF Ownership, ExclusiveClaim, Loop
<1>1. CASE Claim(w)
  <2>1. j \in Docs /\ at[w] = "claim"
    BY <1>a, <1>1 DEF Claim, Loop
  <2>2. \/ /\ ClaimForProcessing(j)
           /\ "mongo" \notin Faults => at'[w] = "process" /\ job'[w] = j
        \/ UNCHANGED docs
    BY <1>1, <1>a DEF Claim, ClaimMatchesNothing, JobRaises, MongoRaises, Step
  <2>3. ClaimForProcessing(j) => Status(j) = "queued"
    BY DEF ClaimForProcessing
  <2> QED BY <2>1, <2>2, <2>3, StatusEffects DEF StatusStep, WorkerStatusStep
<1>2. CASE ProcessingSucceeds(w)
  <2>1. at[w] = "process"
    BY <1>2 DEF ProcessingSucceeds
  <2>2. \/ /\ MarkCompleted(j, ContentOf[j], FALSE)
           /\ "mongo" \notin Faults => at'[w] = "release" /\ job'[w] = j
        \/ UNCHANGED docs
    BY <1>2, <1>a DEF ProcessingSucceeds, JobRaises, MongoRaises, Step, localVars
  <2> QED BY <1>b, <2>1, <2>2, StatusEffects DEF StatusStep, WorkerStatusStep
<1>3. CASE ProcessingFails(w)
  <2>1. at[w] = "process"
    BY <1>3 DEF ProcessingFails
  <2>2. \/ /\ Requeue(j)
           /\ "mongo" \notin Faults => <<j, attempt[w]>> \in retries'[w]
        \/ UNCHANGED docs
    BY <1>3, <1>a DEF ProcessingFails, JobRaises, MongoRaises
  <2>3. <<j, attempt[w]>> \in retries'[w] => \E t \in retries'[w] : t[1] = j
    <3>1. <<j, attempt[w]>>[1] = j
      OBVIOUS
    <3> QED BY <3>1
  <2> QED BY <1>b, <2>1, <2>2, <2>3, StatusEffects DEF StatusStep, WorkerStatusStep
<1>4. CASE ProcessingFailsForGood(w)
  <2>1. at[w] = "process"
    BY <1>4 DEF ProcessingFailsForGood
  <2>2. \/ /\ MarkFailed(j)
           /\ "mongo" \notin Faults => at'[w] = "fail_release" /\ job'[w] = j
        \/ UNCHANGED docs
    BY <1>4, <1>a DEF ProcessingFailsForGood, JobRaises, MongoRaises, Step, localVars
  <2> QED BY <1>b, <2>1, <2>2, StatusEffects DEF StatusStep, WorkerStatusStep
<1>5. CASE ResolveWaiter(w)
  <2> DEFINE e == Head(popped[w])
  <2>1. popped[w] # <<>> /\ at[w] = "resolve" /\ popped[w] \in Seq(Docs)
    BY <1>5 DEF ResolveWaiter, TypeOK
  <2>2. \/ /\ MarkCompleted(e, ContentOf[j], TRUE)
           /\ "mongo" \notin Faults => at'[w] = "release_waiter" /\ waiter'[w] = e
        \/ UNCHANGED docs
    BY <1>5, <1>a DEF ResolveWaiter, JobRaises, MongoRaises, Step
  <2>3. e \in Docs /\ e \in Range(popped[w])
    BY <2>1, RangeHeadTail
  <2>4. Status(e) = "queued"
    BY <2>3 DEF Ownership, WorkerOwnership
  <2> QED BY <2>1, <2>2, <2>3, <2>4, StatusEffects DEF StatusStep, WorkerStatusStep
<1>6. CASE \/ Poll(w) \/ LeaveLoop(w) \/ CacheResult(w) \/ ReleaseWaiterSlot(w)
           \/ FinishSuccess(w) \/ UnlockAfterFailure(w) \/ PromoteWaiter(w) \/ FinishFailure(w)
  BY <1>6 DEF Poll, LeaveLoop, CacheResult, ReleaseWaiterSlot, FinishSuccess,
              UnlockAfterFailure, PromoteWaiter, FinishFailure, StatusStep
<1>7. CASE \/ ReleaseJobSlot(w, "release", "cache")
           \/ ReleaseJobSlot(w, "fail_release", "fail_unlock")
           \/ TakeWaiters(w, "pop", "resolve") \/ TakeWaiters(w, "fail_pop", "promote")
  BY <1>7 DEF ReleaseJobSlot, TakeWaiters, StatusStep
<1> QED BY <1>1, <1>2, <1>3, <1>4, <1>5, <1>6, <1>7 DEF MainLoop, Work

(* Nothing else touches the collection. *)
LEMMA OthersKeepDocs ==
  ASSUME [Next]_vars
  PROVE  \/ \E e \in Docs : Request(e)
         \/ \E w \in Workers : MainLoop(w)
         \/ UNCHANGED docs
<1>1. ASSUME NEW w \in Workers, Backoff(w) \/ Supervise(w) PROVE UNCHANGED docs
  BY <1>1 DEF Backoff, Supervise, RetryFires, Drained, SigTerm, WorkerCrash, PollRaises,
              Dies, Restart
<1>2. CASE \/ ApiCrash \/ Expire \/ UNCHANGED vars
           \/ \E d \in Docs : Redeliver(d)
  BY <1>2 DEF ApiCrash, Expire, Redeliver, vars, storeVars
<1> QED BY <1>1, <1>2 DEF Next

LEMMA StatusSteps ==
  ASSUME TypeOK, Ownership, [Next]_vars, NEW d \in Docs
  PROVE  StatusStep(d)
BY OthersKeepDocs, RequestStatus, MainLoopStatus DEF StatusStep
-----------------------------------------------------------------------------
(* Where request d goes, and what it leaves behind. *)
PlaceStep(d) ==
  \/ request'[d] = request[d]
  \/ request'[d] = "aborted" /\ "crash" \in Faults
  \/ request'[d] = "errored" /\ Faults \cap {"mongo", "redis"} # {}
  \/ request[d] = "new" /\ request'[d] \in {"insert_cached", "acquire"}
  \/ request[d] = "insert_cached" /\ request'[d] = "served" /\ docs'[d].status = "completed"
  \/ /\ request[d] = "acquire" /\ request'[d] = "insert"
     /\ "redis" \notin Faults => d \in slots'[UserOf[d]]
  \/ request[d] = "acquire" /\ request'[d] = "rejected" /\ slots' = slots
  \/ request[d] = "insert" /\ request'[d] = "elect"
  \/ request[d] = "elect" /\ request'[d] \in {"recheck", "register"}
  \/ request[d] = "recheck" /\ request'[d] \in {"complete", "enqueue"}
  \/ request[d] = "complete" /\ request'[d] = "release" /\ docs'[d].status = "completed"
  \/ /\ request[d] = "release" /\ request'[d] = "unlock"
     /\ "redis" \notin Faults => d \notin slots'[UserOf[d]]
  \/ /\ request[d] = "unlock" /\ request'[d] = "served"
     /\ "redis" \notin Faults => lock'[ContentOf[d]] = FALSE
  \/ request[d] = "enqueue" /\ request'[d] = "led" /\ d \in Range(queue')
  \/ /\ request[d] = "register" /\ request'[d] = "followed"
     /\ "redis" \notin Faults => d \in Range(waiters'[ContentOf[d]])

LEMMA RequestPlace ==
  ASSUME TypeOK, NEW e \in Docs, Request(e), NEW d \in Docs
  PROVE  PlaceStep(d) /\ (d # e => request'[d] = request[d])
<1>a. /\ request \in [Docs -> {"new"} \cup InProgress \cup Ended]
      /\ slots \in [Users -> SUBSET Docs] /\ lock \in [Contents -> BOOLEAN]
      /\ queue \in Seq(Docs) /\ waiters \in [Contents -> Seq(Docs)]
      /\ UserOf[e] \in Users /\ ContentOf[e] \in Contents
  BY EnvironmentAssumption DEF TypeOK
<1>b. ASSUME NEW p, request' = [request EXCEPT ![e] = p]
      PROVE  request'[e] = p /\ (d # e => request'[d] = request[d])
  BY <1>a, <1>b
<1>1. CASE LookUpCache(e)
  <2>1. /\ request[e] = "new"
        /\ \E p \in {"insert_cached", "acquire"} : request' = [request EXCEPT ![e] = p]
    BY <1>1 DEF LookUpCache, ReadCache, GoTo
  <2> QED BY <1>a, <2>1 DEF PlaceStep
<1>2. CASE InsertCached(e)
  <2>1. request[e] = "insert_cached"
    BY <1>2 DEF InsertCached
  <2>2. \/ /\ request' = [request EXCEPT ![e] = "served"]
           /\ Insert(e, "completed", found[e], TRUE)
        \/ request' = [request EXCEPT ![e] = "errored"] /\ "mongo" \in Faults
    BY <1>2 DEF InsertCached, Store, MongoRaises, GoTo
  <2>3. Insert(e, "completed", found[e], TRUE) => docs'[e].status = "completed"
    BY DEF Insert, TypeOK
  <2> QED BY <1>b, <2>1, <2>2, <2>3 DEF PlaceStep
<1>3. CASE AcquireSlot(e)
  <2>1. request[e] = "acquire"
    BY <1>3 DEF AcquireSlot
  <2>2. \/ /\ request' = [request EXCEPT ![e] = "insert"]
           /\ "redis" \notin Faults => e \in slots'[UserOf[e]]
        \/ request' = [request EXCEPT ![e] = "rejected"] /\ slots' = slots
    BY <1>3, <1>a DEF AcquireSlot, TryAcquire, Admit, Deny, FailOpen, RedisRaises, GoTo
  <2> QED BY <1>b, <2>1, <2>2 DEF PlaceStep
<1>4. CASE InsertQueued(e)
  <2>1. /\ request[e] = "insert"
        /\ \/ request' = [request EXCEPT ![e] = "elect"]
           \/ request' = [request EXCEPT ![e] = "errored"] /\ "mongo" \in Faults
    BY <1>4 DEF InsertQueued, Store, MongoRaises, GoTo
  <2> QED BY <1>b, <2>1 DEF PlaceStep
<1>5. CASE ElectLeader(e)
  <2>1. /\ request[e] = "elect"
        /\ \E p \in {"recheck", "register"} : request' = [request EXCEPT ![e] = p]
    BY <1>5 DEF ElectLeader, GoTo
  <2> QED BY <1>a, <2>1 DEF PlaceStep
<1>6. CASE RecheckCache(e)
  <2>1. /\ request[e] = "recheck"
        /\ \E p \in {"complete", "enqueue"} : request' = [request EXCEPT ![e] = p]
    BY <1>6 DEF RecheckCache, ReadCache, GoTo
  <2> QED BY <1>a, <2>1 DEF PlaceStep
<1>7. CASE CompleteFromCache(e)
  <2>1. request[e] = "complete"
    BY <1>7 DEF CompleteFromCache
  <2>2. \/ /\ request' = [request EXCEPT ![e] = "release"]
           /\ MarkCompleted(e, found[e], TRUE)
        \/ request' = [request EXCEPT ![e] = "errored"] /\ "mongo" \in Faults
    BY <1>7 DEF CompleteFromCache, Store, MongoRaises, GoTo
  <2>3. MarkCompleted(e, found[e], TRUE) => docs'[e].status = "completed"
    BY StatusEffects
  <2> QED BY <1>b, <2>1, <2>2, <2>3 DEF PlaceStep
<1>8. CASE ReleaseOwnSlot(e)
  <2>1. /\ request[e] = "release" /\ request' = [request EXCEPT ![e] = "unlock"]
        /\ "redis" \notin Faults => e \notin slots'[UserOf[e]]
    BY <1>8, <1>a DEF ReleaseOwnSlot, Release, RedisRaises, GoTo
  <2> QED BY <1>b, <2>1 DEF PlaceStep
<1>9. CASE ReleaseOwnLock(e)
  <2>1. /\ request[e] = "unlock" /\ request' = [request EXCEPT ![e] = "served"]
        /\ "redis" \notin Faults => lock'[ContentOf[e]] = FALSE
    BY <1>9, <1>a DEF ReleaseOwnLock, ReleaseProcessingLock, RedisRaises, GoTo
  <2> QED BY <1>b, <2>1 DEF PlaceStep
<1>10. CASE EnqueueJob(e)
  <2>1. request[e] = "enqueue"
    BY <1>10 DEF EnqueueJob
  <2>2. \/ request' = [request EXCEPT ![e] = "led"] /\ queue' = Append(queue, e)
        \/ request' = [request EXCEPT ![e] = "errored"] /\ "redis" \in Faults
    BY <1>10 DEF EnqueueJob, Enqueue, EnqueueRaises, RedisRaises, GoTo
  <2>3. queue' = Append(queue, e) => e \in Range(queue')
    BY <1>a, RangeAppend
  <2> QED BY <1>b, <2>1, <2>2, <2>3 DEF PlaceStep
<1>11. CASE JoinWaiters(e)
  <2>1. request[e] = "register" /\ request' = [request EXCEPT ![e] = "followed"]
    BY <1>11 DEF JoinWaiters, GoTo
  <2>2. "redis" \notin Faults => waiters'[ContentOf[e]] = Append(waiters[ContentOf[e]], e)
    BY <1>11, <1>a DEF JoinWaiters, RegisterWaiter, RedisRaises
  <2>3. "redis" \notin Faults => e \in Range(waiters'[ContentOf[e]])
    <3>1. waiters[ContentOf[e]] \in Seq(Docs)
      BY <1>a
    <3>2. e \in Range(Append(waiters[ContentOf[e]], e))
      BY <3>1, RangeAppend
    <3> QED BY <2>2, <3>2
  <2> QED BY <1>b, <2>1, <2>3 DEF PlaceStep
<1> QED BY <1>1, <1>2, <1>3, <1>4, <1>5, <1>6, <1>7, <1>8, <1>9, <1>10, <1>11
        DEF Request, Submit

LEMMA OthersKeepRequests ==
  ASSUME [Next]_vars
  PROVE  (\E e \in Docs : Request(e)) \/ ApiCrash \/ UNCHANGED requestVars
<1>1. CASE \E w \in Workers : MainLoop(w) \/ Backoff(w) \/ Supervise(w)
  BY <1>1 DEF MainLoop, Backoff, Supervise
<1>2. CASE Expire \/ (\E d \in Docs : Redeliver(d)) \/ UNCHANGED vars
  BY <1>2 DEF Expire, Redeliver, vars
<1> QED BY <1>1, <1>2 DEF Next

LEMMA PlaceSteps ==
  ASSUME TypeOK, [Next]_vars, NEW d \in Docs
  PROVE  PlaceStep(d)
<1>1. CASE ApiCrash
  BY <1>1 DEF ApiCrash, PlaceStep
<1>2. CASE UNCHANGED requestVars
  BY <1>2 DEF requestVars, PlaceStep
<1> QED BY <1>1, <1>2, OthersKeepRequests, RequestPlace
-----------------------------------------------------------------------------
(* Who takes a slot and who returns one. *)
SlotStep(u, d) ==
  /\ d \in slots'[u] /\ d \notin slots[u] =>
       u = UserOf[d] /\ request[d] = "acquire" /\ request'[d] = "insert"
  /\ d \in slots[u] /\ d \notin slots'[u] => "ttl" \in Faults \/ ReleasePending(d)

LEMMA ReleaseEffect ==
  ASSUME TypeOK, NEW e \in Docs, Release(UserOf[e], e), NEW u \in Users, NEW d \in Docs
  PROVE  /\ d \in slots'[u] => d \in slots[u]
         /\ d \in slots[u] /\ d \notin slots'[u] => d = e
<1>1. slots \in [Users -> SUBSET Docs] /\ UserOf[e] \in Users
  BY EnvironmentAssumption DEF TypeOK
<1>2. slots' = [slots EXCEPT ![UserOf[e]] = slots[UserOf[e]] \ {e}] \/ slots' = slots
  BY DEF Release
<1> QED BY <1>1, <1>2

LEMMA RequestSlots ==
  ASSUME TypeOK, NEW e \in Docs, Request(e), NEW u \in Users, NEW d \in Docs
  PROVE  SlotStep(u, d)
<1>1. CASE AcquireSlot(e)
  <2>1. /\ request[e] = "acquire" /\ request \in [Docs -> {"new"} \cup InProgress \cup Ended]
        /\ slots \in [Users -> SUBSET Docs] /\ UserOf[e] \in Users
    BY <1>1, EnvironmentAssumption DEF AcquireSlot, TypeOK
  <2>2. \/ /\ request' = [request EXCEPT ![e] = "insert"]
           /\ slots' = slots \/ slots' = [slots EXCEPT ![UserOf[e]] = @ \cup {e}]
        \/ slots' = slots
    BY <1>1 DEF AcquireSlot, TryAcquire, Admit, Deny, FailOpen, GoTo
  <2> QED BY <2>1, <2>2 DEF SlotStep
<1>2. CASE ReleaseOwnSlot(e)
  <2>1. Release(UserOf[e], e) /\ request[e] = "release"
    BY <1>2 DEF ReleaseOwnSlot
  <2> QED BY <2>1, ReleaseEffect DEF SlotStep, ReleasePending
<1>3. CASE LookUpCache(e) \/ ElectLeader(e) \/ RecheckCache(e) \/ InsertQueued(e)
  BY <1>3 DEF LookUpCache, ElectLeader, RecheckCache, InsertQueued, SlotStep
<1>4. CASE InsertCached(e) \/ CompleteFromCache(e)
  BY <1>4 DEF InsertCached, CompleteFromCache, SlotStep
<1>5. CASE ReleaseOwnLock(e) \/ EnqueueJob(e) \/ JoinWaiters(e)
  BY <1>5 DEF ReleaseOwnLock, EnqueueJob, JoinWaiters, SlotStep
<1> QED BY <1>1, <1>2, <1>3, <1>4, <1>5 DEF Request, Submit

LEMMA MainLoopSlots ==
  ASSUME TypeOK, NEW w \in Workers, MainLoop(w), NEW u \in Users, NEW d \in Docs
  PROVE  SlotStep(u, d)
<1>1. CASE ReleaseJobSlot(w, "release", "cache") \/ ReleaseJobSlot(w, "fail_release", "fail_unlock")
  <2>1. /\ Release(UserOf[job[w]], job[w]) /\ at[w] \in {"release", "fail_release"}
        /\ job[w] \in Docs
    BY <1>1 DEF ReleaseJobSlot, TypeOK, Loop
  <2> QED BY <2>1, ReleaseEffect DEF SlotStep, ReleasePending
<1>2. CASE ReleaseWaiterSlot(w)
  <2>1. /\ Release(UserOf[waiter[w]], waiter[w]) /\ at[w] = "release_waiter"
        /\ waiter[w] \in Docs
    BY <1>2 DEF ReleaseWaiterSlot, TypeOK
  <2> QED BY <2>1, ReleaseEffect DEF SlotStep, ReleasePending
<1>3. CASE \/ Poll(w) \/ LeaveLoop(w) \/ Claim(w) \/ ProcessingSucceeds(w)
           \/ ProcessingFails(w) \/ ProcessingFailsForGood(w)
  BY <1>3 DEF Poll, LeaveLoop, Claim, ProcessingSucceeds, ProcessingFails,
              ProcessingFailsForGood, SlotStep
<1>4. CASE \/ CacheResult(w) \/ ResolveWaiter(w) \/ FinishSuccess(w) \/ UnlockAfterFailure(w)
           \/ PromoteWaiter(w) \/ FinishFailure(w)
           \/ TakeWaiters(w, "pop", "resolve") \/ TakeWaiters(w, "fail_pop", "promote")
  BY <1>4 DEF CacheResult, ResolveWaiter, FinishSuccess, UnlockAfterFailure, PromoteWaiter,
              FinishFailure, TakeWaiters, SlotStep
<1> QED BY <1>1, <1>2, <1>3, <1>4 DEF MainLoop, Work

LEMMA SlotSteps ==
  ASSUME TypeOK, [Next]_vars, NEW u \in Users, NEW d \in Docs
  PROVE  SlotStep(u, d)
<1>1. ASSUME NEW w \in Workers, Backoff(w) \/ Supervise(w) PROVE UNCHANGED slots
  BY <1>1 DEF Backoff, Supervise, RetryFires, Drained, SigTerm, WorkerCrash, PollRaises,
              Dies, Restart
<1>2. CASE Expire
  <2>1. (\E v \in Users : ExpireSlots(v)) \/ UNCHANGED slots
    BY <1>2 DEF Expire
  <2>2. ASSUME NEW v \in Users, ExpireSlots(v) PROVE SlotStep(u, d)
    BY <2>2 DEF ExpireSlots, SlotStep, TypeOK
  <2> QED BY <2>1, <2>2 DEF SlotStep
<1>3. CASE ApiCrash \/ (\E e \in Docs : Redeliver(e)) \/ UNCHANGED vars
  BY <1>3 DEF ApiCrash, Redeliver, vars, storeVars, SlotStep
<1> QED BY <1>1, <1>2, <1>3, RequestSlots, MainLoopSlots DEF Next, SlotStep
-----------------------------------------------------------------------------
(* A worker stands before a release only after the outcome is in the collection. *)
ReleaseStep(w) ==
  /\ at'[w] = "release" =>
       \/ at[w] = "release" /\ job'[w] = job[w]
       \/ docs'[job'[w]].status = "completed"
  /\ at'[w] = "fail_release" =>
       \/ at[w] = "fail_release" /\ job'[w] = job[w]
       \/ docs'[job'[w]].status = "failed"
  /\ at'[w] = "release_waiter" =>
       \/ at[w] = "release_waiter" /\ waiter'[w] = waiter[w]
       \/ docs'[waiter'[w]].status = "completed"

LEMMA MainLoopReleases ==
  ASSUME TypeOK, NEW v \in Workers, MainLoop(v), NEW w \in Workers
  PROVE  ReleaseStep(w)
<1> DEFINE j == job[v]
           Idle == {"poll", "drain"}
<1>a. /\ at \in [Workers -> Places] /\ job \in [Workers -> Docs \cup {Null}]
      /\ waiter \in [Workers -> Docs \cup {Null}]
      /\ at[v] \notin Loop => j \in Docs
  BY DEF TypeOK
<1>b. ASSUME NEW p, p \notin {"release", "fail_release", "release_waiter"}, Step(v, p),
             \A x \in Workers \ {v} : job'[x] = job[x] /\ waiter'[x] = waiter[x]
      PROVE  ReleaseStep(w)
  BY <1>a, <1>b DEF Step, ReleaseStep
<1>c. ASSUME EndJob(v) PROVE ReleaseStep(w)
  <2>1. \E p \in Idle : Step(v, p)
    BY <1>c DEF EndJob
  <2>2. \A x \in Workers \ {v} : job'[x] = job[x] /\ waiter'[x] = waiter[x]
    BY <1>a, <1>c DEF EndJob, ForgetJob
  <2> QED BY <1>b, <2>1, <2>2
<1>1. CASE ProcessingSucceeds(v)
  <2>1. \/ MarkCompleted(j, ContentOf[j], FALSE) /\ Step(v, "release") /\ UNCHANGED localVars
        \/ EndJob(v)
    BY <1>1 DEF ProcessingSucceeds, JobRaises
  <2>2. j \in Docs
    BY <1>1, <1>a DEF ProcessingSucceeds, Loop
  <2>3. MarkCompleted(j, ContentOf[j], FALSE) => docs'[j].status = "completed"
    BY <2>2, StatusEffects
  <2> QED BY <1>a, <1>c, <2>1, <2>3 DEF Step, ReleaseStep, localVars
<1>2. CASE ProcessingFailsForGood(v)
  <2>1. \/ MarkFailed(j) /\ Step(v, "fail_release") /\ UNCHANGED localVars
        \/ EndJob(v)
    BY <1>2 DEF ProcessingFailsForGood, JobRaises
  <2>2. j \in Docs
    BY <1>2, <1>a DEF ProcessingFailsForGood, Loop
  <2>3. MarkFailed(j) => docs'[j].status = "failed"
    BY <2>2, StatusEffects
  <2> QED BY <1>a, <1>c, <2>1, <2>3 DEF Step, ReleaseStep, localVars
<1>3. CASE ResolveWaiter(v)
  <2> DEFINE e == Head(popped[v])
  <2>1. \/ /\ MarkCompleted(e, ContentOf[j], TRUE) /\ Step(v, "release_waiter")
           /\ waiter' = [waiter EXCEPT ![v] = e] /\ job' = job
        \/ EndJob(v)
    BY <1>3 DEF ResolveWaiter, JobRaises
  <2>2. popped[v] # <<>> /\ popped[v] \in Seq(Docs)
    BY <1>3 DEF ResolveWaiter, TypeOK
  <2>3. e \in Docs
    BY <2>2, RangeHeadTail
  <2>4. MarkCompleted(e, ContentOf[j], TRUE) => docs'[e].status = "completed"
    BY <2>3, StatusEffects
  <2> QED BY <1>a, <1>c, <2>1, <2>4 DEF Step, ReleaseStep
<1>4. CASE Claim(v)
  <2>1. (Step(v, "process") /\ UNCHANGED <<job, waiter>>) \/ EndJob(v)
    BY <1>4 DEF Claim, JobRaises
  <2> QED BY <1>b, <1>c, <2>1
<1>5. CASE ProcessingFails(v) \/ FinishSuccess(v) \/ FinishFailure(v)
  <2>1. EndJob(v)
    BY <1>5 DEF ProcessingFails, FinishSuccess, FinishFailure, JobRaises
  <2> QED BY <1>c, <2>1
<1>6. CASE PromoteWaiter(v)
  <2>1. UNCHANGED <<at, job, waiter>> \/ EndJob(v)
    BY <1>6 DEF PromoteWaiter
  <2> QED BY <1>c, <2>1 DEF ReleaseStep
<1>7. CASE Poll(v) \/ ReleaseWaiterSlot(v) \/ LeaveLoop(v) \/ CacheResult(v)
  <2>1. \E p \in {"claim", "resolve", "drain", "pop"} : Step(v, p)
    BY <1>7 DEF Poll, ReleaseWaiterSlot, LeaveLoop, CacheResult
  <2>2. \A x \in Workers \ {v} : job'[x] = job[x] /\ waiter'[x] = waiter[x]
    BY <1>7, <1>a DEF Poll, ReleaseWaiterSlot, LeaveLoop, CacheResult, localVars
  <2> QED BY <1>b, <2>1, <2>2
<1>8. CASE \/ ReleaseJobSlot(v, "release", "cache")
           \/ ReleaseJobSlot(v, "fail_release", "fail_unlock")
           \/ UnlockAfterFailure(v)
           \/ TakeWaiters(v, "pop", "resolve") \/ TakeWaiters(v, "fail_pop", "promote")
  <2>1. \E p \in {"cache", "fail_unlock", "fail_pop", "resolve", "promote"} : Step(v, p)
    BY <1>8 DEF ReleaseJobSlot, UnlockAfterFailure, TakeWaiters
  <2>2. UNCHANGED <<job, waiter>>
    BY <1>8 DEF ReleaseJobSlot, UnlockAfterFailure, TakeWaiters, localVars
  <2> QED BY <1>b, <2>1, <2>2
<1> QED BY <1>1, <1>2, <1>3, <1>4, <1>5, <1>6, <1>7, <1>8 DEF MainLoop, Work

LEMMA ReleaseSteps ==
  ASSUME TypeOK, [Next]_vars, NEW w \in Workers
  PROVE  ReleaseStep(w)
<1>a. /\ at \in [Workers -> Places] /\ job \in [Workers -> Docs \cup {Null}]
      /\ waiter \in [Workers -> Docs \cup {Null}]
  BY DEF TypeOK
<1>1. ASSUME NEW v \in Workers, Supervise(v) PROVE ReleaseStep(w)
  <2>1. \/ \E p \in {"poll", "stopped"} : Step(v, p)
        \/ at' = at
    BY <1>1 DEF Supervise, Drained, SigTerm, WorkerCrash, PollRaises, Dies, Restart
  <2>2. \A x \in Workers \ {v} : job'[x] = job[x] /\ waiter'[x] = waiter[x]
    BY <1>1, <1>a DEF Supervise, Drained, SigTerm, WorkerCrash, PollRaises, Dies, Restart,
                      ForgetJob, localVars
  <2>3. at' = at => UNCHANGED <<job, waiter>>
    BY <1>1, <1>a DEF Supervise, Drained, SigTerm, WorkerCrash, PollRaises, Dies, Restart,
                      Step, ForgetJob, localVars
  <2> QED BY <1>a, <2>1, <2>2, <2>3 DEF Step, ReleaseStep
<1>2. ASSUME NEW v \in Workers, Backoff(v) PROVE ReleaseStep(w)
  BY <1>2 DEF Backoff, RetryFires, localVars, ReleaseStep
<1>3. ASSUME NEW d \in Docs, Request(d) PROVE ReleaseStep(w)
  BY <1>3 DEF Request, workerVars, localVars, ReleaseStep
<1>4. CASE \/ ApiCrash /\ UNCHANGED workerVars
           \/ Expire \/ (\E d \in Docs : Redeliver(d)) \/ UNCHANGED vars
  BY <1>4 DEF Expire, Redeliver, vars, workerVars, localVars, ReleaseStep
<1> QED BY <1>1, <1>2, <1>3, <1>4, MainLoopReleases DEF Next
-----------------------------------------------------------------------------
(* The status of a document that has one, or whose request is past its insertion. *)
LEMMA StatusKept ==
  ASSUME TypeOK, Ownership, [Next]_vars, NEW d \in Docs
  PROVE  /\ Status(d) \in Terminal => docs'[d].status = Status(d)
         /\ Status(d) # "absent" => docs'[d].status # "absent"
         /\ Status(d) = "absent" /\ request[d] \notin {"insert", "insert_cached"} =>
              docs'[d].status = "absent"
         /\ docs'[d].status \in Active =>
              Status(d) \in Active \/ (Status(d) = "absent" /\ request[d] = "insert")
<1>1. StatusStep(d)
  BY StatusSteps
<1>2. ASSUME NEW w \in Workers, WorkerStatusStep(d, w)
      PROVE  Status(d) \in Active /\ docs'[d].status \in Active \cup Terminal
  BY <1>2 DEF WorkerStatusStep, Active, Terminal
<1>3. \/ docs'[d].status = Status(d)
      \/ Status(d) \in Active /\ docs'[d].status \in Active \cup Terminal
      \/ Status(d) = "absent" /\ request[d] = "insert_cached" /\ docs'[d].status = "completed"
      \/ Status(d) = "absent" /\ request[d] = "insert" /\ docs'[d].status = "queued"
  BY <1>1, <1>2 DEF StatusStep, Status, Active, Terminal
<1> QED BY <1>3 DEF Active, Terminal
-----------------------------------------------------------------------------
(* The rest is about a service whose Redis answers.  Where Mongo answers as well *)
(* and a process ends only as it was told to, no job is dropped on its way.      *)
NoOutage == Faults \cap {"redis", "mongo", "crash"} = {}

Idle == {"poll", "drain"}

(* w goes on with its job. *)
Keeps(w, here, next) ==
  at[w] = here /\ at'[w] = next /\ job'[w] = job[w]

(* Where w goes between two jobs, and with its job, and what it leaves behind. *)
LoopStep(w) ==
  \/ /\ at'[w] = at[w] /\ job'[w] = job[w] /\ waiter'[w] = waiter[w]
     /\ popped'[w] = popped[w]
  \/ at[w] = "poll" /\ at'[w] = "claim" /\ queue # <<>> /\ job'[w] = Head(queue)
  \/ at[w] = "poll" /\ at'[w] = "drain"
  \/ at[w] = "drain" /\ at'[w] = "stopped"
  \/ at[w] = "stopped" /\ at'[w] = "poll"
  \/ at[w] = "claim" /\ at'[w] \in Idle /\ Status(job[w]) # "queued"
  \/ /\ Keeps(w, "claim", "process")
     /\ Status(job[w]) = "queued" /\ docs'[job[w]].status = "processing"

SuccessStep(w) ==
  \/ Keeps(w, "process", "release") /\ docs'[job[w]].status = "completed"
  \/ Keeps(w, "release", "cache") /\ job[w] \notin slots'[UserOf[job[w]]]
  \/ Keeps(w, "cache", "pop")
  \/ Keeps(w, "pop", "resolve") /\ popped'[w] = waiters[ContentOf[job[w]]]
  \/ /\ Keeps(w, "resolve", "release_waiter")
     /\ popped[w] # <<>> /\ popped'[w] = Tail(popped[w]) /\ waiter'[w] = Head(popped[w])
     /\ docs'[Head(popped[w])].status = "completed"
  \/ /\ Keeps(w, "release_waiter", "resolve") /\ popped'[w] = popped[w]
     /\ waiter[w] \notin slots'[UserOf[waiter[w]]]
  \/ /\ at[w] = "resolve" /\ at'[w] \in Idle
     /\ popped[w] = <<>> /\ lock'[ContentOf[job[w]]] = FALSE

FailureStep(w) ==
  \/ at[w] = "process" /\ at'[w] \in Idle /\ docs'[job[w]].status = "queued"
  \/ Keeps(w, "process", "fail_release") /\ docs'[job[w]].status = "failed"
  \/ Keeps(w, "fail_release", "fail_unlock") /\ job[w] \notin slots'[UserOf[job[w]]]
  \/ Keeps(w, "fail_unlock", "fail_pop") /\ lock'[ContentOf[job[w]]] = FALSE
  \/ Keeps(w, "fail_pop", "promote") /\ popped'[w] = waiters[ContentOf[job[w]]]
  \/ /\ Keeps(w, "promote", "promote")
     /\ popped[w] # <<>> /\ popped'[w] = Tail(popped[w])
     /\ queue' = Append(queue, Head(popped[w]))
  \/ at[w] = "promote" /\ at'[w] \in Idle /\ popped[w] = <<>>

Advance(w) == LoopStep(w) \/ SuccessStep(w) \/ FailureStep(w)

(* An error of Mongo or a crash ends the job where it stands. *)
Drops(w) == Faults \cap {"mongo", "crash"} # {} /\ at'[w] \in Loop

LEMMA WorkerTypes ==
  ASSUME TypeOK
  PROVE  /\ at \in [Workers -> Places] /\ job \in [Workers -> Docs \cup {Null}]
         /\ waiter \in [Workers -> Docs \cup {Null}] /\ popped \in [Workers -> Seq(Docs)]
         /\ slots \in [Users -> SUBSET Docs] /\ lock \in [Contents -> BOOLEAN]
         /\ docs \in [Docs -> DocumentInDB]
         /\ \A w \in Workers : at[w] \notin Loop => job[w] \in Docs
         /\ \A w \in Workers : at[w] = "release_waiter" => waiter[w] \in Docs
         /\ \A d \in Docs : UserOf[d] \in Users /\ ContentOf[d] \in Contents
BY EnvironmentAssumption DEF TypeOK

LEMMA StepOfWorker ==
  ASSUME TypeOK, NEW w \in Workers, NEW p, Step(w, p)
  PROVE  at'[w] = p /\ \A v \in Workers \ {w} : at'[v] = at[v]
BY WorkerTypes DEF Step

LEMMA EndOfJob ==
  ASSUME TypeOK, NEW w \in Workers, EndJob(w)
  PROVE  at'[w] \in Idle
BY WorkerTypes DEF EndJob, Step, Idle

LEMMA ReleaseLeavesNoSlot ==
  ASSUME TypeOK, NEW d \in Docs, Release(UserOf[d], d), "redis" \notin Faults
  PROVE  d \notin slots'[UserOf[d]]
BY WorkerTypes DEF Release, RedisRaises

LEMMA UnlockLeavesNoLock ==
  ASSUME TypeOK, NEW d \in Docs, ReleaseProcessingLock(ContentOf[d]), "redis" \notin Faults
  PROVE  lock'[ContentOf[d]] = FALSE
BY WorkerTypes DEF ReleaseProcessingLock, RedisRaises

LEMMA OwnWorkSteps ==
  ASSUME TypeOK, "redis" \notin Faults, NEW w \in Workers, MainLoop(w)
  PROVE  Advance(w) \/ Drops(w)
<1> DEFINE j == job[w]
<1>a. /\ at[w] \notin Loop => j \in Docs
      /\ at[w] = "release_waiter" => waiter[w] \in Docs
  BY WorkerTypes
<1>b. "redis" \notin Faults
  OBVIOUS
<1>c. \A Op : JobRaises(w, Op) => Drops(w)
  BY EndOfJob DEF JobRaises, MongoRaises, Drops, Idle, Loop
<1>1. CASE Poll(w)
  <2>1. at[w] = "poll" /\ at'[w] = "claim"
    BY <1>1, StepOfWorker DEF Poll
  <2>2. queue # <<>> /\ job'[w] = Head(queue)
    BY <1>1, WorkerTypes DEF Poll, Dequeue
  <2> QED BY <2>1, <2>2 DEF Advance, LoopStep
<1>2. CASE LeaveLoop(w)
  <2>1. at[w] = "poll" /\ at'[w] = "drain"
    BY <1>2, StepOfWorker DEF LeaveLoop
  <2> QED BY <2>1 DEF Advance, LoopStep
<1>3. CASE Claim(w)
  <2>1. at[w] = "claim" /\ j \in Docs
    BY <1>3, <1>a DEF Claim, Loop
  <2>2. \/ ClaimForProcessing(j) /\ Step(w, "process") /\ job' = job
        \/ ClaimMatchesNothing(j) /\ EndJob(w)
        \/ JobRaises(w, ClaimForProcessing(j))
    BY <1>3 DEF Claim
  <2>3. CASE ClaimForProcessing(j) /\ Step(w, "process") /\ job' = job
    <3>1. Status(j) = "queued"
      BY <2>3 DEF ClaimForProcessing
    <3> QED BY <2>1, <2>3, <3>1, StepOfWorker, StatusEffects DEF Advance, LoopStep, Keeps
  <2>4. CASE ClaimMatchesNothing(j) /\ EndJob(w)
    BY <2>1, <2>4, EndOfJob DEF Advance, LoopStep, ClaimMatchesNothing
  <2> QED BY <1>c, <2>2, <2>3, <2>4
<1>4. CASE ProcessingSucceeds(w)
  <2>1. at[w] = "process" /\ j \in Docs
    BY <1>4, <1>a DEF ProcessingSucceeds, Loop
  <2>2. \/ MarkCompleted(j, ContentOf[j], FALSE) /\ Step(w, "release") /\ job' = job
        \/ JobRaises(w, MarkCompleted(j, ContentOf[j], FALSE))
    BY <1>4 DEF ProcessingSucceeds, localVars
  <2>3. MarkCompleted(j, ContentOf[j], FALSE) => docs'[j].status = "completed"
    BY <2>1, StatusEffects
  <2> QED BY <1>c, <2>1, <2>2, <2>3, StepOfWorker DEF Advance, SuccessStep, Keeps
<1>5. CASE ProcessingFails(w)
  <2>1. at[w] = "process" /\ j \in Docs
    BY <1>5, <1>a DEF ProcessingFails, Loop
  <2>2. (Requeue(j) /\ EndJob(w)) \/ JobRaises(w, Requeue(j))
    BY <1>5 DEF ProcessingFails
  <2> QED BY <1>c, <2>1, <2>2, EndOfJob, StatusEffects DEF Advance, FailureStep
<1>6. CASE ProcessingFailsForGood(w)
  <2>1. at[w] = "process" /\ j \in Docs
    BY <1>6, <1>a DEF ProcessingFailsForGood, Loop
  <2>2. \/ MarkFailed(j) /\ Step(w, "fail_release") /\ job' = job
        \/ JobRaises(w, MarkFailed(j))
    BY <1>6 DEF ProcessingFailsForGood, localVars
  <2> QED BY <1>c, <2>1, <2>2, StepOfWorker, StatusEffects DEF Advance, FailureStep, Keeps
<1>7. CASE ReleaseJobSlot(w, "release", "cache")
  <2>1. /\ at[w] = "release" /\ at'[w] = "cache" /\ job' = job /\ j \in Docs
        /\ Release(UserOf[j], j)
    BY <1>7, <1>a, StepOfWorker DEF ReleaseJobSlot, localVars, Loop
  <2> QED BY <1>b, <2>1, ReleaseLeavesNoSlot DEF Advance, SuccessStep, Keeps
<1>8. CASE ReleaseJobSlot(w, "fail_release", "fail_unlock")
  <2>1. /\ at[w] = "fail_release" /\ at'[w] = "fail_unlock" /\ job' = job /\ j \in Docs
        /\ Release(UserOf[j], j)
    BY <1>8, <1>a, StepOfWorker DEF ReleaseJobSlot, localVars, Loop
  <2> QED BY <1>b, <2>1, ReleaseLeavesNoSlot DEF Advance, FailureStep, Keeps
<1>9. CASE CacheResult(w)
  <2>1. at[w] = "cache" /\ at'[w] = "pop" /\ job' = job
    BY <1>9, StepOfWorker DEF CacheResult, localVars
  <2> QED BY <2>1 DEF Advance, SuccessStep, Keeps
<1>10. CASE TakeWaiters(w, "pop", "resolve")
  <2>1. /\ at[w] = "pop" /\ at'[w] = "resolve" /\ job' = job
        /\ popped'[w] = waiters[ContentOf[j]]
    BY <1>10, <1>b, WorkerTypes, StepOfWorker DEF TakeWaiters, PopWaiters, RedisRaises
  <2> QED BY <2>1 DEF Advance, SuccessStep, Keeps
<1>11. CASE TakeWaiters(w, "fail_pop", "promote")
  <2>1. /\ at[w] = "fail_pop" /\ at'[w] = "promote" /\ job' = job
        /\ popped'[w] = waiters[ContentOf[j]]
    BY <1>11, <1>b, WorkerTypes, StepOfWorker DEF TakeWaiters, PopWaiters, RedisRaises
  <2> QED BY <2>1 DEF Advance, FailureStep, Keeps
<1>12. CASE ResolveWaiter(w)
  <2> DEFINE e == Head(popped[w])
  <2>1. at[w] = "resolve" /\ popped[w] # <<>> /\ popped[w] \in Seq(Docs)
    BY <1>12, WorkerTypes DEF ResolveWaiter
  <2>2. \/ /\ MarkCompleted(e, ContentOf[j], TRUE) /\ Step(w, "release_waiter") /\ job' = job
           /\ popped' = [popped EXCEPT ![w] = Tail(@)] /\ waiter' = [waiter EXCEPT ![w] = e]
        \/ JobRaises(w, MarkCompleted(e, ContentOf[j], TRUE))
    BY <1>12 DEF ResolveWaiter
  <2>3. e \in Docs
    BY <2>1, RangeHeadTail
  <2>4. CASE JobRaises(w, MarkCompleted(e, ContentOf[j], TRUE))
    BY <1>c, <2>4
  <2>5. CASE ~JobRaises(w, MarkCompleted(e, ContentOf[j], TRUE))
    <3>1. popped'[w] = Tail(popped[w]) /\ waiter'[w] = e
      BY <2>2, <2>5, WorkerTypes
    <3>2. docs'[e].status = "completed"
      BY <2>2, <2>3, <2>5, StatusEffects
    <3> QED BY <2>1, <2>2, <2>5, <3>1, <3>2, StepOfWorker DEF Advance, SuccessStep, Keeps
  <2> QED BY <2>4, <2>5
<1>13. CASE ReleaseWaiterSlot(w)
  <2>1. /\ at[w] = "release_waiter" /\ at'[w] = "resolve" /\ job' = job /\ popped' = popped
        /\ waiter[w] \in Docs /\ Release(UserOf[waiter[w]], waiter[w])
    BY <1>13, <1>a, StepOfWorker DEF ReleaseWaiterSlot
  <2> QED BY <1>b, <2>1, ReleaseLeavesNoSlot DEF Advance, SuccessStep, Keeps
<1>14. CASE FinishSuccess(w)
  <2>1. /\ at[w] = "resolve" /\ popped[w] = <<>> /\ EndJob(w) /\ j \in Docs
        /\ ReleaseProcessingLock(ContentOf[j])
    BY <1>14, <1>a DEF FinishSuccess, Loop
  <2> QED BY <1>b, <2>1, EndOfJob, UnlockLeavesNoLock DEF Advance, SuccessStep
<1>15. CASE UnlockAfterFailure(w)
  <2>1. /\ at[w] = "fail_unlock" /\ at'[w] = "fail_pop" /\ job' = job /\ j \in Docs
        /\ ReleaseProcessingLock(ContentOf[j])
    BY <1>15, <1>a, StepOfWorker DEF UnlockAfterFailure, localVars, Loop
  <2> QED BY <1>b, <2>1, UnlockLeavesNoLock DEF Advance, FailureStep, Keeps
<1>16. CASE PromoteWaiter(w)
  <2>1. /\ at[w] = "promote" /\ popped[w] # <<>> /\ at' = at /\ job' = job
        /\ Enqueue(Head(popped[w])) /\ popped'[w] = Tail(popped[w])
    BY <1>16, <1>b, WorkerTypes DEF PromoteWaiter, EnqueueRaises, RedisRaises
  <2> QED BY <2>1 DEF Advance, FailureStep, Keeps, Enqueue
<1>17. CASE FinishFailure(w)
  <2>1. at[w] = "promote" /\ popped[w] = <<>> /\ EndJob(w)
    BY <1>17 DEF FinishFailure
  <2> QED BY <2>1, EndOfJob DEF Advance, FailureStep
<1> QED BY <1>1, <1>2, <1>3, <1>4, <1>5, <1>6, <1>7, <1>8, <1>9, <1>10, <1>11, <1>12,
           <1>13, <1>14, <1>15, <1>16, <1>17 DEF MainLoop, Work

(* Whatever one worker does, the others stand still. *)
Standing(w) ==
  /\ at'[w] = at[w] /\ job'[w] = job[w] /\ waiter'[w] = waiter[w]
  /\ popped'[w] = popped[w] /\ retries'[w] = retries[w]

LEMMA OthersStand ==
  ASSUME TypeOK, NEW v \in Workers, MainLoop(v) \/ Backoff(v) \/ Supervise(v),
         NEW w \in Workers \ {v}
  PROVE  Standing(w)
<1>a. /\ at \in [Workers -> Places] /\ job \in [Workers -> Docs \cup {Null}]
      /\ waiter \in [Workers -> Docs \cup {Null}] /\ popped \in [Workers -> Seq(Docs)]
      /\ retries \in [Workers -> SUBSET (Docs \X Nat)]
  BY DEF TypeOK
<1>b. ASSUME EndJob(v), retries'[w] = retries[w] PROVE Standing(w)
  BY <1>a, <1>b DEF EndJob, ForgetJob, Step, Standing
<1>1. CASE Poll(v) \/ LeaveLoop(v) \/ CacheResult(v) \/ ReleaseWaiterSlot(v)
  BY <1>a, <1>1 DEF Poll, LeaveLoop, CacheResult, ReleaseWaiterSlot, Step, localVars, Standing
<1>2. CASE \/ ReleaseJobSlot(v, "release", "cache")
           \/ ReleaseJobSlot(v, "fail_release", "fail_unlock")
           \/ UnlockAfterFailure(v)
           \/ TakeWaiters(v, "pop", "resolve") \/ TakeWaiters(v, "fail_pop", "promote")
  BY <1>a, <1>2 DEF ReleaseJobSlot, UnlockAfterFailure, TakeWaiters, Step, localVars, Standing
<1>3. CASE Claim(v)
  BY <1>a, <1>b, <1>3 DEF Claim, JobRaises, Step, Standing
<1>4. CASE ProcessingSucceeds(v) \/ ProcessingFailsForGood(v)
  BY <1>a, <1>b, <1>4
     DEF ProcessingSucceeds, ProcessingFailsForGood, JobRaises, Step, localVars, Standing
<1>5. CASE ProcessingFails(v) \/ FinishSuccess(v) \/ FinishFailure(v)
  BY <1>a, <1>b, <1>5 DEF ProcessingFails, FinishSuccess, FinishFailure, JobRaises
<1>6. CASE ResolveWaiter(v) \/ PromoteWaiter(v)
  BY <1>a, <1>b, <1>6 DEF ResolveWaiter, PromoteWaiter, JobRaises, Step, Standing
<1>7. CASE MainLoop(v)
  BY <1>1, <1>2, <1>3, <1>4, <1>5, <1>6, <1>7 DEF MainLoop, Work
<1>8. CASE Backoff(v)
  BY <1>a, <1>8 DEF Backoff, RetryFires, localVars, Standing
<1>9. CASE Supervise(v)
  BY <1>a, <1>9 DEF Supervise, Drained, SigTerm, WorkerCrash, PollRaises, Dies, Restart,
                    ForgetJob, Step, localVars, Standing
<1> QED BY <1>7, <1>8, <1>9

LEMMA AdvancesOrDrops ==
  ASSUME TypeOK, "redis" \notin Faults, [Next]_vars, NEW w \in Workers
  PROVE  Advance(w) \/ Drops(w)
<1>1. Standing(w) => Advance(w)
  BY DEF Standing, Advance, LoopStep
<1>2. CASE Supervise(w)
  <2>1. ~PollRaises(w)
    BY DEF PollRaises, DequeueRaises, RedisRaises
  <2>2. CASE Drained(w)
    BY <2>2, StepOfWorker DEF Drained, Advance, LoopStep
  <2>3. CASE Restart(w)
    BY <2>3, StepOfWorker DEF Restart, Advance, LoopStep
  <2>4. CASE SigTerm(w)
    BY <2>4 DEF SigTerm, localVars, Advance, LoopStep
  <2>5. CASE WorkerCrash(w)
    BY <2>5, StepOfWorker DEF WorkerCrash, Dies, Drops, Loop
  <2> QED BY <1>2, <2>1, <2>2, <2>3, <2>4, <2>5 DEF Supervise
<1>3. CASE Backoff(w)
  BY <1>3 DEF Backoff, RetryFires, localVars, Advance, LoopStep
<1>4. CASE UNCHANGED workerVars
  BY <1>1, <1>4 DEF workerVars, localVars, Standing
<1>5. CASE (\E d \in Docs : Request(d) \/ Redeliver(d)) \/ Expire \/ UNCHANGED vars
  BY <1>4, <1>5 DEF Request, Redeliver, Expire, vars
<1> QED BY <1>1, <1>2, <1>3, <1>4, <1>5, OthersStand, OwnWorkSteps DEF Next

LEMMA Advances ==
  ASSUME TypeOK, NoOutage, [Next]_vars, NEW w \in Workers
  PROVE  Advance(w)
BY AdvancesOrDrops DEF NoOutage, Drops
-----------------------------------------------------------------------------
(* The lists: an id leaves one only for another place. *)

LEMMA QueueKept ==
  ASSUME TypeOK, NoOutage, [Next]_vars, NEW d \in Range(queue)
  PROVE  \/ d \in Range(queue')
         \/ \E w \in Workers : at'[w] = "claim" /\ job'[w] = d
<1>a. queue \in Seq(Docs) /\ ~RedisRaises
  BY DEF TypeOK, NoOutage, RedisRaises
<1>b. ASSUME NEW e \in Docs, Enqueue(e) PROVE d \in Range(queue')
  BY <1>b, QueueSteps
<1>1. ASSUME NEW e \in Docs, Request(e) PROVE d \in Range(queue')
  <2>1. CASE EnqueueJob(e)
    BY <1>a, <1>b, <2>1 DEF EnqueueJob, EnqueueRaises
  <2>2. CASE ~EnqueueJob(e)
    BY <1>1, <2>2 DEF Request, Submit, LookUpCache, InsertCached, AcquireSlot, InsertQueued,
       ElectLeader, RecheckCache, CompleteFromCache, ReleaseOwnSlot, ReleaseOwnLock, JoinWaiters
  <2> QED BY <2>1, <2>2
<1>2. ASSUME NEW w \in Workers, MainLoop(w)
      PROVE  d \in Range(queue') \/ (at'[w] = "claim" /\ job'[w] = d)
  <2>1. CASE Poll(w)
    <3>1. PICK e \in Docs : Dequeue(e) /\ job' = [job EXCEPT ![w] = e]
      BY <2>1 DEF Poll
    <3>2. Range(queue) = {e} \cup Range(queue')
      BY <1>a, <3>1, RangeHeadTail DEF Dequeue
    <3>3. at'[w] = "claim" /\ job'[w] = e
      BY <2>1, <3>1, WorkerTypes, StepOfWorker DEF Poll
    <3> QED BY <3>2, <3>3
  <2>2. CASE PromoteWaiter(w)
    <3>1. popped[w] \in Seq(Docs) /\ popped[w] # <<>>
      BY <2>2, WorkerTypes DEF PromoteWaiter
    <3>2. Head(popped[w]) \in Docs
      BY <3>1, RangeHeadTail
    <3> QED BY <1>a, <1>b, <2>2, <3>2 DEF PromoteWaiter, EnqueueRaises
  <2>3. CASE \/ LeaveLoop(w) \/ Claim(w) \/ ProcessingSucceeds(w) \/ ProcessingFails(w)
             \/ ProcessingFailsForGood(w) \/ CacheResult(w) \/ ResolveWaiter(w)
    BY <2>3 DEF LeaveLoop, Claim, ProcessingSucceeds, ProcessingFails, ProcessingFailsForGood,
                CacheResult, ResolveWaiter
  <2>4. CASE \/ ReleaseJobSlot(w, "release", "cache")
             \/ ReleaseJobSlot(w, "fail_release", "fail_unlock")
             \/ TakeWaiters(w, "pop", "resolve") \/ TakeWaiters(w, "fail_pop", "promote")
             \/ ReleaseWaiterSlot(w) \/ FinishSuccess(w) \/ UnlockAfterFailure(w)
             \/ FinishFailure(w)
    BY <2>4 DEF ReleaseJobSlot, TakeWaiters, ReleaseWaiterSlot, FinishSuccess,
                UnlockAfterFailure, FinishFailure
  <2> QED BY <1>2, <2>1, <2>2, <2>3, <2>4 DEF MainLoop, Work
<1>3. ASSUME NEW w \in Workers, Backoff(w) PROVE d \in Range(queue')
  <2>1. PICK t \in retries[w] : Enqueue(t[1]) \/ EnqueueRaises(t[1])
    BY <1>3 DEF Backoff, RetryFires
  <2>2. t[1] \in Docs
    BY DEF TypeOK
  <2> QED BY <1>a, <1>b, <2>1, <2>2 DEF EnqueueRaises
<1>4. ASSUME NEW w \in Workers, Supervise(w) PROVE d \in Range(queue')
  BY <1>a, <1>4 DEF Supervise, Drained, SigTerm, WorkerCrash, PollRaises, DequeueRaises,
                    Dies, Restart
<1>5. ASSUME NEW e \in Docs, Redeliver(e) PROVE d \in Range(queue')
  BY <1>b, <1>5 DEF Redeliver
<1>6. CASE ApiCrash \/ Expire \/ UNCHANGED vars
  BY <1>6 DEF ApiCrash, Expire, vars, storeVars
<1> QED BY <1>1, <1>2, <1>3, <1>4, <1>5, <1>6 DEF Next

(* Shutdown waits for the scheduled retries, so even Drained drops none. *)
LEMMA RetriesKept ==
  ASSUME TypeOK, NoOutage, [Next]_vars, NEW w \in Workers, NEW t \in retries[w]
  PROVE  t \in retries'[w] \/ t[1] \in Range(queue')
<1>a. retries \in [Workers -> SUBSET (Docs \X Nat)] /\ t[1] \in Docs /\ ~RedisRaises
  BY DEF TypeOK, NoOutage, RedisRaises
<1>1. CASE MainLoop(w)
  <2>1. CASE ProcessingFails(w)
    BY <1>a, <2>1 DEF ProcessingFails, JobRaises
  <2>2. CASE \/ Poll(w) \/ LeaveLoop(w) \/ Claim(w) \/ ProcessingSucceeds(w)
             \/ ProcessingFailsForGood(w) \/ CacheResult(w) \/ ResolveWaiter(w)
    BY <2>2 DEF Poll, LeaveLoop, Claim, ProcessingSucceeds, ProcessingFailsForGood,
                CacheResult, ResolveWaiter, JobRaises
  <2>3. CASE \/ ReleaseJobSlot(w, "release", "cache")
             \/ ReleaseJobSlot(w, "fail_release", "fail_unlock")
             \/ TakeWaiters(w, "pop", "resolve") \/ TakeWaiters(w, "fail_pop", "promote")
             \/ ReleaseWaiterSlot(w) \/ FinishSuccess(w) \/ UnlockAfterFailure(w)
             \/ PromoteWaiter(w) \/ FinishFailure(w)
    BY <2>3 DEF ReleaseJobSlot, TakeWaiters, ReleaseWaiterSlot, FinishSuccess,
                UnlockAfterFailure, PromoteWaiter, FinishFailure
  <2> QED BY <1>1, <2>1, <2>2, <2>3 DEF MainLoop, Work
<1>2. CASE Backoff(w)
  <2>1. PICK s \in retries[w] : /\ Enqueue(s[1]) \/ EnqueueRaises(s[1])
                                /\ retries' = [retries EXCEPT ![w] = @ \ {s}]
    BY <1>2 DEF Backoff, RetryFires
  <2>2. s = t => t[1] \in Range(queue')
    BY <1>a, <2>1, QueueSteps DEF EnqueueRaises
  <2>3. s # t => t \in retries'[w]
    BY <1>a, <2>1
  <2> QED BY <2>2, <2>3
<1>3. CASE Supervise(w)
  BY <1>a, <1>3 DEF Supervise, Drained, SigTerm, WorkerCrash, PollRaises, DequeueRaises,
                    Dies, Restart, NoOutage
<1>4. CASE UNCHANGED workerVars
  BY <1>4 DEF workerVars
<1>5. CASE (\E d \in Docs : Request(d) \/ Redeliver(d)) \/ Expire \/ UNCHANGED vars
  BY <1>4, <1>5 DEF Request, Redeliver, Expire, vars
<1> QED BY <1>1, <1>2, <1>3, <1>4, <1>5, OthersStand DEF Next, Standing

(* Nobody touches the waiter lists but a follower that joins, a worker that pops *)
(* the whole list, and the TTL.                                                  *)
LEMMA WaitersKept ==
  ASSUME TypeOK, NoOutage, "ttl" \notin Faults, [Next]_vars,
         NEW c \in Contents, NEW d \in Range(waiters[c])
  PROVE  \/ d \in Range(waiters'[c])
         \/ \E w \in Workers : d \in Range(popped'[w])
<1>a. /\ waiters \in [Contents -> Seq(Docs)] /\ ~RedisRaises
      /\ popped \in [Workers -> Seq(Docs)]
  BY DEF TypeOK, NoOutage, RedisRaises
<1>1. ASSUME NEW e \in Docs, Request(e) PROVE d \in Range(waiters'[c])
  <2>1. CASE JoinWaiters(e)
    <3>1. waiters' = [waiters EXCEPT ![ContentOf[e]] = Append(@, e)]
      BY <1>a, <2>1 DEF JoinWaiters, RegisterWaiter
    <3>2. waiters'[c] = waiters[c] \/ waiters'[c] = Append(waiters[c], e)
      BY <1>a, <3>1
    <3>3. waiters[c] \in Seq(Docs)
      BY <1>a
    <3>4. d \in Range(Append(waiters[c], e))
      BY <3>3, RangeAppend
    <3> QED BY <3>2, <3>4
  <2>2. CASE ~JoinWaiters(e)
    BY <1>1, <2>2 DEF Request, Submit, LookUpCache, InsertCached, AcquireSlot, InsertQueued,
       ElectLeader, RecheckCache, CompleteFromCache, ReleaseOwnSlot, ReleaseOwnLock, EnqueueJob,
       ReadCache, CacheGet, TryAcquireProcessingLock, ReleaseProcessingLock, cacheVars
  <2> QED BY <2>1, <2>2
<1>2. ASSUME NEW w \in Workers, MainLoop(w)
      PROVE  d \in Range(waiters'[c]) \/ d \in Range(popped'[w])
  <2>1. CASE TakeWaiters(w, "pop", "resolve") \/ TakeWaiters(w, "fail_pop", "promote")
    <3>1. PICK ids : /\ PopWaiters(ContentOf[job[w]], ids)
                     /\ popped' = [popped EXCEPT ![w] = ids]
      BY <2>1 DEF TakeWaiters
    <3>2. /\ ids = waiters[ContentOf[job[w]]] /\ popped'[w] = ids
          /\ waiters' = [waiters EXCEPT ![ContentOf[job[w]]] = <<>>]
      BY <1>a, <3>1 DEF PopWaiters
    <3>3. CASE c = ContentOf[job[w]]
      BY <3>2, <3>3
    <3>4. CASE c # ContentOf[job[w]]
      BY <1>a, <3>2, <3>4
    <3> QED BY <3>3, <3>4
  <2>2. CASE \/ Poll(w) \/ LeaveLoop(w) \/ Claim(w) \/ ProcessingSucceeds(w) \/ ProcessingFails(w)
             \/ ProcessingFailsForGood(w) \/ CacheResult(w) \/ ResolveWaiter(w)
    BY <2>2 DEF Poll, LeaveLoop, Claim, ProcessingSucceeds, ProcessingFails,
                ProcessingFailsForGood, CacheResult, CacheSet, ResolveWaiter, cacheVars
  <2>3. CASE \/ ReleaseJobSlot(w, "release", "cache")
             \/ ReleaseJobSlot(w, "fail_release", "fail_unlock")
             \/ ReleaseWaiterSlot(w) \/ FinishSuccess(w) \/ UnlockAfterFailure(w)
             \/ PromoteWaiter(w) \/ FinishFailure(w)
    BY <2>3 DEF ReleaseJobSlot, ReleaseWaiterSlot, FinishSuccess, UnlockAfterFailure,
                ReleaseProcessingLock, PromoteWaiter, FinishFailure, cacheVars
  <2> QED BY <1>2, <2>1, <2>2, <2>3 DEF MainLoop, Work
<1>3. ASSUME NEW w \in Workers, Backoff(w) \/ Supervise(w) PROVE UNCHANGED waiters
  BY <1>3 DEF Backoff, Supervise, RetryFires, Drained, SigTerm, WorkerCrash, PollRaises,
              Dies, Restart, cacheVars
<1>4. CASE Expire
  BY <1>4 DEF Expire, ExpireCache, ExpireLock, ExpireWaiters, cacheVars
<1>5. CASE ApiCrash \/ (\E e \in Docs : Redeliver(e)) \/ UNCHANGED vars
  BY <1>5 DEF ApiCrash, Redeliver, vars, storeVars, cacheVars
<1> QED BY <1>1, <1>2, <1>3, <1>4, <1>5 DEF Next

(* A popped id is resolved or promoted. *)
LEMMA PoppedKept ==
  ASSUME TypeOK, Ownership, NoOutage, [Next]_vars, NEW w \in Workers, NEW d \in Range(popped[w])
  PROVE  \/ d \in Range(popped'[w])
         \/ docs'[d].status = "completed"
         \/ d \in Range(queue')
<1>1. popped[w] # <<>> /\ popped[w] \in Seq(Docs)
  BY WorkerTypes, RangeEmpty
<1>2. at[w] \in {"resolve", "release_waiter", "promote"}
  BY <1>1 DEF Ownership, WorkerOwnership
<1>3. Range(popped[w]) = {Head(popped[w])} \cup Range(Tail(popped[w]))
  BY <1>1, RangeHeadTail
<1>4. queue' = Append(queue, Head(popped[w])) => Head(popped[w]) \in Range(queue')
  <2>1. queue \in Seq(Docs) /\ Head(popped[w]) \in Docs
    BY <1>1, RangeHeadTail DEF TypeOK
  <2> QED BY <2>1, RangeAppend
<1>5. Advance(w)
  BY Advances
<1>6. LoopStep(w) => popped'[w] = popped[w]
  BY <1>2 DEF LoopStep, Keeps
<1>7. SuccessStep(w) => \/ popped'[w] = popped[w]
                        \/ /\ popped'[w] = Tail(popped[w])
                           /\ docs'[Head(popped[w])].status = "completed"
  BY <1>1, <1>2 DEF SuccessStep, Keeps
<1>8. FailureStep(w) => /\ popped'[w] = Tail(popped[w])
                        /\ queue' = Append(queue, Head(popped[w]))
  BY <1>1, <1>2 DEF FailureStep, Keeps
<1> QED BY <1>3, <1>4, <1>5, <1>6, <1>7, <1>8 DEF Advance
-----------------------------------------------------------------------------
(* A lock appears only in the hands of a request. *)
LEMMA LockTaken ==
  ASSUME TypeOK, NoOutage, [Next]_vars, NEW c \in Contents, lock'[c]
  PROVE  \/ lock[c]
         \/ \E d \in Docs : ContentOf[d] = c /\ request'[d] = "recheck"
<1>a. /\ lock \in [Contents -> BOOLEAN] /\ ~RedisRaises
      /\ request \in [Docs -> {"new"} \cup InProgress \cup Ended]
  BY DEF TypeOK, NoOutage, RedisRaises
<1>1. ASSUME NEW e \in Docs, Request(e)
      PROVE  lock[c] \/ (ContentOf[e] = c /\ request'[e] = "recheck")
  <2>1. CASE ElectLeader(e)
    BY <1>a, <2>1 DEF ElectLeader, TryAcquireProcessingLock, GoTo
  <2>2. CASE ReleaseOwnLock(e)
    BY <1>a, <2>2 DEF ReleaseOwnLock, ReleaseProcessingLock
  <2>3. CASE ~ElectLeader(e) /\ ~ReleaseOwnLock(e)
    BY <1>1, <2>3 DEF Request, Submit, LookUpCache, InsertCached, AcquireSlot, InsertQueued,
       RecheckCache, CompleteFromCache, ReleaseOwnSlot, EnqueueJob, JoinWaiters, ReadCache,
       CacheGet, RegisterWaiter, cacheVars
  <2> QED BY <2>1, <2>2, <2>3
<1>2. ASSUME NEW w \in Workers, MainLoop(w) PROVE lock[c]
  <2>1. CASE FinishSuccess(w) \/ UnlockAfterFailure(w)
    BY <1>a, <2>1 DEF FinishSuccess, UnlockAfterFailure, ReleaseProcessingLock
  <2>2. CASE \/ Poll(w) \/ LeaveLoop(w) \/ Claim(w) \/ ProcessingSucceeds(w) \/ ProcessingFails(w)
             \/ ProcessingFailsForGood(w) \/ CacheResult(w) \/ ResolveWaiter(w)
    BY <2>2 DEF Poll, LeaveLoop, Claim, ProcessingSucceeds, ProcessingFails,
                ProcessingFailsForGood, CacheResult, CacheSet, ResolveWaiter, cacheVars
  <2>3. CASE \/ ReleaseJobSlot(w, "release", "cache")
             \/ ReleaseJobSlot(w, "fail_release", "fail_unlock")
             \/ TakeWaiters(w, "pop", "resolve") \/ TakeWaiters(w, "fail_pop", "promote")
             \/ ReleaseWaiterSlot(w) \/ PromoteWaiter(w) \/ FinishFailure(w)
    BY <2>3 DEF ReleaseJobSlot, TakeWaiters, PopWaiters, ReleaseWaiterSlot, PromoteWaiter,
                FinishFailure, cacheVars
  <2> QED BY <1>2, <2>1, <2>2, <2>3 DEF MainLoop, Work
<1>3. ASSUME NEW w \in Workers, Backoff(w) \/ Supervise(w) PROVE UNCHANGED lock
  BY <1>3 DEF Backoff, Supervise, RetryFires, Drained, SigTerm, WorkerCrash, PollRaises,
              Dies, Restart, cacheVars
<1>4. CASE Expire
  <2>1. (\E k \in Contents : ExpireLock(k)) \/ UNCHANGED lock
    BY <1>4 DEF Expire, ExpireCache, ExpireWaiters, cacheVars
  <2> QED BY <1>a, <2>1 DEF ExpireLock
<1>5. CASE ApiCrash \/ (\E e \in Docs : Redeliver(e)) \/ UNCHANGED vars
  BY <1>5 DEF ApiCrash, Redeliver, vars, storeVars, cacheVars
<1> QED BY <1>1, <1>2, <1>3, <1>4, <1>5 DEF Next
=============================================================================
