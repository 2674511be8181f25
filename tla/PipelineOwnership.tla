------------------------- MODULE PipelineOwnership -------------------------
(***************************************************************************)
(* The types of the composed service, and who may change a document.       *)
(*                                                                         *)
(* First, every step keeps the types.  Then, Ownership is inductive, hence *)
(* ExclusiveClaim: at any time at most one actor may change a document,    *)
(* although the claim is the only update that checks what it overwrites.   *)
(* Almost every step keeps the owner of every document or gives a document *)
(* up; the three that hand one on (InsertQueued, JoinWaiters, TakeWaiters) *)
(* are treated on their own.                                               *)
(***************************************************************************)
EXTENDS Pipeline, SequenceTheorems, TLAPS

(* The types of the stores, of the requests and of the workers. *)
StoresTyped ==
  /\ docs \in [Docs -> DocumentInDB]
  /\ slots \in [Users -> SUBSET Docs]
  /\ cache \in [Contents -> Contents \cup {Null}]
  /\ lock \in [Contents -> BOOLEAN]
  /\ waiters \in [Contents -> Seq(Docs)]
  /\ queue \in Seq(Docs)

RequestsTyped ==
  /\ request \in [Docs -> {"new"} \cup InProgress \cup Ended]
  /\ found \in [Docs -> Contents \cup {Null}]

WorkersTyped ==
  /\ at \in [Workers -> Places]
  /\ job \in [Workers -> Docs \cup {Null}]
  /\ \A w \in Workers : at[w] \notin Loop => job[w] \in Docs
  /\ attempt \in [Workers -> Nat]
  /\ popped \in [Workers -> Seq(Docs)]
  /\ waiter \in [Workers -> Docs \cup {Null}]
  /\ \A w \in Workers : at[w] = "release_waiter" => waiter[w] \in Docs
  /\ retries \in [Workers -> SUBSET (Docs \X Nat)]
  /\ stop \in [Workers -> BOOLEAN]

LEMMA TypeOKParts == TypeOK <=> StoresTyped /\ RequestsTyped /\ WorkersTyped
BY DEF TypeOK, StoresTyped, RequestsTyped, WorkersTyped
-----------------------------------------------------------------------------
(* The operators of the component modules keep their variable's type. *)

LEMMA DocumentFields ==
  ASSUME docs \in [Docs -> DocumentInDB], NEW d \in Docs
  PROVE  /\ docs[d].status \in Statuses \cup {"absent"}
         /\ docs[d].summary \in Contents \cup {Null}
         /\ docs[d].error \in BOOLEAN
         /\ docs[d].attempts \in Nat
         /\ docs[d].cached \in BOOLEAN
BY DEF DocumentInDB

LEMMA InsertTyped ==
  ASSUME docs \in [Docs -> DocumentInDB], NEW d \in Docs,
         NEW s \in Statuses, NEW m \in Contents \cup {Null}, NEW c \in BOOLEAN,
         Insert(d, s, m, c)
  PROVE  docs' \in [Docs -> DocumentInDB]
BY DEF Insert, DocumentInDB

LEMMA ClaimTyped ==
  ASSUME docs \in [Docs -> DocumentInDB], NEW d \in Docs, ClaimForProcessing(d)
  PROVE  docs' \in [Docs -> DocumentInDB] /\ docs'[d].attempts \in Nat
BY DEF ClaimForProcessing, DocumentInDB, Statuses

LEMMA MarkTyped ==
  ASSUME docs \in [Docs -> DocumentInDB], NEW d \in Docs,
         NEW m \in Contents \cup {Null}, NEW c \in BOOLEAN,
         MarkCompleted(d, m, c) \/ MarkFailed(d) \/ Requeue(d)
  PROVE  docs' \in [Docs -> DocumentInDB]
BY DEF MarkCompleted, MarkFailed, Requeue, DocumentInDB, Statuses

LEMMA SlotsTyped ==
  ASSUME slots \in [Users -> SUBSET Docs], NEW d \in Docs, NEW u \in Users,
         (\E g \in BOOLEAN : TryAcquire(u, d, g)) \/ Release(u, d) \/ ExpireSlots(u)
  PROVE  slots' \in [Users -> SUBSET Docs]
BY DEF TryAcquire, Admit, Deny, FailOpen, Release, ExpireSlots

CacheTyped ==
  /\ cache \in [Contents -> Contents \cup {Null}]
  /\ lock \in [Contents -> BOOLEAN]
  /\ waiters \in [Contents -> Seq(Docs)]

LEMMA CacheStepTyped ==
  ASSUME CacheTyped, NEW d \in Docs, NEW c \in Contents,
         \/ \E m \in Contents \cup {Null} : CacheGet(c, m) \/ CacheSet(c, m)
         \/ \E won \in BOOLEAN : TryAcquireProcessingLock(c, won)
         \/ ReleaseProcessingLock(c)
         \/ RegisterWaiter(c, d)
         \/ \E ids : PopWaiters(c, ids)
         \/ ExpireCache(c) \/ ExpireLock(c) \/ ExpireWaiters(c)
  PROVE  CacheTyped'
<1>1. CASE \E m \in Contents \cup {Null} : CacheGet(c, m) \/ CacheSet(c, m)
  BY <1>1 DEF CacheTyped, CacheGet, CacheSet, cacheVars
<1>2. CASE \E won \in BOOLEAN : TryAcquireProcessingLock(c, won)
  BY <1>2 DEF CacheTyped, TryAcquireProcessingLock
<1>3. CASE ReleaseProcessingLock(c)
  BY <1>3 DEF CacheTyped, ReleaseProcessingLock
<1>4. CASE RegisterWaiter(c, d)
  <2>1. Append(waiters[c], d) \in Seq(Docs)
    BY AppendProperties DEF CacheTyped
  <2> QED BY <1>4, <2>1 DEF CacheTyped, RegisterWaiter
<1>5. CASE \E ids : PopWaiters(c, ids)
  <2>1. <<>> \in Seq(Docs)
    OBVIOUS
  <2> QED BY <1>5, <2>1 DEF CacheTyped, PopWaiters
<1>6. CASE ExpireCache(c) \/ ExpireLock(c) \/ ExpireWaiters(c)
  <2>1. <<>> \in Seq(Docs)
    OBVIOUS
  <2> QED BY <1>6, <2>1 DEF CacheTyped, ExpireCache, ExpireLock, ExpireWaiters
<1> QED BY <1>1, <1>2, <1>3, <1>4, <1>5, <1>6

LEMMA QueueTyped ==
  ASSUME queue \in Seq(Docs), NEW d \in Docs,
         Enqueue(d) \/ EnqueueRaises(d) \/ Dequeue(d)
  PROVE  queue' \in Seq(Docs)
<1>1. Append(queue, d) \in Seq(Docs)
  BY AppendProperties
<1>2. queue # <<>> => Tail(queue) \in Seq(Docs)
  BY HeadTailProperties
<1> QED BY <1>1, <1>2 DEF Enqueue, EnqueueRaises, Dequeue
-----------------------------------------------------------------------------
(* The requests. *)

LEMMA GoToTyped ==
  ASSUME RequestsTyped, NEW d \in Docs,
         NEW p \in {"new"} \cup InProgress \cup Ended, GoTo(d, p)
  PROVE  RequestsTyped'
BY DEF RequestsTyped, GoTo

LEMMA ReadCacheTyped ==
  ASSUME RequestsTyped, CacheTyped, NEW d \in Docs,
         NEW hit \in {"new"} \cup InProgress \cup Ended,
         NEW miss \in {"new"} \cup InProgress \cup Ended,
         ContentOf[d] \in Contents, ReadCache(d, hit, miss)
  PROVE  RequestsTyped' /\ CacheTyped'
<1>1. PICK m \in Contents \cup {Null} :
        /\ CacheGet(ContentOf[d], m)
        /\ IF m = Null
           THEN GoTo(d, miss)
           ELSE /\ request' = [request EXCEPT ![d] = hit]
                /\ found' = [found EXCEPT ![d] = m]
  BY DEF ReadCache
<1>2. CacheTyped'
  BY <1>1, CacheStepTyped
<1>3. CASE m = Null
  BY <1>1, <1>2, <1>3, GoToTyped
<1>4. CASE m # Null
  BY <1>1, <1>2, <1>4 DEF RequestsTyped
<1> QED BY <1>3, <1>4

LEMMA RequestPlaces ==
  /\ Unstored \subseteq {"new"} \cup InProgress \cup Ended
  /\ Stored \subseteq InProgress
  /\ Settling \subseteq InProgress
  /\ {"served", "led", "followed", "rejected", "errored", "aborted"} = Ended
BY DEF Unstored, Stored, Settling, InProgress, Ended, Answered

LEMMA RequestTyped ==
  ASSUME StoresTyped, RequestsTyped, NEW d \in Docs, Submit(d)
  PROVE  StoresTyped' /\ RequestsTyped'
<1> USE EnvironmentAssumption, RequestPlaces
<1>0. /\ CacheTyped
      /\ ContentOf[d] \in Contents /\ UserOf[d] \in Users
      /\ found[d] \in Contents \cup {Null}
      /\ "queued" \in Statuses /\ "completed" \in Statuses
      /\ "new" \in Unstored /\ "insert_cached" \in Unstored /\ "acquire" \in Unstored
      /\ "insert" \in Unstored /\ "elect" \in Stored /\ "recheck" \in Stored
      /\ "complete" \in Stored /\ "register" \in Stored /\ "enqueue" \in Stored
      /\ "release" \in Settling /\ "unlock" \in Settling
  BY DEF StoresTyped, RequestsTyped, CacheTyped, Statuses, Unstored, Stored, Settling
<1>1. CASE LookUpCache(d)
  BY <1>0, <1>1, ReadCacheTyped DEF LookUpCache, StoresTyped, CacheTyped
<1>2. CASE InsertCached(d)
  <2>1. GoTo(d, "served") \/ GoTo(d, "errored")
    BY <1>2 DEF InsertCached, Store
  <2>2. Insert(d, "completed", found[d], TRUE) \/ UNCHANGED docs
    BY <1>2 DEF InsertCached, Store, MongoRaises
  <2> QED BY <1>0, <1>2, <2>1, <2>2, GoToTyped, InsertTyped
          DEF InsertCached, StoresTyped, cacheVars
<1>3. CASE AcquireSlot(d)
  <2>1. \E g \in BOOLEAN : TryAcquire(UserOf[d], d, g)
    BY <1>3 DEF AcquireSlot
  <2>2. GoTo(d, "insert") \/ GoTo(d, "rejected")
    BY <1>3 DEF AcquireSlot
  <2> QED BY <1>0, <1>3, <2>1, <2>2, GoToTyped, SlotsTyped
          DEF AcquireSlot, StoresTyped, cacheVars
<1>4. CASE InsertQueued(d)
  <2>1. GoTo(d, "elect") \/ GoTo(d, "errored")
    BY <1>4 DEF InsertQueued, Store
  <2>2. Insert(d, "queued", Null, FALSE) \/ UNCHANGED docs
    BY <1>4 DEF InsertQueued, Store, MongoRaises
  <2> QED BY <1>0, <1>4, <2>1, <2>2, GoToTyped, InsertTyped
          DEF InsertQueued, StoresTyped, cacheVars
<1>5. CASE ElectLeader(d)
  <2>1. \E won \in BOOLEAN : TryAcquireProcessingLock(ContentOf[d], won)
    BY <1>5 DEF ElectLeader
  <2>2. CacheTyped'
    BY <1>0, <2>1, CacheStepTyped
  <2>3. GoTo(d, "recheck") \/ GoTo(d, "register")
    BY <1>5 DEF ElectLeader
  <2> QED BY <1>0, <1>5, <2>2, <2>3, GoToTyped DEF ElectLeader, StoresTyped, CacheTyped
<1>6. CASE RecheckCache(d)
  BY <1>0, <1>6, ReadCacheTyped DEF RecheckCache, StoresTyped, CacheTyped
<1>7. CASE CompleteFromCache(d)
  <2>1. GoTo(d, "release") \/ GoTo(d, "errored")
    BY <1>7 DEF CompleteFromCache, Store
  <2>2. MarkCompleted(d, found[d], TRUE) \/ UNCHANGED docs
    BY <1>7 DEF CompleteFromCache, Store, MongoRaises
  <2> QED BY <1>0, <1>7, <2>1, <2>2, GoToTyped, MarkTyped
          DEF CompleteFromCache, StoresTyped, cacheVars
<1>8. CASE ReleaseOwnSlot(d)
  BY <1>0, <1>8, GoToTyped, SlotsTyped DEF ReleaseOwnSlot, StoresTyped, cacheVars
<1>9. CASE ReleaseOwnLock(d)
  <2>1. CacheTyped'
    BY <1>0, <1>9, CacheStepTyped DEF ReleaseOwnLock
  <2> QED BY <1>0, <1>9, <2>1, GoToTyped DEF ReleaseOwnLock, StoresTyped, CacheTyped
<1>10. CASE EnqueueJob(d)
  <2>1. GoTo(d, "led") \/ GoTo(d, "errored")
    BY <1>10 DEF EnqueueJob
  <2>2. queue' \in Seq(Docs)
    BY <1>10, QueueTyped DEF EnqueueJob, StoresTyped
  <2> QED BY <1>0, <1>10, <2>1, <2>2, GoToTyped DEF EnqueueJob, StoresTyped, cacheVars
<1>11. CASE JoinWaiters(d)
  <2>1. CacheTyped'
    BY <1>0, <1>11, CacheStepTyped DEF JoinWaiters
  <2> QED BY <1>0, <1>11, <2>1, GoToTyped DEF JoinWaiters, StoresTyped, CacheTyped
<1> QED
  BY <1>1, <1>2, <1>3, <1>4, <1>5, <1>6, <1>7, <1>8, <1>9, <1>10, <1>11 DEF Submit
-----------------------------------------------------------------------------
(* The workers. *)

LEMMA WorkerPlaces ==
  Places = {"poll", "drain", "stopped", "claim", "process", "release", "cache", "pop",
            "resolve", "release_waiter", "fail_release", "fail_unlock", "fail_pop",
            "promote"}
BY DEF Places, Loop, Success, Failure

(* A step to any place but release_waiter, keeping the job. *)
LEMMA StepTyped ==
  ASSUME WorkersTyped, NEW w \in Workers, NEW p \in Places \ {"release_waiter"},
         job[w] \in Docs \/ p \in Loop, Step(w, p), UNCHANGED <<localVars, retries, stop>>
  PROVE  WorkersTyped'
BY DEF WorkersTyped, Step, localVars

LEMMA EndJobTyped ==
  ASSUME WorkersTyped, NEW w \in Workers, EndJob(w),
         retries' \in [Workers -> SUBSET (Docs \X Nat)], UNCHANGED stop
  PROVE  WorkersTyped'
<1>1. <<>> \in Seq(Docs) /\ {"drain", "poll"} \subseteq Places \cap Loop
  BY DEF Places, Loop
<1> QED BY <1>1 DEF WorkersTyped, EndJob, ForgetJob, Step

LEMMA DiesTyped ==
  ASSUME WorkersTyped, NEW w \in Workers, Dies(w)
  PROVE  WorkersTyped'
<1>1. <<>> \in Seq(Docs) /\ "stopped" \in Places \cap Loop
  BY DEF Places, Loop
<1> QED BY <1>1 DEF WorkersTyped, Dies, ForgetJob, Step

LEMMA WorkTyped ==
  ASSUME StoresTyped, WorkersTyped, NEW w \in Workers, Work(w)
  PROVE  StoresTyped' /\ WorkersTyped'
<1> USE EnvironmentAssumption
<1>a. /\ Places = {"poll", "drain", "stopped", "claim", "process", "release", "cache", "pop",
            "resolve", "release_waiter", "fail_release", "fail_unlock", "fail_pop",
            "promote"}
      /\ Loop = {"poll", "drain", "stopped"}
      /\ at[w] \notin Loop =>
           job[w] \in Docs /\ ContentOf[job[w]] \in Contents /\ UserOf[job[w]] \in Users
      /\ CacheTyped
  BY WorkerPlaces DEF WorkersTyped, Loop, StoresTyped, CacheTyped
<1>1. CASE Poll(w)
  <2>1. PICK d \in Docs : Dequeue(d) /\ job' = [job EXCEPT ![w] = d]
    BY <1>1 DEF Poll
  <2>2. queue' \in Seq(Docs)
    BY <2>1, QueueTyped DEF StoresTyped
  <2> QED BY <1>a, <1>1, <2>1, <2>2 DEF Poll, StoresTyped, WorkersTyped, Step, cacheVars
<1>2. CASE LeaveLoop(w)
  BY <1>a, <1>2, StepTyped DEF LeaveLoop, StoresTyped, cacheVars
<1>3. CASE Claim(w)
  <2>0. job[w] \in Docs
    BY <1>a, <1>3 DEF Claim
  <2>1. CASE ClaimForProcessing(job[w]) /\ ~EndJob(w)
    <3>1. docs' \in [Docs -> DocumentInDB] /\ docs'[job[w]].attempts \in Nat
      BY <2>0, <2>1, ClaimTyped DEF StoresTyped
    <3> QED BY <1>a, <1>3, <2>0, <2>1, <3>1
            DEF Claim, JobRaises, StoresTyped, WorkersTyped, Step, cacheVars
  <2>2. CASE EndJob(w)
    <3>1. ClaimForProcessing(job[w]) \/ UNCHANGED docs
      BY <1>3 DEF Claim, ClaimMatchesNothing, JobRaises, MongoRaises
    <3>2. docs' \in [Docs -> DocumentInDB]
      BY <2>0, <3>1, ClaimTyped DEF StoresTyped
    <3>3. retries' \in [Workers -> SUBSET (Docs \X Nat)]
      BY <1>3 DEF Claim, JobRaises, WorkersTyped
    <3> QED BY <1>3, <2>2, <3>2, <3>3, EndJobTyped DEF Claim, StoresTyped, cacheVars
  <2> QED BY <1>3, <2>1, <2>2 DEF Claim, JobRaises
<1>4. CASE ProcessingSucceeds(w)
  <2>0. job[w] \in Docs /\ ContentOf[job[w]] \in Contents \cup {Null}
    BY <1>a, <1>4 DEF ProcessingSucceeds
  <2>1. MarkCompleted(job[w], ContentOf[job[w]], FALSE) \/ UNCHANGED docs
    BY <1>4 DEF ProcessingSucceeds, JobRaises, MongoRaises
  <2>2. docs' \in [Docs -> DocumentInDB]
    BY <2>0, <2>1, MarkTyped DEF StoresTyped
  <2>3. (Step(w, "release") /\ UNCHANGED localVars) \/ EndJob(w)
    BY <1>4 DEF ProcessingSucceeds, JobRaises
  <2>4. UNCHANGED <<retries, stop>>
    BY <1>4 DEF ProcessingSucceeds, JobRaises
  <2>5. WorkersTyped'
    <3>1. retries' \in [Workers -> SUBSET (Docs \X Nat)]
      BY <2>4 DEF WorkersTyped
    <3> QED BY <1>a, <2>0, <2>3, <2>4, <3>1, StepTyped, EndJobTyped
  <2> QED BY <1>4, <2>2, <2>5 DEF ProcessingSucceeds, StoresTyped, cacheVars
<1>5. CASE ProcessingFails(w)
  <2>0. job[w] \in Docs /\ attempt[w] \in Nat
    BY <1>a, <1>5 DEF ProcessingFails, WorkersTyped
  <2>1. Requeue(job[w]) \/ UNCHANGED docs
    BY <1>5 DEF ProcessingFails, JobRaises, MongoRaises
  <2>2. docs' \in [Docs -> DocumentInDB]
    BY <2>0, <2>1, MarkTyped DEF StoresTyped
  <2>3. EndJob(w)
    BY <1>5 DEF ProcessingFails, JobRaises
  <2>4. retries' \in [Workers -> SUBSET (Docs \X Nat)]
    <3>1. <<job[w], attempt[w]>> \in Docs \X Nat
      BY <2>0
    <3>2. \/ retries' = [retries EXCEPT ![w] = @ \cup {<<job[w], attempt[w]>>}]
          \/ UNCHANGED retries
      BY <1>5 DEF ProcessingFails, JobRaises
    <3>3. retries \in [Workers -> SUBSET (Docs \X Nat)]
      BY DEF WorkersTyped
    <3>4. retries[w] \cup {<<job[w], attempt[w]>>} \in SUBSET (Docs \X Nat)
      BY <3>1, <3>3
    <3> QED BY <3>2, <3>3, <3>4
  <2> QED BY <1>5, <2>2, <2>3, <2>4, EndJobTyped
          DEF ProcessingFails, StoresTyped, cacheVars
<1>6. CASE ProcessingFailsForGood(w)
  <2>0. job[w] \in Docs
    BY <1>a, <1>6 DEF ProcessingFailsForGood
  <2>1. MarkFailed(job[w]) \/ UNCHANGED docs
    BY <1>6 DEF ProcessingFailsForGood, JobRaises, MongoRaises
  <2>2. docs' \in [Docs -> DocumentInDB]
    BY <2>0, <2>1, MarkTyped DEF StoresTyped
  <2>3. (Step(w, "fail_release") /\ UNCHANGED localVars) \/ EndJob(w)
    BY <1>6 DEF ProcessingFailsForGood, JobRaises
  <2>4. UNCHANGED <<retries, stop>>
    BY <1>6 DEF ProcessingFailsForGood, JobRaises
  <2>5. WorkersTyped'
    <3>1. retries' \in [Workers -> SUBSET (Docs \X Nat)]
      BY <2>4 DEF WorkersTyped
    <3> QED BY <1>a, <2>0, <2>3, <2>4, <3>1, StepTyped, EndJobTyped
  <2> QED BY <1>6, <2>2, <2>5 DEF ProcessingFailsForGood, StoresTyped, cacheVars
<1>7. ASSUME NEW p \in Places, NEW q \in Places \ {"release_waiter"}, p \notin Loop,
             ReleaseJobSlot(w, p, q)
      PROVE  StoresTyped' /\ WorkersTyped'
  <2>1. slots' \in [Users -> SUBSET Docs]
    BY <1>a, <1>7, SlotsTyped DEF ReleaseJobSlot, StoresTyped
  <2> QED BY <1>a, <1>7, <2>1, StepTyped DEF ReleaseJobSlot, StoresTyped, cacheVars
<1>8. CASE CacheResult(w)
  <2>1. CacheTyped'
    <3>1. CacheSet(ContentOf[job[w]], ContentOf[job[w]]) /\ ContentOf[job[w]] \in Contents
      BY <1>a, <1>8 DEF CacheResult
    <3> QED BY <1>a, <1>8, <3>1, CacheStepTyped DEF CacheResult
  <2> QED BY <1>a, <1>8, <2>1, StepTyped DEF CacheResult, StoresTyped, CacheTyped
<1>9. ASSUME NEW p \in Places, NEW q \in Places \ {"release_waiter"}, p \notin Loop,
             TakeWaiters(w, p, q)
      PROVE  StoresTyped' /\ WorkersTyped'
  <2>1. PICK ids \in {waiters[ContentOf[job[w]]], <<>>} :
          PopWaiters(ContentOf[job[w]], ids) /\ popped' = [popped EXCEPT ![w] = ids]
    BY <1>9 DEF TakeWaiters
  <2>2. job[w] \in Docs /\ ids \in Seq(Docs)
    <3>1. <<>> \in Seq(Docs) /\ waiters[ContentOf[job[w]]] \in Seq(Docs)
      BY <1>a, <1>9 DEF TakeWaiters, CacheTyped
    <3> QED BY <1>a, <1>9, <2>1, <3>1 DEF TakeWaiters
  <2>3. CacheTyped'
    BY <1>a, <2>1, <2>2, CacheStepTyped
  <2> QED BY <1>9, <2>1, <2>2, <2>3
          DEF TakeWaiters, StoresTyped, CacheTyped, WorkersTyped, Step
<1>10. CASE ResolveWaiter(w)
  <2>0. /\ job[w] \in Docs /\ ContentOf[job[w]] \in Contents \cup {Null}
        /\ Head(popped[w]) \in Docs /\ Tail(popped[w]) \in Seq(Docs)
    BY <1>a, <1>10, HeadTailProperties DEF ResolveWaiter, WorkersTyped
  <2>1. MarkCompleted(Head(popped[w]), ContentOf[job[w]], TRUE) \/ UNCHANGED docs
    BY <1>10 DEF ResolveWaiter, JobRaises, MongoRaises
  <2>2. docs' \in [Docs -> DocumentInDB]
    BY <2>0, <2>1, MarkTyped DEF StoresTyped
  <2>3. WorkersTyped'
    <3>1. CASE EndJob(w)
      BY <1>10, <3>1, EndJobTyped DEF ResolveWaiter, JobRaises, WorkersTyped
    <3>2. CASE ~EndJob(w)
      <4>1. /\ at' = [at EXCEPT ![w] = "release_waiter"]
            /\ waiter' = [waiter EXCEPT ![w] = Head(popped[w])]
            /\ popped' = [popped EXCEPT ![w] = Tail(popped[w])]
            /\ UNCHANGED <<job, attempt, retries, stop>>
        BY <1>10, <3>2 DEF ResolveWaiter, JobRaises, Step
      <4> QED BY <1>a, <2>0, <4>1 DEF WorkersTyped
    <3> QED BY <3>1, <3>2
  <2> QED BY <1>10, <2>2, <2>3 DEF ResolveWaiter, StoresTyped, cacheVars
<1>11. CASE ReleaseWaiterSlot(w)
  <2>1. waiter[w] \in Docs /\ UserOf[waiter[w]] \in Users
    BY <1>11 DEF ReleaseWaiterSlot, WorkersTyped
  <2>2. slots' \in [Users -> SUBSET Docs]
    BY <1>11, <2>1, SlotsTyped DEF ReleaseWaiterSlot, StoresTyped
  <2> QED BY <1>a, <1>11, <2>2 DEF ReleaseWaiterSlot, StoresTyped, WorkersTyped, Step, cacheVars
<1>12. CASE FinishSuccess(w)
  <2>1. CacheTyped'
    BY <1>a, <1>12, CacheStepTyped DEF FinishSuccess
  <2> QED BY <1>12, <2>1, EndJobTyped DEF FinishSuccess, StoresTyped, CacheTyped, WorkersTyped
<1>13. CASE UnlockAfterFailure(w)
  <2>1. CacheTyped'
    BY <1>a, <1>13, CacheStepTyped DEF UnlockAfterFailure
  <2> QED BY <1>a, <1>13, <2>1, StepTyped DEF UnlockAfterFailure, StoresTyped, CacheTyped
<1>14. CASE PromoteWaiter(w)
  <2>0. Head(popped[w]) \in Docs /\ Tail(popped[w]) \in Seq(Docs)
    BY <1>14, HeadTailProperties DEF PromoteWaiter, WorkersTyped
  <2>1. queue' \in Seq(Docs)
    BY <1>14, <2>0, QueueTyped DEF PromoteWaiter, StoresTyped
  <2>2. CASE EndJob(w)
    BY <1>14, <2>1, <2>2, EndJobTyped DEF PromoteWaiter, StoresTyped, WorkersTyped, cacheVars
  <2>3. CASE ~EndJob(w)
    <3>1. /\ popped' = [popped EXCEPT ![w] = Tail(popped[w])]
          /\ UNCHANGED <<at, job, attempt, waiter, retries, stop>>
      BY <1>14, <2>3 DEF PromoteWaiter
    <3>2. WorkersTyped'
      BY <2>0, <3>1 DEF WorkersTyped
    <3> QED BY <1>14, <2>1, <3>2 DEF PromoteWaiter, StoresTyped, cacheVars
  <2> QED BY <2>2, <2>3
<1>15. CASE FinishFailure(w)
  BY <1>15, EndJobTyped DEF FinishFailure, StoresTyped, WorkersTyped, cacheVars
<1> QED
  BY <1>a, <1>1, <1>2, <1>3, <1>4, <1>5, <1>6, <1>7, <1>8, <1>9, <1>10, <1>11, <1>12,
     <1>13, <1>14, <1>15 DEF Work

LEMMA SuperviseTyped ==
  ASSUME StoresTyped, WorkersTyped, NEW w \in Workers,
         RetryFires(w) \/ Drained(w) \/ SigTerm(w) \/ WorkerCrash(w)
           \/ PollRaises(w) \/ Restart(w)
  PROVE  StoresTyped' /\ WorkersTyped'
<1>a. /\ {"poll", "stopped"} \subseteq Places \cap Loop
      /\ "release_waiter" \notin Loop
  BY DEF Places, Loop
<1>1. CASE RetryFires(w)
  <2>1. PICK t \in retries[w] :
          /\ Enqueue(t[1]) \/ EnqueueRaises(t[1])
          /\ retries' = [retries EXCEPT ![w] = @ \ {t}]
    BY <1>1 DEF RetryFires
  <2>2. retries[w] \subseteq Docs \X Nat
    BY DEF WorkersTyped
  <2>3. t[1] \in Docs
    BY <2>2
  <2>4. queue' \in Seq(Docs)
    BY <2>1, <2>3, QueueTyped DEF StoresTyped
  <2>5. retries' \in [Workers -> SUBSET (Docs \X Nat)]
    <3>1. retries[w] \ {t} \in SUBSET (Docs \X Nat)
      BY <2>2
    <3>2. retries \in [Workers -> SUBSET (Docs \X Nat)]
      BY DEF WorkersTyped
    <3> QED BY <2>1, <3>1, <3>2
  <2> QED BY <1>1, <2>4, <2>5 DEF RetryFires, StoresTyped, WorkersTyped, localVars, cacheVars
<1>2. CASE Drained(w)
  BY <1>a, <1>2, StepTyped DEF Drained, StoresTyped, cacheVars
<1>3. CASE SigTerm(w)
  BY <1>3 DEF SigTerm, StoresTyped, WorkersTyped, localVars, cacheVars
<1>4. CASE WorkerCrash(w)
  BY <1>4, DiesTyped DEF WorkerCrash, Dies, StoresTyped, cacheVars
<1>5. CASE PollRaises(w)
  <2>1. queue' \in Seq(Docs)
    BY <1>5, QueueTyped DEF PollRaises, DequeueRaises, StoresTyped
  <2> QED BY <1>5, <2>1, DiesTyped DEF PollRaises, Dies, StoresTyped, cacheVars
<1>6. CASE Restart(w)
  BY <1>a, <1>6 DEF Restart, Step, StoresTyped, WorkersTyped, localVars, cacheVars
<1> QED BY <1>1, <1>2, <1>3, <1>4, <1>5, <1>6
-----------------------------------------------------------------------------
LEMMA InitTyped == Init => TypeOK
<1> SUFFICES ASSUME Init PROVE TypeOK
  OBVIOUS
<1> USE EnvironmentAssumption
<1>1. <<>> \in Seq(Docs)
  OBVIOUS
<1>2. StoresTyped
  <2>1. NoDocument \in DocumentInDB
    BY DEF NoDocument, DocumentInDB
  <2> QED BY <1>1, <2>1 DEF Init, RepositoryInit, RateLimiterInit, CacheInit, QueueInit,
                            StoresTyped
<1>3. RequestsTyped
  BY DEF Init, ServiceInit, RequestsTyped
<1>4. WorkersTyped
  BY <1>1 DEF Init, WorkerInit, WorkersTyped, Places, Loop
<1> QED BY <1>2, <1>3, <1>4, TypeOKParts

LEMMA NextTyped == TypeOK /\ [Next]_vars => TypeOK'
<1> SUFFICES ASSUME TypeOK, [Next]_vars PROVE TypeOK'
  OBVIOUS
<1> USE TypeOKParts
<1>0. TypeOK' <=> StoresTyped' /\ RequestsTyped' /\ WorkersTyped'
  BY DEF TypeOK, StoresTyped, RequestsTyped, WorkersTyped
<1>1. ASSUME NEW d \in Docs, Request(d) PROVE TypeOK'
  <2>1. StoresTyped' /\ RequestsTyped'
    BY <1>1, RequestTyped DEF Request
  <2>2. WorkersTyped'
    BY <1>1 DEF Request, workerVars, localVars, WorkersTyped
  <2> QED BY <1>0, <2>1, <2>2
<1>2. ASSUME NEW w \in Workers, MainLoop(w) \/ Backoff(w) \/ Supervise(w) PROVE TypeOK'
  <2>1. StoresTyped' /\ WorkersTyped'
    BY <1>2, WorkTyped, SuperviseTyped DEF MainLoop, Backoff, Supervise
  <2>2. RequestsTyped'
    BY <1>2 DEF MainLoop, Backoff, Supervise, requestVars, RequestsTyped
  <2> QED BY <1>0, <2>1, <2>2
<1>3. CASE ApiCrash /\ UNCHANGED workerVars
  <2>1. StoresTyped'
    BY <1>3 DEF ApiCrash, storeVars, cacheVars, StoresTyped
  <2>2. RequestsTyped'
    <3>1. "aborted" \in Ended
      BY DEF Ended
    <3> QED BY <1>3, <3>1 DEF ApiCrash, RequestsTyped
  <2>3. WorkersTyped'
    BY <1>3 DEF workerVars, localVars, WorkersTyped
  <2> QED BY <1>0, <2>1, <2>2, <2>3
<1>4. CASE Expire
  <2>1. slots' \in [Users -> SUBSET Docs]
    BY <1>4 DEF Expire, ExpireSlots, StoresTyped
  <2>2. CacheTyped'
    <3>1. CacheTyped
      BY DEF StoresTyped, CacheTyped
    <3>2. CASE UNCHANGED cacheVars
      BY <3>1, <3>2 DEF CacheTyped, cacheVars
    <3>3. CASE \E c \in Contents : ExpireCache(c) \/ ExpireLock(c) \/ ExpireWaiters(c)
      <4>1. <<>> \in Seq(Docs)
        OBVIOUS
      <4> QED BY <3>1, <3>3, <4>1 DEF CacheTyped, ExpireCache, ExpireLock, ExpireWaiters
    <3> QED BY <1>4, <3>2, <3>3 DEF Expire
  <2>3. RequestsTyped' /\ WorkersTyped'
    BY <1>4 DEF Expire, requestVars, workerVars, localVars, RequestsTyped, WorkersTyped
  <2> QED BY <1>0, <1>4, <2>1, <2>2, <2>3 DEF Expire, StoresTyped, CacheTyped
<1>5. ASSUME NEW d \in Docs, Redeliver(d) PROVE TypeOK'
  <2>1. StoresTyped'
    <3>1. queue' \in Seq(Docs)
      BY <1>5, QueueTyped DEF Redeliver, StoresTyped
    <3> QED BY <1>5, <3>1 DEF Redeliver, StoresTyped, cacheVars
  <2>2. RequestsTyped' /\ WorkersTyped'
    BY <1>5 DEF Redeliver, requestVars, workerVars, localVars, RequestsTyped, WorkersTyped
  <2> QED BY <1>0, <2>1, <2>2
<1>6. CASE UNCHANGED vars
  <2>1. UNCHANGED <<docs, slots, cache, lock, waiters, queue, request, found, at, job,
                    attempt, popped, waiter, retries, stop>>
    BY <1>6 DEF vars, storeVars, requestVars, workerVars, localVars, cacheVars
  <2> QED BY <2>1 DEF TypeOK
<1> QED BY <1>1, <1>2, <1>3, <1>4, <1>5, <1>6 DEF Next

(* Every reachable state of the service is well typed, whatever the fault set: *)
(* a worker outside its loop always has a job, and the waiter it is resolving. *)
THEOREM TypeCorrect == Spec => []TypeOK
BY InitTyped, NextTyped, PTL DEF Spec
-----------------------------------------------------------------------------
(* A document with a request, a waiter list or a popped list as its owner. *)
Guarded(d) == request[d] \in Unstored \cup Stored \/ Waiting(d) \/ Popped(d)

(* A step after which every owner already was one, of an unchanged document. *)
KeepsOwners ==
  /\ \A d \in Docs :
       /\ request'[d] \in Unstored => request[d] \in Unstored
       /\ request'[d] \in Stored => request[d] \in Stored
       /\ Guarded(d)' => docs'[d] = docs[d] /\ (Runnable(d)' => Runnable(d))
  /\ \A c \in Contents :
       /\ IsInjective(waiters[c]) => IsInjective(waiters'[c])
       /\ Range(waiters'[c]) \subseteq Range(waiters[c])
  /\ \A w \in Workers :
       /\ IsInjective(popped[w]) => IsInjective(popped'[w])
       /\ Range(popped'[w]) \subseteq Range(popped[w])
       /\ popped'[w] # <<>> =>
            job'[w] = job[w] /\ at'[w] \in {"resolve", "release_waiter", "promote"}

(* A step that claims nothing and leaves the claimed documents of others alone. *)
KeepsClaims ==
  \A w \in Workers : at'[w] = "process" =>
    /\ at[w] = "process" /\ job'[w] = job[w] /\ attempt'[w] = attempt[w]
    /\ docs'[job[w]] = docs[job[w]]

KeepsAttempts ==
  \A d \in Docs :
    /\ docs'[d].attempts = docs[d].attempts
    /\ docs'[d].status = "queued" => docs[d].status = "queued"

KeepsSummaries ==
  /\ \A c \in Contents : cache'[c] \in {cache[c], Null, c}
  /\ found' = found
  /\ \A d \in Docs : request'[d] \in {"insert_cached", "complete"} => request'[d] = request[d]

OwnersKnown == RequestOwnership /\ WaiterOwnership /\ WorkerOwnership
-----------------------------------------------------------------------------
(* Sequences as sets of ids. *)

LEMMA RangeEmpty == Range(<<>>) = {} /\ IsInjective(<<>>)
BY DEF Range, IsInjective

LEMMA RangeNonEmpty ==
  ASSUME NEW S, NEW s \in Seq(S)
  PROVE  Range(s) \subseteq S /\ (Range(s) = {} => s = <<>>)
<1>1. Len(s) \in Nat /\ DOMAIN s = 1..Len(s) /\ \A i \in 1..Len(s) : s[i] \in S
  BY LenProperties, ElementOfSeq
<1>2. Range(s) \subseteq S
  BY <1>1 DEF Range
<1>3. ASSUME s # <<>> PROVE Range(s) # {}
  <2>1. 1 \in DOMAIN s
    BY <1>1, <1>3, EmptySeq
  <2> QED BY <2>1 DEF Range
<1> QED BY <1>2, <1>3

LEMMA RangeAppend ==
  ASSUME NEW S, NEW s \in Seq(S), NEW e \in S
  PROVE  /\ Range(Append(s, e)) = Range(s) \cup {e}
         /\ IsInjective(s) /\ e \notin Range(s) => IsInjective(Append(s, e))
<1>1. /\ Append(s, e) \in Seq(S) /\ Len(s) \in Nat
      /\ DOMAIN s = 1..Len(s) /\ DOMAIN Append(s, e) = 1..(Len(s) + 1)
      /\ \A i \in 1..Len(s) : Append(s, e)[i] = s[i]
      /\ Append(s, e)[Len(s) + 1] = e
  BY AppendProperties, LenProperties
<1>2. Range(Append(s, e)) = Range(s) \cup {e}
  BY <1>1 DEF Range
<1>3. IsInjective(s) /\ e \notin Range(s) => IsInjective(Append(s, e))
  BY <1>1 DEF Range, IsInjective
<1> QED BY <1>2, <1>3

LEMMA RangeHeadTail ==
  ASSUME NEW S, NEW s \in Seq(S), s # <<>>
  PROVE  /\ Range(s) = {Head(s)} \cup Range(Tail(s))
         /\ Head(s) \in S
         /\ IsInjective(s) => IsInjective(Tail(s)) /\ Head(s) \notin Range(Tail(s))
<1>1. /\ Len(s) \in Nat /\ Len(s) > 0
      /\ Head(s) \in S /\ Head(s) = s[1]
      /\ DOMAIN s = 1..Len(s) /\ DOMAIN Tail(s) = 1..(Len(s) - 1)
      /\ \A i \in 1..(Len(s) - 1) : Tail(s)[i] = s[i + 1]
  BY HeadTailProperties, LenProperties, EmptySeq
<1>2. Range(s) = {Head(s)} \cup Range(Tail(s))
  <2>1. ASSUME NEW i \in 1..Len(s) PROVE s[i] \in {Head(s)} \cup Range(Tail(s))
    <3>1. CASE i = 1
      BY <1>1, <3>1
    <3>2. CASE i # 1
      <4>1. i - 1 \in 1..(Len(s) - 1) /\ Tail(s)[i - 1] = s[(i - 1) + 1] /\ (i - 1) + 1 = i
        BY <1>1, <3>2
      <4> QED BY <1>1, <4>1 DEF Range
    <3> QED BY <3>1, <3>2
  <2>2. ASSUME NEW i \in 1..(Len(s) - 1) PROVE Tail(s)[i] \in Range(s)
    <3>1. i + 1 \in 1..Len(s)
      BY <1>1
    <3> QED BY <1>1, <3>1 DEF Range
  <2>3. Head(s) \in Range(s)
    BY <1>1 DEF Range
  <2> QED BY <1>1, <2>1, <2>2, <2>3 DEF Range
<1>3. IsInjective(s) => IsInjective(Tail(s)) /\ Head(s) \notin Range(Tail(s))
  BY <1>1 DEF Range, IsInjective
<1> QED BY <1>1, <1>2, <1>3
-----------------------------------------------------------------------------
(* What a step of each kind preserves. *)

LEMMA OwnersKept ==
  ASSUME TypeOK, OwnersKnown, KeepsOwners
  PROVE  OwnersKnown'
<1> USE EnvironmentAssumption DEF OwnersKnown, KeepsOwners
<1>1. \A d \in Docs : Guarded(d)' => (Unstarted(d) => Unstarted(d)')
  BY DEF Unstarted
<1>2. \A d \in Docs : (Waiting(d)' => Waiting(d)) /\ (Popped(d)' => Popped(d))
  BY DEF Waiting, Popped
<1>3. RequestOwnership'
  BY <1>1, <1>2 DEF RequestOwnership, Guarded, Status
<1>4. WaiterOwnership'
  <2> SUFFICES ASSUME NEW c \in Contents, NEW d \in Range(waiters'[c])
               PROVE  ContentOf[d] = c /\ Status(d)' = "queued" /\ Unstarted(d)' /\ ~Popped(d)'
    BY DEF WaiterOwnership
  <2>1. /\ d \in Range(waiters[c]) /\ d \in Docs
        /\ ContentOf[d] = c /\ Status(d) = "queued" /\ Unstarted(d) /\ ~Popped(d)
    BY RangeNonEmpty DEF WaiterOwnership, TypeOK
  <2>2. Guarded(d)'
    BY <2>1 DEF Guarded, Waiting
  <2> QED BY <1>1, <1>2, <2>1, <2>2 DEF Status
<1>5. WorkerOwnership'
  <2>1. \A w \in Workers : IsInjective(popped'[w])
    BY DEF WorkerOwnership
  <2>2. \A w \in Workers : at'[w] \notin {"resolve", "release_waiter", "promote"} =>
                             popped'[w] = <<>>
    OBVIOUS
  <2>3. ASSUME NEW w \in Workers, NEW d \in Range(popped'[w])
        PROVE  /\ ContentOf[d] = ContentOf[job'[w]] /\ Status(d)' = "queued" /\ Unstarted(d)'
               /\ \A v \in Workers : d \in Range(popped'[v]) => v = w
    <3>1. /\ d \in Range(popped[w]) /\ d \in Docs
          /\ ContentOf[d] = ContentOf[job[w]] /\ Status(d) = "queued" /\ Unstarted(d)
          /\ \A v \in Workers : d \in Range(popped[v]) => v = w
      BY <2>3, RangeNonEmpty DEF WorkerOwnership, TypeOK
    <3>2. Guarded(d)'
      BY <2>3 DEF Guarded, Popped
    <3>3. job'[w] = job[w]
      BY <2>3, RangeEmpty
    <3> QED BY <1>1, <3>1, <3>2, <3>3 DEF Status
  <2> QED BY <2>1, <2>2, <2>3 DEF WorkerOwnership
<1> QED BY <1>3, <1>4, <1>5

LEMMA ClaimsKept ==
  ASSUME ExclusiveClaim, KeepsClaims
  PROVE  ExclusiveClaim'
BY DEF ExclusiveClaim, KeepsClaims, Status

LEMMA AttemptsKept ==
  ASSUME AttemptsBounded, KeepsAttempts
  PROVE  AttemptsBounded'
BY DEF AttemptsBounded, KeepsAttempts, Status

LEMMA SummariesKept ==
  ASSUME SummariesMatch, KeepsSummaries
  PROVE  SummariesMatch'
BY DEF SummariesMatch, KeepsSummaries
-----------------------------------------------------------------------------
(* The requests.  A step of request d to place p keeps owners when it touches *)
(* no other document, and its own only when it gives it up.                    *)

RequestStep(d, p) ==
  /\ request' = [request EXCEPT ![d] = p]
  /\ UNCHANGED workerVars
  /\ \A e \in Docs \ {d} : docs'[e] = docs[e] /\ (e \in Range(queue') => e \in Range(queue))

GivesUp(d, p) == request[d] \in Unstored \cup Stored /\ p \notin Unstored \cup Stored

LEMMA RequestKeepsOwners ==
  ASSUME TypeOK, OwnersKnown, NEW d \in Docs, NEW p, RequestStep(d, p), UNCHANGED waiters,
         p \in Unstored => request[d] \in Unstored,
         p \in Stored => request[d] \in Stored,
         (docs' = docs /\ queue' = queue) \/ GivesUp(d, p)
  PROVE  OwnersKnown'
<1> USE DEF RequestStep, workerVars, localVars
<1>1. \A e \in Docs : /\ (Waiting(e)' <=> Waiting(e)) /\ (Popped(e)' <=> Popped(e))
                      /\ (Taken(e)' <=> Taken(e)) /\ (Backing(e)' <=> Backing(e))
  BY DEF Waiting, Popped, Taken, Backing
<1>2. ASSUME NEW e \in Docs
      PROVE  /\ request'[e] \in Unstored => request[e] \in Unstored
             /\ request'[e] \in Stored => request[e] \in Stored
             /\ Guarded(e)' => docs'[e] = docs[e] /\ (Runnable(e)' => Runnable(e))
  <2>0. request' = [request EXCEPT ![d] = p] /\ request \in [Docs -> {"new"} \cup InProgress \cup Ended]
    BY DEF TypeOK
  <2>1. CASE e = d
    <3>1. CASE docs' = docs /\ queue' = queue
      BY <1>1, <2>0, <2>1, <3>1 DEF Runnable
    <3>2. CASE GivesUp(d, p)
      <4>1. ~Waiting(d) /\ ~Popped(d)
        BY <3>2 DEF GivesUp, OwnersKnown, RequestOwnership
      <4>2. request'[d] = p
        BY <2>0
      <4>3. ~Guarded(d)'
        BY <1>1, <3>2, <4>1, <4>2 DEF Guarded, GivesUp
      <4> QED BY <2>1, <3>2, <4>2, <4>3 DEF GivesUp
    <3> QED BY <3>1, <3>2
  <2>2. CASE e # d
    BY <1>1, <2>0, <2>2 DEF Runnable
  <2> QED BY <2>1, <2>2
<1>3. KeepsOwners
  <2>1. \A w \in Workers : popped[w] # <<>> => at[w] \in {"resolve", "release_waiter", "promote"}
    BY DEF OwnersKnown, WorkerOwnership
  <2> QED BY <1>2, <2>1 DEF KeepsOwners
<1> QED BY <1>3, OwnersKept

LEMMA RequestKeepsClaims ==
  ASSUME TypeOK, OwnersKnown, ExclusiveClaim, NEW d \in Docs, NEW p, RequestStep(d, p),
         docs'[d] = docs[d] \/ request[d] \in Unstored \cup Stored
  PROVE  ExclusiveClaim'
<1>1. request[d] \in Unstored \cup Stored => Status(d) # "processing"
  BY DEF OwnersKnown, RequestOwnership, Status, NoDocument
<1>2. ASSUME NEW w \in Workers, at[w] = "process" PROVE docs'[job[w]] = docs[job[w]]
  <2>1. job[w] \in Docs /\ Status(job[w]) = "processing"
    BY <1>2 DEF TypeOK, ExclusiveClaim, Loop
  <2> QED BY <1>1, <2>1 DEF RequestStep
<1> QED BY <1>2, ClaimsKept DEF KeepsClaims, RequestStep, workerVars, localVars

LEMMA RequestKeepsSummaries ==
  ASSUME TypeOK, SummariesMatch, NEW d \in Docs, NEW p, RequestStep(d, p),
         UNCHANGED <<cache, found>>, p \notin {"insert_cached", "complete"}
  PROVE  SummariesMatch'
BY SummariesKept DEF TypeOK, KeepsSummaries, RequestStep

LEMMA ReadCacheOwned ==
  ASSUME TypeOK, Ownership, NEW d \in Docs, NEW hit, NEW miss, ReadCache(d, hit, miss),
         UNCHANGED <<docs, queue, workerVars>>,
         \A p \in {hit, miss} : /\ p \in Unstored => request[d] \in Unstored
                                /\ p \in Stored => request[d] \in Stored,
         miss \notin {"insert_cached", "complete"}
  PROVE  Ownership'
<1>1. PICK m \in Contents \cup {Null} :
        /\ CacheGet(ContentOf[d], m)
        /\ IF m = Null
           THEN GoTo(d, miss)
           ELSE /\ request' = [request EXCEPT ![d] = hit]
                /\ found' = [found EXCEPT ![d] = m]
  BY DEF ReadCache
<1>2. UNCHANGED <<cache, lock, waiters>> /\ m \in {cache[ContentOf[d]], Null}
  BY <1>1 DEF CacheGet, cacheVars
<1>3. PICK p \in {hit, miss} : RequestStep(d, p)
  BY <1>1 DEF GoTo, RequestStep
<1>4. OwnersKnown' /\ ExclusiveClaim'
  BY <1>2, <1>3, RequestKeepsOwners, RequestKeepsClaims DEF Ownership, OwnersKnown
<1>5. AttemptsBounded'
  BY DEF Ownership, AttemptsBounded, Status
<1>6. SummariesMatch'
  <2>1. CASE m = Null
    BY <1>1, <1>2, <2>1, RequestKeepsSummaries DEF GoTo, RequestStep, Ownership
  <2>2. CASE m # Null
    <3>1. m = ContentOf[d] /\ ContentOf[d] \in Contents
      BY <1>2, <2>2, EnvironmentAssumption DEF Ownership, SummariesMatch
    <3> QED BY <1>1, <1>2, <2>2, <3>1 DEF Ownership, SummariesMatch, TypeOK
  <2> QED BY <2>1, <2>2
<1> QED BY <1>4, <1>5, <1>6 DEF Ownership, OwnersKnown

(* A step that leaves the collection, the waiters and the cache alone, in a place *)
(* of the same kind or, with the queue extended by d, one that gives d up.        *)
LEMMA PlainRequestOwned ==
  ASSUME TypeOK, Ownership, NEW d \in Docs, NEW p, GoTo(d, p),
         UNCHANGED <<docs, cache, waiters, workerVars>>,
         p \in Unstored => request[d] \in Unstored,
         p \in Stored => request[d] \in Stored,
         p \notin {"insert_cached", "complete"},
         \A e \in Docs \ {d} : e \in Range(queue') => e \in Range(queue),
         queue' = queue \/ GivesUp(d, p)
  PROVE  Ownership'
<1>1. RequestStep(d, p)
  BY DEF GoTo, RequestStep
<1>2. OwnersKnown' /\ ExclusiveClaim' /\ SummariesMatch'
  BY <1>1, RequestKeepsOwners, RequestKeepsClaims, RequestKeepsSummaries
     DEF Ownership, OwnersKnown, GoTo
<1>3. AttemptsBounded'
  BY DEF Ownership, AttemptsBounded, Status
<1> QED BY <1>2, <1>3 DEF Ownership, OwnersKnown

(* A step that gives d up with an update of its document that starts nothing. *)
LEMMA GivingUpOwned ==
  ASSUME TypeOK, Ownership, NEW d \in Docs, NEW p, GoTo(d, p), GivesUp(d, p),
         UNCHANGED <<cache, waiters, queue, workerVars>>,
         \A e \in Docs \ {d} : docs'[e] = docs[e],
         docs'[d].attempts = docs[d].attempts,
         docs'[d].status = "queued" => docs[d].status = "queued",
         p \notin {"insert_cached", "complete"}
  PROVE  Ownership'
<1>1. RequestStep(d, p)
  BY DEF GoTo, RequestStep
<1>2. OwnersKnown' /\ ExclusiveClaim' /\ SummariesMatch'
  BY <1>1, RequestKeepsOwners, RequestKeepsClaims, RequestKeepsSummaries
     DEF Ownership, OwnersKnown, GoTo, GivesUp
<1>3. AttemptsBounded'
  BY AttemptsKept DEF Ownership, KeepsAttempts
<1> QED BY <1>2, <1>3 DEF Ownership, OwnersKnown

(* From a reserved slot to a stored document that belongs to its request. *)
LEMMA InsertQueuedOwned ==
  ASSUME TypeOK, Ownership, NEW d \in Docs, request[d] = "insert",
         Insert(d, "queued", Null, FALSE), GoTo(d, "elect"),
         UNCHANGED <<slots, cacheVars, queue, workerVars>>
  PROVE  Ownership'
<1> USE DEF GoTo, workerVars, localVars, cacheVars
<1>1. request[d] \in Unstored /\ "elect" \in Stored /\ "elect" \notin Unstored
  BY DEF Unstored, Stored
<1>2. /\ Unstarted(d) /\ ~Waiting(d) /\ ~Popped(d)
      /\ docs[d] = NoDocument
  BY <1>1 DEF Ownership, RequestOwnership
<1>3. /\ docs'[d].status = "queued" /\ docs'[d].attempts = 0
      /\ \A e \in Docs \ {d} : docs'[e] = docs[e]
  BY DEF Insert, TypeOK
<1>4. \A e \in Docs : /\ (Waiting(e)' <=> Waiting(e)) /\ (Popped(e)' <=> Popped(e))
                      /\ (Runnable(e)' <=> Runnable(e))
  BY DEF Waiting, Popped, Runnable, Taken, Backing
<1>5. \A e \in Docs : Unstarted(e) => Unstarted(e)'
  BY <1>3, <1>4 DEF Unstarted
<1>6. RequestOwnership'
  <2> SUFFICES ASSUME NEW e \in Docs
               PROVE  /\ request'[e] \in Unstored => docs'[e] = NoDocument
                      /\ request'[e] \in Stored => Status(e)' = "queued"
                      /\ request'[e] \in Unstored \cup Stored =>
                           Unstarted(e)' /\ ~Waiting(e)' /\ ~Popped(e)'
    BY DEF RequestOwnership
  <2>1. CASE e = d
    BY <1>1, <1>2, <1>3, <1>4, <1>5, <2>1 DEF TypeOK, Status
  <2>2. CASE e # d
    BY <1>3, <1>4, <1>5, <2>2 DEF TypeOK, Status, Ownership, RequestOwnership
  <2> QED BY <2>1, <2>2
<1>7. WaiterOwnership'
  <2> SUFFICES ASSUME NEW c \in Contents
               PROVE  /\ IsInjective(waiters[c])
                      /\ \A e \in Range(waiters[c]) : ContentOf[e] = c /\ Status(e)' = "queued"
                                                       /\ Unstarted(e)' /\ ~Popped(e)'
    BY DEF WaiterOwnership
  <2>1. Range(waiters[c]) \subseteq Docs
    BY RangeNonEmpty DEF TypeOK
  <2>2. d \notin Range(waiters[c])
    BY <1>2 DEF Ownership, WaiterOwnership, Waiting
  <2> QED BY <1>3, <1>4, <1>5, <2>1, <2>2 DEF Ownership, WaiterOwnership, Status
<1>8. WorkerOwnership'
  <2> SUFFICES ASSUME NEW w \in Workers
               PROVE  \A e \in Range(popped[w]) : Status(e)' = "queued" /\ Unstarted(e)'
    BY DEF WorkerOwnership, Ownership
  <2>1. Range(popped[w]) \subseteq Docs
    BY RangeNonEmpty DEF TypeOK
  <2>2. d \notin Range(popped[w])
    BY <1>2 DEF Popped
  <2> QED BY <1>3, <1>5, <2>1, <2>2 DEF Ownership, WorkerOwnership, Status
<1>9. ExclusiveClaim' /\ SummariesMatch'
  <2>1. RequestStep(d, "elect")
    BY <1>3 DEF RequestStep
  <2> QED BY <1>1, <2>1, RequestKeepsClaims, RequestKeepsSummaries DEF Ownership, OwnersKnown
<1>10. AttemptsBounded'
  BY <1>3, WorkerAssumption DEF Ownership, AttemptsBounded, Status
<1> QED BY <1>6, <1>7, <1>8, <1>9, <1>10 DEF Ownership

(* From the request to the waiter list of its text. *)
LEMMA JoinWaitersOwned ==
  ASSUME TypeOK, Ownership, NEW d \in Docs, JoinWaiters(d), UNCHANGED workerVars
  PROVE  Ownership'
<1> USE DEF GoTo, workerVars, localVars
<1>1. /\ request[d] \in Stored /\ "followed" \notin Unstored \cup Stored
      /\ ContentOf[d] \in Contents
      /\ request' = [request EXCEPT ![d] = "followed"]
      /\ UNCHANGED <<docs, queue, cache, found>>
  BY EnvironmentAssumption DEF JoinWaiters, RegisterWaiter, Unstored, Stored
<1>2. CASE UNCHANGED waiters
  BY <1>1, <1>2, PlainRequestOwned DEF JoinWaiters, GivesUp
<1>3. CASE waiters' = [waiters EXCEPT ![ContentOf[d]] = Append(@, d)]
  <2>1. Status(d) = "queued" /\ Unstarted(d) /\ ~Waiting(d) /\ ~Popped(d)
    BY <1>1 DEF Ownership, RequestOwnership
  <2>2. /\ Range(waiters'[ContentOf[d]]) = Range(waiters[ContentOf[d]]) \cup {d}
        /\ IsInjective(waiters'[ContentOf[d]])
        /\ \A c \in Contents \ {ContentOf[d]} : waiters'[c] = waiters[c]
    BY <1>1, <1>3, <2>1, RangeAppend DEF TypeOK, Waiting, Ownership, WaiterOwnership
  <2>3. \A e \in Docs : /\ (Waiting(e)' <=> Waiting(e) \/ e = d)
                        /\ (Popped(e)' <=> Popped(e))
                        /\ (Unstarted(e)' <=> Unstarted(e))
    <3>1. \A e \in Docs : Waiting(e)' <=> Waiting(e) \/ e = d
      BY <1>1, <2>2, EnvironmentAssumption DEF Waiting
    <3> QED BY <1>1, <3>1 DEF Popped, Unstarted, Runnable, Taken, Backing
  <2>4. RequestOwnership'
    BY <1>1, <2>3 DEF Ownership, RequestOwnership, TypeOK, Status
  <2>5. WaiterOwnership'
    <3> SUFFICES ASSUME NEW c \in Contents
                 PROVE  /\ IsInjective(waiters'[c])
                        /\ \A e \in Range(waiters'[c]) :
                             ContentOf[e] = c /\ Status(e)' = "queued" /\ Unstarted(e)' /\ ~Popped(e)'
      BY DEF WaiterOwnership
    <3>1. Range(waiters[c]) \subseteq Docs
      BY RangeNonEmpty DEF TypeOK
    <3>2. CASE c = ContentOf[d]
      BY <1>1, <2>1, <2>2, <2>3, <3>1, <3>2 DEF Ownership, WaiterOwnership, Status
    <3>3. CASE c # ContentOf[d]
      BY <1>1, <2>2, <2>3, <3>1, <3>3 DEF Ownership, WaiterOwnership, Status
    <3> QED BY <3>2, <3>3
  <2>6. WorkerOwnership'
    <3>1. \A w \in Workers : Range(popped[w]) \subseteq Docs
      BY RangeNonEmpty DEF TypeOK
    <3> QED BY <1>1, <2>3, <3>1 DEF Ownership, WorkerOwnership, Status
  <2>7. ExclusiveClaim' /\ AttemptsBounded' /\ SummariesMatch'
    <3>1. RequestStep(d, "followed")
      BY <1>1 DEF RequestStep
    <3>2. AttemptsBounded'
      BY <1>1 DEF Ownership, AttemptsBounded, Status
    <3> QED BY <1>1, <3>1, <3>2, RequestKeepsClaims, RequestKeepsSummaries
            DEF Ownership, OwnersKnown
  <2> QED BY <2>4, <2>5, <2>6, <2>7 DEF Ownership
<1> QED BY <1>2, <1>3 DEF JoinWaiters, RegisterWaiter

LEMMA RequestOwned ==
  ASSUME TypeOK, Ownership, NEW d \in Docs, Submit(d), UNCHANGED workerVars
  PROVE  Ownership'
<1>a. /\ ContentOf[d] \in Contents
      /\ {"served", "led", "followed", "rejected", "errored", "release", "unlock"}
           \cap (Unstored \cup Stored) = {}
      /\ Unstored = {"new", "insert_cached", "acquire", "insert"}
      /\ Stored = {"elect", "recheck", "complete", "register", "enqueue"}
  BY EnvironmentAssumption DEF Unstored, Stored
<1>1. CASE LookUpCache(d)
  BY <1>a, <1>1, ReadCacheOwned DEF LookUpCache
<1>2. CASE InsertCached(d)
  <2>1. /\ Insert(d, "completed", found[d], TRUE) \/ UNCHANGED docs
        /\ UNCHANGED <<cache, waiters, queue>>
        /\ request[d] = "insert_cached"
    BY <1>2 DEF InsertCached, Store, MongoRaises, cacheVars
  <2>2. PICK p \in {"served", "errored"} : GoTo(d, p)
    BY <1>2 DEF InsertCached, Store
  <2>3. docs[d] = NoDocument
    BY <1>a, <2>1 DEF Ownership, RequestOwnership
  <2>4. /\ \A e \in Docs \ {d} : docs'[e] = docs[e]
        /\ docs'[d].attempts = docs[d].attempts
        /\ docs'[d].status = "queued" => docs[d].status = "queued"
    BY <2>1, <2>3 DEF Insert, NoDocument, TypeOK
  <2> QED BY <1>a, <2>1, <2>2, <2>4, GivingUpOwned DEF GivesUp
<1>3. CASE AcquireSlot(d)
  <2>1. PICK p \in {"insert", "rejected"} : GoTo(d, p)
    BY <1>3 DEF AcquireSlot
  <2> QED BY <1>a, <1>3, <2>1, PlainRequestOwned DEF AcquireSlot, cacheVars
<1>4. CASE InsertQueued(d)
  <2>1. CASE Insert(d, "queued", Null, FALSE) /\ GoTo(d, "elect")
    BY <1>4, <2>1, InsertQueuedOwned DEF InsertQueued
  <2>2. CASE UNCHANGED docs /\ GoTo(d, "errored")
    BY <1>a, <1>4, <2>2, PlainRequestOwned DEF InsertQueued, cacheVars
  <2>3. CASE Insert(d, "queued", Null, FALSE) /\ GoTo(d, "errored")
    <3>1. /\ request' = [request EXCEPT ![d] = "errored"] /\ found' = found
          /\ UNCHANGED <<cache, waiters, queue>>
          /\ request[d] = "insert"
      BY <1>4, <2>3 DEF InsertQueued, GoTo, cacheVars
    <3>2. RequestStep(d, "errored") /\ GivesUp(d, "errored")
      BY <1>a, <2>3, <3>1 DEF RequestStep, GivesUp, Insert, TypeOK
    <3>3. OwnersKnown' /\ ExclusiveClaim' /\ SummariesMatch'
      BY <1>a, <3>1, <3>2, RequestKeepsOwners, RequestKeepsClaims, RequestKeepsSummaries
         DEF Ownership, OwnersKnown, GivesUp
    <3>4. AttemptsBounded'
      <4>1. /\ docs'[d].attempts = 0
            /\ \A e \in Docs \ {d} : docs'[e] = docs[e]
        BY <2>3 DEF Insert, TypeOK
      <4> QED BY <4>1, WorkerAssumption DEF Ownership, AttemptsBounded, Status
    <3> QED BY <3>3, <3>4 DEF Ownership, OwnersKnown
  <2> QED BY <1>4, <2>1, <2>2, <2>3 DEF InsertQueued, Store, MongoRaises
<1>5. CASE ElectLeader(d)
  <2>1. PICK p \in {"recheck", "register"} : GoTo(d, p)
    BY <1>5 DEF ElectLeader
  <2>2. UNCHANGED <<cache, waiters>>
    BY <1>5 DEF ElectLeader, TryAcquireProcessingLock
  <2> QED BY <1>a, <1>5, <2>1, <2>2, PlainRequestOwned DEF ElectLeader
<1>6. CASE RecheckCache(d)
  BY <1>a, <1>6, ReadCacheOwned DEF RecheckCache
<1>7. CASE CompleteFromCache(d)
  <2>1. /\ MarkCompleted(d, found[d], TRUE) \/ UNCHANGED docs
        /\ UNCHANGED <<cache, waiters, queue>>
        /\ request[d] = "complete"
    BY <1>7 DEF CompleteFromCache, Store, MongoRaises, cacheVars
  <2>2. PICK p \in {"release", "errored"} : GoTo(d, p)
    BY <1>7 DEF CompleteFromCache, Store
  <2>3. /\ \A e \in Docs \ {d} : docs'[e] = docs[e]
        /\ docs'[d].attempts = docs[d].attempts
        /\ docs'[d].status = "queued" => docs[d].status = "queued"
    BY <2>1 DEF MarkCompleted, TypeOK, DocumentInDB
  <2> QED BY <1>a, <2>1, <2>2, <2>3, GivingUpOwned DEF GivesUp
<1>8. CASE ReleaseOwnSlot(d)
  BY <1>a, <1>8, PlainRequestOwned DEF ReleaseOwnSlot, cacheVars
<1>9. CASE ReleaseOwnLock(d)
  <2>1. UNCHANGED <<cache, waiters>>
    BY <1>9 DEF ReleaseOwnLock, ReleaseProcessingLock
  <2> QED BY <1>a, <1>9, <2>1, PlainRequestOwned DEF ReleaseOwnLock
<1>10. CASE EnqueueJob(d)
  <2>1. PICK p \in {"led", "errored"} : GoTo(d, p)
    BY <1>10 DEF EnqueueJob
  <2>2. \A e \in Docs \ {d} : e \in Range(queue') => e \in Range(queue)
    <3>1. Range(Append(queue, d)) = Range(queue) \cup {d}
      BY RangeAppend DEF TypeOK
    <3> QED BY <1>10, <3>1 DEF EnqueueJob, EnqueueRaises, Enqueue
  <2> QED BY <1>a, <1>10, <2>1, <2>2, PlainRequestOwned DEF EnqueueJob, GivesUp, cacheVars
<1>11. CASE JoinWaiters(d)
  BY <1>11, JoinWaitersOwned
<1> QED
  BY <1>1, <1>2, <1>3, <1>4, <1>5, <1>6, <1>7, <1>8, <1>9, <1>10, <1>11 DEF Submit
-----------------------------------------------------------------------------
(* The workers. *)

(* A step of worker w that leaves the requests, the waiters and the cache alone.  *)
WorkerStep(w) ==
  /\ UNCHANGED <<requestVars, waiters>>
  /\ \A v \in Workers \ {w} :
       /\ at'[v] = at[v] /\ job'[v] = job[v] /\ attempt'[v] = attempt[v]
       /\ popped'[v] = popped[v] /\ retries'[v] = retries[v]

(* It keeps owners when it changes no owned document and makes none runnable, *)
(* once the ids it takes out of its popped list are set aside.                *)
LEMMA WorkerKeepsOwners ==
  ASSUME TypeOK, OwnersKnown, NEW w \in Workers, WorkerStep(w),
         IsInjective(popped'[w]), Range(popped'[w]) \subseteq Range(popped[w]),
         popped'[w] # <<>> =>
           job'[w] = job[w] /\ at'[w] \in {"resolve", "release_waiter", "promote"},
         \A d \in Docs :
           \/ docs'[d] = docs[d] /\ (Runnable(d)' => Runnable(d))
           \/ d \in Range(popped[w]) /\ d \notin Range(popped'[w])
           \/ Status(d) = "processing" \/ docs[d].attempts > 0 \/ Runnable(d)
  PROVE  OwnersKnown'
<1> USE DEF WorkerStep, requestVars
<1>1. ASSUME NEW d \in Docs
      PROVE  /\ Waiting(d)' <=> Waiting(d)
             /\ Popped(d)' => Popped(d)
             /\ Guarded(d) => /\ Status(d) # "processing"
                              /\ docs[d].attempts = 0 /\ ~Runnable(d)
  <2>1. Waiting(d)' <=> Waiting(d)
    BY DEF Waiting
  <2>2. Popped(d)' => Popped(d)
    BY DEF Popped
  <2>3. Guarded(d) => /\ Status(d) # "processing"
                      /\ docs[d].attempts = 0 /\ ~Runnable(d)
    BY EnvironmentAssumption DEF Guarded, OwnersKnown, RequestOwnership, WaiterOwnership,
         WorkerOwnership, Waiting, Popped, Unstarted, Status, NoDocument
  <2> QED BY <2>1, <2>2, <2>3
<1>2. ASSUME NEW d \in Docs, d \in Range(popped[w]), d \notin Range(popped'[w])
      PROVE  ~Guarded(d)'
  <2>1. ~Popped(d)'
    BY <1>2 DEF Popped, OwnersKnown, WorkerOwnership
  <2>2. request[d] \notin Unstored \cup Stored /\ ~Waiting(d)
    BY <1>2, EnvironmentAssumption
       DEF Popped, Waiting, OwnersKnown, RequestOwnership, WaiterOwnership
  <2> QED BY <1>1, <2>1, <2>2 DEF Guarded
<1>3. ASSUME NEW d \in Docs, Guarded(d)'
      PROVE  docs'[d] = docs[d] /\ (Runnable(d)' => Runnable(d))
  <2>1. Guarded(d)
    BY <1>1, <1>3 DEF Guarded
  <2> QED BY <1>1, <1>2, <1>3, <2>1
<1>4. KeepsOwners
  <2>1. \A v \in Workers \ {w} :
          popped[v] # <<>> => at[v] \in {"resolve", "release_waiter", "promote"}
    BY DEF OwnersKnown, WorkerOwnership
  <2> QED BY <1>3, <2>1 DEF KeepsOwners
<1> QED BY <1>4, OwnersKept

LEMMA WorkerOwned ==
  ASSUME TypeOK, Ownership, NEW w \in Workers, WorkerStep(w),
         IsInjective(popped'[w]), Range(popped'[w]) \subseteq Range(popped[w]),
         popped'[w] # <<>> =>
           job'[w] = job[w] /\ at'[w] \in {"resolve", "release_waiter", "promote"},
         \A d \in Docs :
           \/ docs'[d] = docs[d] /\ (Runnable(d)' => Runnable(d))
           \/ d \in Range(popped[w]) /\ d \notin Range(popped'[w])
           \/ Status(d) = "processing" \/ docs[d].attempts > 0 \/ Runnable(d),
         at'[w] # "process",
         \A d \in Docs : \/ docs'[d] = docs[d] \/ Status(d) # "processing"
                         \/ at[w] = "process" /\ job[w] = d,
         AttemptsBounded',
         \A c \in Contents : cache'[c] \in {cache[c], Null, c}
  PROVE  Ownership'
<1>1. OwnersKnown'
  BY WorkerKeepsOwners DEF Ownership, OwnersKnown
<1>2. ExclusiveClaim'
  <2>1. ASSUME NEW v \in Workers, at'[v] = "process"
        PROVE  /\ at[v] = "process" /\ job'[v] = job[v] /\ attempt'[v] = attempt[v]
               /\ docs'[job[v]] = docs[job[v]]
    <3>1. v # w /\ at[v] = "process" /\ job'[v] = job[v] /\ attempt'[v] = attempt[v]
      BY <2>1 DEF WorkerStep
    <3>2. /\ job[v] \in Docs /\ Status(job[v]) = "processing"
          /\ ~(at[w] = "process" /\ job[w] = job[v])
      BY <3>1 DEF TypeOK, Ownership, ExclusiveClaim, Loop
    <3> QED BY <3>1, <3>2
  <2> QED BY <2>1, ClaimsKept DEF Ownership, KeepsClaims
<1>3. SummariesMatch'
  BY SummariesKept DEF Ownership, KeepsSummaries, WorkerStep, requestVars
<1> QED BY <1>1, <1>2, <1>3 DEF Ownership, OwnersKnown

(* What becomes runnable in a step of w. *)
LEMMA RunnableKept ==
  ASSUME NEW w \in Workers, WorkerStep(w), NEW d \in Docs,
         d \in Range(queue') => Runnable(d),
         at'[w] = "claim" /\ job'[w] = d => Runnable(d),
         \A t \in retries'[w] : t[1] = d => Runnable(d)
  PROVE  Runnable(d)' => Runnable(d)
BY DEF WorkerStep, Runnable, Taken, Backing

(* The collection and the claims stay as they are, and nothing becomes runnable. *)
LEMMA QuietWorkerOwned ==
  ASSUME TypeOK, Ownership, NEW w \in Workers, WorkerStep(w), UNCHANGED docs,
         popped'[w] \in {popped[w], <<>>},
         popped'[w] # <<>> =>
           job'[w] = job[w] /\ at'[w] \in {"resolve", "release_waiter", "promote"},
         \A d \in Docs : Runnable(d)' => Runnable(d),
         at'[w] # "process",
         \A c \in Contents : cache'[c] \in {cache[c], Null, c}
  PROVE  Ownership'
<1>1. IsInjective(popped'[w]) /\ Range(popped'[w]) \subseteq Range(popped[w])
  BY RangeEmpty DEF Ownership, WorkerOwnership
<1>2. AttemptsBounded'
  BY DEF Ownership, AttemptsBounded, Status
<1> QED BY <1>1, <1>2, WorkerOwned

(* A job ends: w holds nothing any more.  The document it had may have changed. *)
LEMMA EndJobStep ==
  ASSUME TypeOK, NEW w \in Workers, EndJob(w), UNCHANGED <<requestVars, waiters>>,
         \A v \in Workers \ {w} : retries'[v] = retries[v]
  PROVE  /\ WorkerStep(w) /\ popped'[w] = <<>>
         /\ at'[w] \in {"poll", "drain"}
BY DEF EndJob, ForgetJob, Step, WorkerStep, TypeOK

(* The queue as a set of ids. *)
LEMMA QueueSteps ==
  ASSUME TypeOK, NEW d \in Docs
  PROVE  /\ Enqueue(d) => Range(queue') = Range(queue) \cup {d}
         /\ EnqueueRaises(d) => Range(queue') \subseteq Range(queue) \cup {d}
         /\ Dequeue(d) => d \in Range(queue) /\ Range(queue') \subseteq Range(queue)
<1>1. Range(Append(queue, d)) = Range(queue) \cup {d}
  BY RangeAppend DEF TypeOK
<1>2. queue # <<>> => Range(queue) = {Head(queue)} \cup Range(Tail(queue))
  BY RangeHeadTail DEF TypeOK
<1> QED BY <1>1, <1>2 DEF Enqueue, EnqueueRaises, Dequeue

(* A worker that takes a job it was handed: the one step that claims. *)
LEMMA ClaimOwned ==
  ASSUME TypeOK, Ownership, NEW w \in Workers, Claim(w), UNCHANGED requestVars
  PROVE  Ownership'
<1>a. /\ at[w] = "claim" /\ job[w] \in Docs /\ popped[w] = <<>>
      /\ Runnable(job[w])
      /\ UNCHANGED <<cache, waiters, queue, retries>>
      /\ docs[job[w]].attempts \in Nat
  BY DocumentFields DEF Claim, JobRaises, TypeOK, Loop, Ownership, WorkerOwnership, Runnable,
       Taken, cacheVars
<1>b. ClaimForProcessing(job[w]) =>
        /\ Status(job[w]) = "queued"
        /\ docs'[job[w]].status = "processing"
        /\ docs'[job[w]].attempts = docs[job[w]].attempts + 1
        /\ \A d \in Docs \ {job[w]} : docs'[d] = docs[d]
  BY <1>a DEF ClaimForProcessing, TypeOK, DocumentInDB
<1>c. ClaimForProcessing(job[w]) => AttemptsBounded'
  BY <1>a, <1>b, WorkerAssumption DEF Ownership, AttemptsBounded, Status
<1>1. CASE EndJob(w)
  <2>1. WorkerStep(w) /\ popped'[w] = <<>> /\ at'[w] \in {"poll", "drain"}
    BY <1>a, <1>1, EndJobStep
  <2>2. \A d \in Docs : Runnable(d)' => Runnable(d)
    BY <1>a, <2>1, RunnableKept DEF Runnable, Backing
  <2>3. ClaimForProcessing(job[w]) \/ UNCHANGED docs
    BY DEF Claim, ClaimMatchesNothing, JobRaises, MongoRaises
  <2>4. CASE UNCHANGED docs
    BY <1>a, <2>1, <2>2, <2>4, QuietWorkerOwned
  <2>5. CASE ClaimForProcessing(job[w])
    <3>1. \A d \in Docs : docs'[d] = docs[d] \/ d = job[w]
      BY <1>b, <2>5
    <3>2. Status(job[w]) # "processing"
      BY <1>b, <2>5
    <3> QED BY <1>a, <1>c, <2>1, <2>2, <2>5, <3>1, <3>2, RangeEmpty, WorkerOwned
  <2> QED BY <2>3, <2>4, <2>5
<1>2. CASE ClaimForProcessing(job[w]) /\ Step(w, "process") /\ ~EndJob(w)
  <2>1. /\ at' = [at EXCEPT ![w] = "process"]
        /\ attempt' = [attempt EXCEPT ![w] = docs'[job[w]].attempts]
        /\ UNCHANGED <<job, popped>>
    BY <1>2 DEF Claim, Step, JobRaises
  <2>2. WorkerStep(w)
    BY <1>a, <2>1 DEF WorkerStep, TypeOK
  <2>3. at'[w] = "process" /\ attempt'[w] = docs'[job[w]].attempts
    BY <2>1 DEF TypeOK
  <2>4. \A d \in Docs : Runnable(d)' => Runnable(d)
    BY <1>a, <2>2, <2>3, RunnableKept DEF Runnable, Backing
  <2>5. OwnersKnown'
    <3>1. \A d \in Docs : docs'[d] = docs[d] \/ Runnable(d)
      BY <1>a, <1>b, <1>2
    <3> QED BY <1>a, <2>1, <2>2, <2>4, <3>1, RangeEmpty, WorkerKeepsOwners
            DEF Ownership, OwnersKnown
  <2>6. ExclusiveClaim'
    <3>1. ASSUME NEW v \in Workers, v # w, at'[v] = "process"
          PROVE  /\ at[v] = "process" /\ job'[v] = job[v] /\ attempt'[v] = attempt[v]
                 /\ job[v] # job[w] /\ job[v] \in Docs /\ docs'[job[v]] = docs[job[v]]
      <4>1. at[v] = "process" /\ job'[v] = job[v] /\ attempt'[v] = attempt[v]
        BY <2>2, <3>1 DEF WorkerStep
      <4>2. job[v] \in Docs /\ Status(job[v]) = "processing"
        BY <4>1 DEF Ownership, ExclusiveClaim, TypeOK, Loop
      <4> QED BY <1>b, <1>2, <4>1, <4>2
    <3> QED BY <1>b, <1>2, <2>1, <2>3, <3>1 DEF Ownership, ExclusiveClaim, Status
  <2>7. SummariesMatch'
    BY <1>a, SummariesKept DEF Ownership, KeepsSummaries, requestVars
  <2> QED BY <1>c, <1>2, <2>5, <2>6, <2>7 DEF Ownership, OwnersKnown
<1> QED BY <1>1, <1>2 DEF Claim, JobRaises

(* The end of an attempt, whether it succeeds or fails: the document is the  *)
(* worker's alone, by the claim.                                             *)
LEMMA AttemptEndOwned ==
  ASSUME TypeOK, Ownership, NEW w \in Workers, UNCHANGED <<requestVars, waiters, cache, queue>>,
         ProcessingSucceeds(w) \/ ProcessingFails(w) \/ ProcessingFailsForGood(w)
  PROVE  Ownership'
<1>a. /\ at[w] = "process" /\ job[w] \in Docs /\ popped[w] = <<>>
      /\ Status(job[w]) = "processing" /\ docs[job[w]].attempts = attempt[w]
  BY DEF ProcessingSucceeds, ProcessingFails, ProcessingFailsForGood, TypeOK, Loop, Ownership,
         WorkerOwnership, ExclusiveClaim
<1>b. /\ \A d \in Docs \ {job[w]} : docs'[d] = docs[d]
      /\ docs'[job[w]].attempts = docs[job[w]].attempts
      /\ docs'[job[w]].status = "queued" => attempt[w] <= MaxRetries
  <2>1. \/ MarkCompleted(job[w], ContentOf[job[w]], FALSE) \/ MarkFailed(job[w])
        \/ Requeue(job[w]) /\ attempt[w] <= MaxRetries
        \/ UNCHANGED docs
    BY DEF ProcessingSucceeds, ProcessingFails, ProcessingFailsForGood, JobRaises, MongoRaises
  <2> QED BY <1>a, <2>1 DEF MarkCompleted, MarkFailed, Requeue, TypeOK, DocumentInDB, Status
<1>c. AttemptsBounded'
  BY <1>a, <1>b DEF Ownership, AttemptsBounded, Status
<1>1. WorkerStep(w) /\ popped'[w] = <<>> /\ at'[w] \notin {"process", "claim"}
  <2>0. \A v \in Workers \ {w} : retries'[v] = retries[v]
    BY DEF ProcessingSucceeds, ProcessingFails, ProcessingFailsForGood, JobRaises, TypeOK
  <2>1. CASE EndJob(w)
    BY <2>0, <2>1, EndJobStep
  <2>2. CASE ~EndJob(w)
    <3>1. /\ UNCHANGED localVars
          /\ Step(w, "release") \/ Step(w, "fail_release")
      BY <2>2 DEF ProcessingSucceeds, ProcessingFails, ProcessingFailsForGood, JobRaises
    <3> QED BY <1>a, <2>0, <3>1 DEF WorkerStep, Step, localVars, TypeOK
  <2> QED BY <2>1, <2>2
<1>2. \A d \in Docs \ {job[w]} : Runnable(d)' => Runnable(d)
  <2>1. \/ retries' = [retries EXCEPT ![w] = @ \cup {<<job[w], attempt[w]>>}]
        \/ UNCHANGED retries
    BY DEF ProcessingSucceeds, ProcessingFails, ProcessingFailsForGood, JobRaises
  <2>2. retries \in [Workers -> SUBSET (Docs \X Nat)]
    BY DEF TypeOK
  <2>3. \A t \in retries'[w] : t \in retries[w] \/ t = <<job[w], attempt[w]>>
    BY <2>1, <2>2
  <2> QED BY <1>1, <2>3, RunnableKept DEF Runnable, Backing
<1> QED BY <1>a, <1>b, <1>c, <1>1, <1>2, RangeEmpty, WorkerOwned

(* From a waiter list to the worker that popped it. *)
LEMMA TakeWaitersOwned ==
  ASSUME TypeOK, Ownership, NEW w \in Workers, NEW here \in {"pop", "fail_pop"},
         NEW next \in {"resolve", "promote"}, TakeWaiters(w, here, next),
         UNCHANGED requestVars
  PROVE  Ownership'
<1> DEFINE c == ContentOf[job[w]]
<1>a. /\ at[w] = here /\ job[w] \in Docs /\ c \in Contents /\ popped[w] = <<>>
      /\ UNCHANGED <<docs, queue, job, attempt, retries, request, found>>
      /\ at' = [at EXCEPT ![w] = next]
  BY EnvironmentAssumption
     DEF TakeWaiters, Step, TypeOK, Loop, Ownership, WorkerOwnership, requestVars
<1>b. PICK ids \in {waiters[c], <<>>} :
        PopWaiters(c, ids) /\ popped' = [popped EXCEPT ![w] = ids]
  BY DEF TakeWaiters
<1>c. /\ UNCHANGED cache
      /\ \/ ids = waiters[c] /\ waiters' = [waiters EXCEPT ![c] = <<>>]
         \/ ids = <<>> /\ waiters' = [waiters EXCEPT ![c] = <<>>]
         \/ ids = <<>> /\ waiters' = waiters
  BY <1>b DEF PopWaiters
<1>d. \A v \in Workers : popped'[v] = IF v = w THEN ids ELSE popped[v]
  BY <1>b DEF TypeOK
<1>e. /\ \A k \in Contents \ {c} : waiters'[k] = waiters[k]
      /\ waiters'[c] = <<>> \/ (ids = <<>> /\ waiters'[c] = waiters[c])
  <2>1. waiters \in [Contents -> Seq(Docs)]
    BY DEF TypeOK
  <2>2. CASE waiters' = [waiters EXCEPT ![c] = <<>>]
    BY <1>a, <2>1, <2>2
  <2>3. CASE ids = <<>> /\ waiters' = waiters
    BY <2>3
  <2> QED BY <1>c, <2>2, <2>3
<1>f. \A k \in Contents : Range(waiters[k]) \subseteq Docs
  BY RangeNonEmpty DEF TypeOK
<1>1. \A d \in Docs : Unstarted(d) => Unstarted(d)'
  BY <1>a DEF Unstarted, Runnable, Taken, Backing, TypeOK
<1>2. \A d \in Docs : Waiting(d)' => Waiting(d) /\ d \notin Range(ids)
  <2> SUFFICES ASSUME NEW d \in Docs, Waiting(d)' PROVE Waiting(d) /\ d \notin Range(ids)
    OBVIOUS
  <2>1. ContentOf[d] \in Contents
    BY EnvironmentAssumption
  <2>2. CASE ContentOf[d] = c
    BY <1>e, <2>2, RangeEmpty DEF Waiting
  <2>3. CASE ContentOf[d] # c
    <3>1. Waiting(d)
      BY <1>e, <2>1, <2>3 DEF Waiting
    <3>2. d \notin Range(waiters[c])
      BY <1>a, <2>3 DEF Ownership, WaiterOwnership
    <3> QED BY <3>1, <3>2, RangeEmpty
  <2> QED BY <2>2, <2>3
<1>3. \A d \in Docs : Popped(d)' => Popped(d) \/ d \in Range(ids)
  BY <1>d DEF Popped
<1>4. \A d \in Range(ids) : /\ d \in Docs /\ ContentOf[d] = c /\ Status(d) = "queued"
                            /\ Unstarted(d) /\ ~Popped(d) /\ Waiting(d)
  BY <1>a, <1>f, RangeEmpty DEF Ownership, WaiterOwnership, Waiting
<1>5. RequestOwnership'
  BY <1>a, <1>1, <1>2, <1>3, <1>4 DEF Ownership, RequestOwnership, Status
<1>6. WaiterOwnership'
  <2> SUFFICES ASSUME NEW k \in Contents
               PROVE  /\ IsInjective(waiters'[k])
                      /\ \A d \in Range(waiters'[k]) :
                           ContentOf[d] = k /\ Status(d)' = "queued" /\ Unstarted(d)' /\ ~Popped(d)'
    BY DEF WaiterOwnership
  <2>1. /\ waiters'[k] \in {waiters[k], <<>>}
    BY <1>e
  <2>2. IsInjective(waiters'[k])
    BY <2>1, RangeEmpty DEF Ownership, WaiterOwnership
  <2>3. ASSUME NEW d \in Range(waiters'[k])
        PROVE  ContentOf[d] = k /\ Status(d)' = "queued" /\ Unstarted(d)' /\ ~Popped(d)'
    <3>1. /\ d \in Range(waiters[k]) /\ d \in Docs
          /\ ContentOf[d] = k /\ Status(d) = "queued" /\ Unstarted(d) /\ ~Popped(d)
      BY <1>f, <2>1, RangeEmpty DEF Ownership, WaiterOwnership
    <3>2. d \notin Range(ids)
      BY <1>2, <2>3, <3>1 DEF Waiting
    <3> QED BY <1>a, <1>1, <1>3, <3>1, <3>2 DEF Status
  <2> QED BY <2>2, <2>3
<1>7. WorkerOwnership'
  <2>1. ASSUME NEW v \in Workers
        PROVE  /\ IsInjective(popped'[v])
               /\ at'[v] \notin {"resolve", "release_waiter", "promote"} => popped'[v] = <<>>
    <3>1. CASE v = w
      <4>1. IsInjective(ids)
        BY <1>a, RangeEmpty DEF Ownership, WaiterOwnership
      <4> QED BY <1>a, <1>d, <3>1, <4>1 DEF TypeOK
    <3>2. CASE v # w
      BY <1>a, <1>d, <3>2 DEF Ownership, WorkerOwnership, TypeOK
    <3> QED BY <3>1, <3>2
  <2>2. ASSUME NEW v \in Workers, NEW d \in Range(popped'[v])
        PROVE  /\ ContentOf[d] = ContentOf[job'[v]] /\ Status(d)' = "queued" /\ Unstarted(d)'
               /\ \A u \in Workers : d \in Range(popped'[u]) => u = v
    <3>1. CASE v = w
      <4>1. d \in Range(ids)
        BY <1>d, <2>2, <3>1
      <4> QED BY <1>a, <1>d, <1>1, <1>4, <3>1, <4>1 DEF Popped, Status
    <3>2. CASE v # w
      <4>1. /\ d \in Range(popped[v])
            /\ ContentOf[d] = ContentOf[job[v]] /\ Status(d) = "queued" /\ Unstarted(d)
            /\ \A u \in Workers : d \in Range(popped[u]) => u = v
        BY <1>d, <2>2, <3>2 DEF Ownership, WorkerOwnership
      <4>2. d \in Docs
        BY <4>1, RangeNonEmpty DEF TypeOK
      <4>3. d \notin Range(ids)
        BY <1>4, <4>1 DEF Popped
      <4> QED BY <1>a, <1>d, <1>1, <3>2, <4>1, <4>2, <4>3 DEF Status
    <3> QED BY <3>1, <3>2
  <2> QED BY <2>1, <2>2 DEF WorkerOwnership
<1>8. ExclusiveClaim'
  BY <1>a, ClaimsKept DEF Ownership, KeepsClaims, TypeOK
<1>9. AttemptsBounded' /\ SummariesMatch'
  BY <1>a, <1>c DEF Ownership, AttemptsBounded, SummariesMatch, Status
<1> QED BY <1>5, <1>6, <1>7, <1>8, <1>9 DEF Ownership

LEMMA CompletedEffect ==
  ASSUME docs \in [Docs -> DocumentInDB], NEW d \in Docs, NEW m, NEW c, MarkCompleted(d, m, c)
  PROVE  /\ \A e \in Docs \ {d} : docs'[e] = docs[e]
         /\ docs'[d] = [docs[d] EXCEPT !.status = "completed", !.summary = m,
                                       !.error = FALSE, !.cached = c]
         /\ docs'[d].status = "completed" /\ docs'[d].attempts = docs[d].attempts
         /\ docs'[d].summary = m /\ docs'[d].error = FALSE /\ docs'[d].cached = c
BY DEF MarkCompleted, DocumentInDB

(* A popped waiter is completed, and no longer the worker's. *)
LEMMA ResolveWaiterOwned ==
  ASSUME TypeOK, Ownership, NEW w \in Workers, ResolveWaiter(w), UNCHANGED requestVars
  PROVE  Ownership'
<1> DEFINE d == Head(popped[w])
<1>a. /\ at[w] = "resolve" /\ popped[w] # <<>>
      /\ UNCHANGED <<waiters, cache, queue, retries>>
      /\ MarkCompleted(d, ContentOf[job[w]], TRUE) \/ UNCHANGED docs
  BY DEF ResolveWaiter, JobRaises, MongoRaises, cacheVars
<1>b. /\ Range(popped[w]) = {d} \cup Range(Tail(popped[w]))
      /\ d \in Docs /\ IsInjective(Tail(popped[w])) /\ d \notin Range(Tail(popped[w]))
  BY <1>a, RangeHeadTail DEF TypeOK, Ownership, WorkerOwnership
<1>c. Status(d) = "queued"
  BY <1>b DEF Ownership, WorkerOwnership
<1>d. /\ \A e \in Docs \ {d} : docs'[e] = docs[e]
      /\ docs'[d].attempts = docs[d].attempts
      /\ docs'[d].status = "queued" => docs[d].status = "queued"
  BY <1>a, <1>b, CompletedEffect DEF TypeOK
<1>1. AttemptsBounded'
  BY <1>d, AttemptsKept DEF Ownership, KeepsAttempts
<1>2. CASE EndJob(w)
  <2>1. WorkerStep(w) /\ popped'[w] = <<>> /\ at'[w] \in {"poll", "drain"}
    BY <1>a, <1>2, EndJobStep
  <2>2. \A e \in Docs : Runnable(e)' => Runnable(e)
    BY <1>a, <2>1, RunnableKept DEF Runnable, Backing
  <2> QED BY <1>a, <1>b, <1>c, <1>d, <1>1, <2>1, <2>2, RangeEmpty, WorkerOwned
<1>3. CASE ~EndJob(w)
  <2>1. /\ at' = [at EXCEPT ![w] = "release_waiter"]
        /\ popped' = [popped EXCEPT ![w] = Tail(popped[w])]
        /\ UNCHANGED <<job, attempt>>
    BY <1>3 DEF ResolveWaiter, JobRaises, Step
  <2>2. WorkerStep(w) /\ popped'[w] = Tail(popped[w]) /\ at'[w] = "release_waiter"
    BY <1>a, <2>1 DEF WorkerStep, TypeOK
  <2>3. \A e \in Docs : Runnable(e)' => Runnable(e)
    BY <1>a, <2>2, RunnableKept DEF Runnable, Backing
  <2> QED BY <1>a, <1>b, <1>c, <1>d, <1>1, <2>1, <2>2, <2>3, WorkerOwned
<1> QED BY <1>2, <1>3

(* A popped waiter goes to the queue, and is no longer the worker's. *)
LEMMA PromoteWaiterOwned ==
  ASSUME TypeOK, Ownership, NEW w \in Workers, PromoteWaiter(w), UNCHANGED requestVars
  PROVE  Ownership'
<1> DEFINE d == Head(popped[w])
<1>a. /\ at[w] = "promote" /\ popped[w] # <<>>
      /\ UNCHANGED <<docs, waiters, cache, retries>>
  BY DEF PromoteWaiter, cacheVars
<1>b. /\ Range(popped[w]) = {d} \cup Range(Tail(popped[w]))
      /\ d \in Docs /\ IsInjective(Tail(popped[w])) /\ d \notin Range(Tail(popped[w]))
  BY <1>a, RangeHeadTail DEF TypeOK, Ownership, WorkerOwnership
<1>c. Range(queue') \subseteq Range(queue) \cup {d}
  BY <1>b, QueueSteps DEF PromoteWaiter
<1>1. AttemptsBounded'
  BY <1>a DEF Ownership, AttemptsBounded, Status
<1>2. CASE EndJob(w)
  <2>1. WorkerStep(w) /\ popped'[w] = <<>> /\ at'[w] \in {"poll", "drain"}
    BY <1>a, <1>2, EndJobStep
  <2>2. \A e \in Docs \ {d} : Runnable(e)' => Runnable(e)
    BY <1>a, <1>c, <2>1, RunnableKept DEF Runnable, Backing
  <2> QED BY <1>a, <1>b, <1>1, <2>1, <2>2, RangeEmpty, WorkerOwned
<1>3. CASE ~EndJob(w)
  <2>1. popped' = [popped EXCEPT ![w] = Tail(popped[w])] /\ UNCHANGED <<at, job, attempt>>
    BY <1>3 DEF PromoteWaiter
  <2>2. WorkerStep(w) /\ popped'[w] = Tail(popped[w]) /\ at'[w] = "promote"
    BY <1>a, <2>1 DEF WorkerStep, TypeOK
  <2>3. \A e \in Docs \ {d} : Runnable(e)' => Runnable(e)
    BY <1>a, <1>c, <2>2, RunnableKept DEF Runnable, Backing
  <2> QED BY <1>a, <1>b, <1>1, <2>1, <2>2, <2>3, WorkerOwned
<1> QED BY <1>2, <1>3

(* A quiet step that moves w on within its job: nothing but at changes of it. *)
LEMMA QuietStepOwned ==
  ASSUME TypeOK, Ownership, NEW w \in Workers, NEW next, Step(w, next),
         next \notin {"process", "claim"},
         UNCHANGED <<docs, queue, waiters, requestVars, job, attempt, popped, retries>>,
         popped[w] # <<>> => next \in {"resolve", "release_waiter", "promote"},
         \A c \in Contents : cache'[c] \in {cache[c], Null, c}
  PROVE  Ownership'
<1>1. WorkerStep(w) /\ at'[w] = next
  BY DEF WorkerStep, Step, TypeOK
<1>2. \A d \in Docs : Runnable(d)' => Runnable(d)
  BY <1>1, RunnableKept DEF Runnable, Backing
<1> QED BY <1>1, <1>2, QuietWorkerOwned

(* A quiet step that ends the job. *)
LEMMA QuietEndOwned ==
  ASSUME TypeOK, Ownership, NEW w \in Workers, EndJob(w),
         UNCHANGED <<docs, queue, waiters, requestVars, retries, cache>>
  PROVE  Ownership'
<1>1. WorkerStep(w) /\ popped'[w] = <<>> /\ at'[w] \in {"poll", "drain"}
  BY EndJobStep
<1>2. \A d \in Docs : Runnable(d)' => Runnable(d)
  BY <1>1, RunnableKept DEF Runnable, Backing
<1> QED BY <1>1, <1>2, QuietWorkerOwned

LEMMA WorkOwned ==
  ASSUME TypeOK, Ownership, NEW w \in Workers, Work(w), UNCHANGED requestVars
  PROVE  Ownership'
<1>a. /\ at[w] \notin {"resolve", "release_waiter", "promote"} => popped[w] = <<>>
      /\ at[w] \notin Loop => job[w] \in Docs /\ ContentOf[job[w]] \in Contents
      /\ Loop = {"poll", "drain", "stopped"}
  BY EnvironmentAssumption DEF Ownership, WorkerOwnership, TypeOK, Loop
<1>1. CASE Poll(w)
  <2>1. PICK d \in Docs : Dequeue(d) /\ job' = [job EXCEPT ![w] = d]
    BY <1>1 DEF Poll
  <2>2. /\ d \in Range(queue) /\ Range(queue') \subseteq Range(queue)
        /\ UNCHANGED <<docs, cache, waiters, attempt, popped, retries>>
        /\ at' = [at EXCEPT ![w] = "claim"]
    BY <1>1, <2>1, QueueSteps DEF Poll, Step, cacheVars
  <2>3. WorkerStep(w) /\ at'[w] = "claim" /\ job'[w] = d /\ popped'[w] = <<>>
    BY <1>a, <1>1, <2>1, <2>2 DEF WorkerStep, TypeOK, Poll
  <2>4. \A e \in Docs : Runnable(e)' => Runnable(e)
    BY <2>2, <2>3, RunnableKept DEF Runnable, Backing
  <2> QED BY <2>2, <2>3, <2>4, QuietWorkerOwned
<1>2. CASE LeaveLoop(w)
  BY <1>a, <1>2, QuietStepOwned DEF LeaveLoop, localVars, cacheVars
<1>3. CASE Claim(w)
  BY <1>3, ClaimOwned
<1>4. CASE ProcessingSucceeds(w) \/ ProcessingFails(w) \/ ProcessingFailsForGood(w)
  <2>1. UNCHANGED <<waiters, cache, queue>>
    BY <1>4 DEF ProcessingSucceeds, ProcessingFails, ProcessingFailsForGood, cacheVars
  <2> QED BY <1>4, <2>1, AttemptEndOwned
<1>5. CASE \/ ReleaseJobSlot(w, "release", "cache")
           \/ ReleaseJobSlot(w, "fail_release", "fail_unlock")
  BY <1>a, <1>5, QuietStepOwned DEF ReleaseJobSlot, localVars, cacheVars
<1>6. CASE CacheResult(w)
  <2>1. \A c \in Contents : cache'[c] \in {cache[c], Null, c}
    BY <1>a, <1>6 DEF CacheResult, CacheSet, TypeOK
  <2> QED BY <1>a, <1>6, <2>1, QuietStepOwned DEF CacheResult, CacheSet, localVars
<1>7. CASE TakeWaiters(w, "pop", "resolve") \/ TakeWaiters(w, "fail_pop", "promote")
  BY <1>7, TakeWaitersOwned
<1>8. CASE ResolveWaiter(w)
  BY <1>8, ResolveWaiterOwned
<1>9. CASE ReleaseWaiterSlot(w)
  BY <1>9, QuietStepOwned DEF ReleaseWaiterSlot, cacheVars
<1>10. CASE FinishSuccess(w)
  BY <1>10, QuietEndOwned DEF FinishSuccess, ReleaseProcessingLock
<1>11. CASE UnlockAfterFailure(w)
  BY <1>a, <1>11, QuietStepOwned DEF UnlockAfterFailure, ReleaseProcessingLock, localVars
<1>12. CASE PromoteWaiter(w)
  BY <1>12, PromoteWaiterOwned
<1>13. CASE FinishFailure(w)
  BY <1>13, QuietEndOwned DEF FinishFailure, cacheVars
<1> QED
  BY <1>1, <1>2, <1>3, <1>4, <1>5, <1>6, <1>7, <1>8, <1>9, <1>10, <1>11, <1>12, <1>13
     DEF Work

LEMMA DiesOwned ==
  ASSUME TypeOK, Ownership, NEW w \in Workers, Dies(w), UNCHANGED requestVars,
         Range(queue') \subseteq Range(queue)
  PROVE  Ownership'
<1>1. /\ WorkerStep(w) /\ at'[w] = "stopped" /\ popped'[w] = <<>> /\ retries'[w] = {}
      /\ UNCHANGED <<docs, waiters, cache>>
  BY DEF Dies, ForgetJob, Step, WorkerStep, TypeOK, cacheVars
<1>2. \A d \in Docs : Runnable(d)' => Runnable(d)
  BY <1>1, RunnableKept DEF Runnable
<1> QED BY <1>1, <1>2, QuietWorkerOwned

(* A step that touches neither the collection nor the workers' places: requests   *)
(* may be dropped, keys may expire, and what was handed out may be queued again.  *)
LEMMA RestOwned ==
  ASSUME TypeOK, Ownership, UNCHANGED <<docs, at, job, attempt, popped, found>>,
         \A d \in Docs : request'[d] \in {request[d], "aborted"},
         \A c \in Contents : /\ waiters'[c] \in {waiters[c], <<>>}
                             /\ cache'[c] \in {cache[c], Null},
         \A d \in Docs : Runnable(d)' => Runnable(d) \/ docs[d].attempts > 0
  PROVE  Ownership'
<1>1. "aborted" \notin Unstored \cup Stored
  BY DEF Unstored, Stored
<1>2. \A d \in Docs : (Waiting(d)' => Waiting(d)) /\ (Popped(d)' <=> Popped(d))
  BY RangeEmpty, EnvironmentAssumption DEF Waiting, Popped
<1>3. \A d \in Docs : Guarded(d)' => docs[d].attempts = 0
  BY <1>1, <1>2, EnvironmentAssumption
     DEF Guarded, Ownership, RequestOwnership, WaiterOwnership, WorkerOwnership, Waiting,
         Popped, Unstarted
<1>4. KeepsOwners
  <2>1. ASSUME NEW d \in Docs
        PROVE  /\ request'[d] \in Unstored => request[d] \in Unstored
               /\ request'[d] \in Stored => request[d] \in Stored
               /\ Guarded(d)' => docs'[d] = docs[d] /\ (Runnable(d)' => Runnable(d))
    BY <1>1, <1>3
  <2>2. \A c \in Contents : /\ IsInjective(waiters[c]) => IsInjective(waiters'[c])
                            /\ Range(waiters'[c]) \subseteq Range(waiters[c])
    BY RangeEmpty
  <2>3. \A v \in Workers :
          popped[v] # <<>> => at[v] \in {"resolve", "release_waiter", "promote"}
    BY DEF Ownership, WorkerOwnership
  <2> QED BY <2>1, <2>2, <2>3 DEF KeepsOwners
<1>5. OwnersKnown'
  BY <1>4, OwnersKept DEF Ownership, OwnersKnown
<1>6. ExclusiveClaim' /\ AttemptsBounded' /\ SummariesMatch'
  BY DEF Ownership, ExclusiveClaim, AttemptsBounded, SummariesMatch, Status
<1> QED BY <1>5, <1>6 DEF Ownership, OwnersKnown

LEMMA SuperviseOwned ==
  ASSUME TypeOK, Ownership, NEW w \in Workers, UNCHANGED requestVars,
         RetryFires(w) \/ Drained(w) \/ SigTerm(w) \/ WorkerCrash(w)
           \/ PollRaises(w) \/ Restart(w)
  PROVE  Ownership'
<1>a. /\ at[w] \notin {"resolve", "release_waiter", "promote"} => popped[w] = <<>>
      /\ at[w] = "process" => Status(job[w]) = "processing"
  BY DEF Ownership, WorkerOwnership, ExclusiveClaim
<1>1. CASE RetryFires(w)
  <2>1. PICK t \in retries[w] :
          /\ Enqueue(t[1]) \/ EnqueueRaises(t[1])
          /\ retries' = [retries EXCEPT ![w] = @ \ {t}]
    BY <1>1 DEF RetryFires
  <2>2. retries \in [Workers -> SUBSET (Docs \X Nat)]
    BY DEF TypeOK
  <2>3. t[1] \in Docs /\ Range(queue') \subseteq Range(queue) \cup {t[1]}
    <3>1. t[1] \in Docs
      BY <2>2
    <3> QED BY <2>1, <3>1, QueueSteps
  <2>4. retries'[w] \subseteq retries[w] /\ \A v \in Workers \ {w} : retries'[v] = retries[v]
    BY <2>1, <2>2
  <2>5. UNCHANGED <<docs, cache, waiters, at, job, attempt, popped, found, request>>
    BY <1>1 DEF RetryFires, cacheVars, localVars, requestVars
  <2>6. \A d \in Docs : Runnable(d)' => Runnable(d)
    BY <2>1, <2>3, <2>4, <2>5 DEF Runnable, Taken, Backing
  <2> QED BY <2>5, <2>6, RestOwned
<1>2. CASE Drained(w)
  BY <1>a, <1>2, QuietStepOwned DEF Drained, localVars, cacheVars
<1>3. CASE SigTerm(w)
  <2>1. UNCHANGED <<docs, queue, cache, waiters, at, job, attempt, popped, retries, found, request>>
    BY <1>3 DEF SigTerm, cacheVars, localVars, requestVars
  <2>2. \A d \in Docs : Runnable(d)' => Runnable(d)
    BY <2>1 DEF Runnable, Taken, Backing
  <2> QED BY <2>1, <2>2, RestOwned
<1>4. CASE WorkerCrash(w)
  BY <1>4, DiesOwned DEF WorkerCrash
<1>5. CASE PollRaises(w)
  <2>1. Range(queue') \subseteq Range(queue)
    BY <1>5, QueueSteps DEF PollRaises, DequeueRaises
  <2> QED BY <1>5, <2>1, DiesOwned DEF PollRaises
<1>6. CASE Restart(w)
  BY <1>a, <1>6, QuietStepOwned DEF Restart, localVars, cacheVars
<1> QED BY <1>1, <1>2, <1>3, <1>4, <1>5, <1>6
-----------------------------------------------------------------------------
LEMMA InitOwned == Init => Ownership
<1> SUFFICES ASSUME Init PROVE Ownership
  OBVIOUS
<1> USE RangeEmpty DEF Init
<1>1. \A d \in Docs : ~Waiting(d) /\ ~Popped(d) /\ ~Runnable(d)
  BY EnvironmentAssumption
     DEF CacheInit, WorkerInit, QueueInit, Waiting, Popped, Runnable, Taken, Backing
<1>2. \A d \in Docs : docs[d] = NoDocument /\ request[d] = "new" /\ found[d] = Null
  BY DEF RepositoryInit, ServiceInit
<1>3. RequestOwnership
  <2>1. NoDocument.attempts = 0
    BY DEF NoDocument
  <2>2. "new" \notin Stored
    BY DEF Stored
  <2> QED BY <1>1, <1>2, <2>1, <2>2 DEF RequestOwnership, Unstarted
<1>4. WaiterOwnership /\ WorkerOwnership /\ ExclusiveClaim
  BY DEF CacheInit, WorkerInit, WaiterOwnership, WorkerOwnership, ExclusiveClaim
<1>5. AttemptsBounded /\ SummariesMatch
  BY <1>2, WorkerAssumption
     DEF CacheInit, AttemptsBounded, SummariesMatch, Status, NoDocument
<1> QED BY <1>3, <1>4, <1>5 DEF Ownership

LEMMA NextOwned == TypeOK /\ Ownership /\ [Next]_vars => Ownership'
<1> SUFFICES ASSUME TypeOK, Ownership, [Next]_vars PROVE Ownership'
  OBVIOUS
<1>1. ASSUME NEW d \in Docs, Request(d) PROVE Ownership'
  BY <1>1, RequestOwned DEF Request
<1>2. ASSUME NEW w \in Workers, MainLoop(w) \/ Backoff(w) \/ Supervise(w) PROVE Ownership'
  BY <1>2, WorkOwned, SuperviseOwned DEF MainLoop, Backoff, Supervise
<1>3. CASE ApiCrash /\ UNCHANGED workerVars
  <2>1. /\ UNCHANGED <<docs, queue, cache, waiters, at, job, attempt, popped, retries, found>>
        /\ \A d \in Docs : request'[d] \in {request[d], "aborted"}
    BY <1>3 DEF ApiCrash, storeVars, cacheVars, workerVars, localVars
  <2>2. \A d \in Docs : Runnable(d)' => Runnable(d)
    BY <2>1 DEF Runnable, Taken, Backing
  <2> QED BY <2>1, <2>2, RestOwned
<1>4. CASE Expire
  <2>1. UNCHANGED <<docs, queue, at, job, attempt, popped, retries, found, request>>
    BY <1>4 DEF Expire, requestVars, workerVars, localVars
  <2>2. \A c \in Contents : waiters'[c] \in {waiters[c], <<>>} /\ cache'[c] \in {cache[c], Null}
    BY <1>4 DEF Expire, ExpireCache, ExpireLock, ExpireWaiters, cacheVars, TypeOK
  <2>3. \A d \in Docs : Runnable(d)' => Runnable(d)
    BY <2>1 DEF Runnable, Taken, Backing
  <2> QED BY <2>1, <2>2, <2>3, RestOwned
<1>5. ASSUME NEW d \in Docs, Redeliver(d) PROVE Ownership'
  <2>1. /\ UNCHANGED <<docs, cache, waiters, at, job, attempt, popped, retries, found, request>>
        /\ Range(queue') = Range(queue) \cup {d}
        /\ d \in Range(queue) \/ docs[d].attempts > 0
    BY <1>5, QueueSteps DEF Redeliver, cacheVars, requestVars, workerVars, localVars
  <2>2. \A e \in Docs : Runnable(e)' => Runnable(e) \/ docs[e].attempts > 0
    BY <2>1 DEF Runnable, Taken, Backing
  <2> QED BY <2>1, <2>2, RestOwned
<1>6. CASE UNCHANGED vars
  <2>1. UNCHANGED <<docs, queue, cache, waiters, at, job, attempt, popped, retries, found, request>>
    BY <1>6 DEF vars, storeVars, cacheVars, requestVars, workerVars, localVars
  <2>2. \A d \in Docs : Runnable(d)' => Runnable(d)
    BY <2>1 DEF Runnable, Taken, Backing
  <2> QED BY <2>1, <2>2, RestOwned
<1> QED BY <1>1, <1>2, <1>3, <1>4, <1>5, <1>6 DEF Next

(* Every document is, at any time and under every fault, its request's, its text's *)
(* waiter list's, one worker's or nobody's: see Ownership.                          *)
THEOREM OwnershipHolds == Spec => []Ownership
<1>1. Init => TypeOK /\ Ownership
  BY InitTyped, InitOwned
<1>2. TypeOK /\ Ownership /\ [Next]_vars => (TypeOK /\ Ownership)'
  BY NextTyped, NextOwned
<1> QED BY <1>1, <1>2, PTL DEF Spec

(* Two workers never process one document at a time, whatever is delivered twice,  *)
(* lost, expired or killed, and the one that does still finds it as it claimed it. *)
THEOREM ClaimsAreExclusive == Spec => []ExclusiveClaim
<1>1. Ownership => ExclusiveClaim
  BY DEF Ownership
<1> QED BY <1>1, OwnershipHolds, PTL
=============================================================================
