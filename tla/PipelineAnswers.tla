-------------------------- MODULE PipelineAnswers ---------------------------
(***************************************************************************)
(* What the collection goes through, and what a client is told of it.      *)
(*                                                                         *)
(* First, the service implements DocumentLifecycle: each step of it is a   *)
(* move of one document in the lifecycle, or changes none.  Then, what a   *)
(* client was told stays what the collection holds.                        *)
(***************************************************************************)
EXTENDS PipelineSteps, Lookup

(* The collection as the lifecycle sees it. *)
Phase == [d \in Docs |-> docs[d].status]
Tries == [d \in Docs |-> docs[d].attempts]
Results == [d \in Docs |-> Result(d)]

LEMMA ResultCases ==
  ASSUME NEW d \in Docs
  PROVE  /\ docs[d].error = TRUE => Result(d) = "error"
         /\ docs[d].error = FALSE /\ docs[d].summary = Null => Result(d) = "none"
         /\ docs[d].error = FALSE /\ docs[d].summary = ContentOf[d] /\ docs[d].cached = TRUE
              => Result(d) = "shared"
         /\ docs[d].error = FALSE /\ docs[d].summary = ContentOf[d] /\ docs[d].cached = FALSE
              => Result(d) = "fresh"
<1>1. ContentOf[d] # Null
  BY EnvironmentAssumption
<1> QED BY <1>1 DEF Result

LEMMA ResultCasesNext ==
  ASSUME NEW d \in Docs
  PROVE  /\ docs'[d].error = TRUE => Result(d)' = "error"
         /\ docs'[d].error = FALSE /\ docs'[d].summary = Null => Result(d)' = "none"
         /\ docs'[d].error = FALSE /\ docs'[d].summary = ContentOf[d] /\ docs'[d].cached = TRUE
              => Result(d)' = "shared"
         /\ docs'[d].error = FALSE /\ docs'[d].summary = ContentOf[d] /\ docs'[d].cached = FALSE
              => Result(d)' = "fresh"
<1>1. ContentOf[d] # Null
  BY EnvironmentAssumption
<1> QED BY <1>1 DEF Result

(* Only document d changed, and what of it did not. *)
LEMMA OneDocument ==
  ASSUME NEW d \in Docs, \A e \in Docs \ {d} : docs'[e] = docs[e]
  PROVE  /\ Phase[d] = docs[d].status
         /\ Phase' = [Phase EXCEPT ![d] = docs'[d].status]
         /\ Tries' = [Tries EXCEPT ![d] = docs'[d].attempts]
         /\ Results' = [Results EXCEPT ![d] = Result(d)']
         /\ docs'[d].attempts = docs[d].attempts => Tries' = Tries
         /\ Result(d)' = Result(d) => Results' = Results
<1>1. \A e \in Docs \ {d} : Result(e)' = Result(e)
  BY DEF Result
<1> QED BY <1>1 DEF Phase, Tries, Results

(* The lifecycle's moves in terms of the collection. *)
LEMMA MoveOfLifecycle ==
  ASSUME NEW d \in Docs, NEW from, NEW to, Phase[d] = from, Phase' = [Phase EXCEPT ![d] = to]
  PROVE  Lifecycle!Move(d, from, to)
BY DEF Lifecycle!Move, Phase

LEMMA GetsOfLifecycle ==
  ASSUME NEW d \in Docs, NEW r, Results' = [Results EXCEPT ![d] = r]
  PROVE  Lifecycle!Gets(d, r)
BY DEF Lifecycle!Gets, Results
-----------------------------------------------------------------------------
(* The repository's updates as moves. *)

LEMMA InsertMoves ==
  ASSUME TypeOK, NEW d \in Docs, docs[d] = NoDocument,
         \/ Insert(d, "queued", Null, FALSE)
         \/ Insert(d, "completed", ContentOf[d], TRUE)
  PROVE  Lifecycle!Next
<1>1. \A e \in Docs \ {d} : docs'[e] = docs[e]
  BY DEF Insert, TypeOK
<1>0. /\ NoDocument.status = "absent" /\ NoDocument.attempts = 0
      /\ NoDocument.error = FALSE /\ NoDocument.summary = Null
  BY DEF NoDocument
<1>2. /\ docs[d].status = "absent" /\ docs[d].attempts = 0 /\ Result(d) = "none"
  BY <1>0, ResultCases
<1>3. CASE Insert(d, "queued", Null, FALSE)
  <2>1. /\ docs'[d].status = "queued" /\ docs'[d].attempts = 0
        /\ docs'[d].error = FALSE /\ docs'[d].summary = Null
    BY <1>3 DEF Insert, TypeOK
  <2>2. Result(d)' = "none"
    BY <2>1, ResultCasesNext
  <2>3. Lifecycle!Move(d, "absent", "queued")
    BY <1>1, <1>2, <2>1, OneDocument, MoveOfLifecycle, GetsOfLifecycle
  <2>4. Tries' = Tries /\ Results' = Results
    BY <1>1, <1>2, <2>1, <2>2, OneDocument
  <2>5. Lifecycle!Create(d)
    BY <2>3, <2>4 DEF Lifecycle!Create, Tries, Results
  <2> QED BY <2>5 DEF Lifecycle!Next, Lifecycle!Live
<1>4. CASE Insert(d, "completed", ContentOf[d], TRUE)
  <2>1. /\ docs'[d].status = "completed" /\ docs'[d].attempts = 0
        /\ docs'[d].error = FALSE /\ docs'[d].summary = ContentOf[d] /\ docs'[d].cached = TRUE
    BY <1>4 DEF Insert, TypeOK
  <2>2. Result(d)' = "shared"
    BY <2>1, ResultCasesNext
  <2>3. Lifecycle!Move(d, "absent", "completed") /\ Lifecycle!Gets(d, "shared")
    BY <1>1, <1>2, <2>1, <2>2, OneDocument, MoveOfLifecycle, GetsOfLifecycle
  <2>4. Tries' = Tries
    BY <1>1, <1>2, <2>1, OneDocument
  <2>5. Lifecycle!CreateServed(d)
    BY <2>3, <2>4 DEF Lifecycle!CreateServed, Tries
  <2> QED BY <2>5 DEF Lifecycle!Next, Lifecycle!Live
<1> QED BY <1>3, <1>4

LEMMA ClaimMoves ==
  ASSUME TypeOK, AttemptsBounded, NEW d \in Docs, ClaimForProcessing(d)
  PROVE  Lifecycle!Next
<1>1. /\ \A e \in Docs \ {d} : docs'[e] = docs[e]
      /\ docs'[d] = [docs[d] EXCEPT !.status = "processing", !.attempts = @ + 1]
  BY DEF ClaimForProcessing, TypeOK
<1>2. /\ docs[d].status = "queued" /\ docs[d].attempts <= MaxRetries
      /\ docs'[d].status = "processing" /\ docs'[d].attempts = docs[d].attempts + 1
      /\ docs'[d].error = docs[d].error /\ docs'[d].summary = docs[d].summary
      /\ docs'[d].cached = docs[d].cached
  BY <1>1 DEF ClaimForProcessing, Status, AttemptsBounded, TypeOK, DocumentInDB
<1>3. Result(d)' = Result(d)
  BY <1>2 DEF Result
<1>4. Lifecycle!Move(d, "queued", "processing")
  BY <1>1, <1>2, OneDocument, MoveOfLifecycle, GetsOfLifecycle
<1>5. /\ Tries[d] = docs[d].attempts /\ Results' = Results
      /\ Tries' = [Tries EXCEPT ![d] = docs[d].attempts + 1]
  BY <1>1, <1>2, <1>3, OneDocument DEF Tries
<1>6. Lifecycle!Start(d)
  BY <1>2, <1>4, <1>5 DEF Lifecycle!Start, Tries, Results
<1> QED BY <1>6 DEF Lifecycle!Next, Lifecycle!Live

LEMMA ServeMoves ==
  ASSUME TypeOK, NEW d \in Docs, Status(d) = "queued", docs[d].attempts = 0,
         MarkCompleted(d, ContentOf[d], TRUE)
  PROVE  Lifecycle!Next
<1>1. /\ \A e \in Docs \ {d} : docs'[e] = docs[e]
      /\ docs'[d].status = "completed" /\ docs'[d].attempts = docs[d].attempts
      /\ docs'[d].summary = ContentOf[d] /\ docs'[d].error = FALSE /\ docs'[d].cached = TRUE
  <2>1. docs \in [Docs -> DocumentInDB]
    BY DEF TypeOK
  <2> QED BY <2>1, CompletedEffect
<1>2. Result(d)' = "shared"
  BY <1>1, ResultCasesNext
<1>3. Lifecycle!Move(d, "queued", "completed") /\ Lifecycle!Gets(d, "shared")
  BY <1>1, <1>2, OneDocument, MoveOfLifecycle, GetsOfLifecycle DEF Status
<1>4. Tries' = Tries /\ Tries[d] = 0
  BY <1>1, OneDocument DEF Tries
<1>5. Lifecycle!Serve(d)
  BY <1>3, <1>4 DEF Lifecycle!Serve, Tries
<1> QED BY <1>5 DEF Lifecycle!Next, Lifecycle!Live

LEMMA FinishMoves ==
  ASSUME TypeOK, NEW d \in Docs, Status(d) = "processing",
         MarkCompleted(d, ContentOf[d], FALSE)
  PROVE  Lifecycle!Next
<1>1. /\ \A e \in Docs \ {d} : docs'[e] = docs[e]
      /\ docs'[d].status = "completed" /\ docs'[d].attempts = docs[d].attempts
      /\ docs'[d].summary = ContentOf[d] /\ docs'[d].error = FALSE /\ docs'[d].cached = FALSE
  <2>1. docs \in [Docs -> DocumentInDB]
    BY DEF TypeOK
  <2> QED BY <2>1 DEF MarkCompleted, DocumentInDB
<1>2. Result(d)' = "fresh"
  BY <1>1, ResultCasesNext
<1>3. Lifecycle!Move(d, "processing", "completed") /\ Lifecycle!Gets(d, "fresh")
  BY <1>1, <1>2, OneDocument, MoveOfLifecycle, GetsOfLifecycle DEF Status
<1>4. Tries' = Tries
  BY <1>1, OneDocument
<1>5. Lifecycle!Finish(d)
  BY <1>3, <1>4 DEF Lifecycle!Finish, Tries
<1> QED BY <1>5 DEF Lifecycle!Next, Lifecycle!Live

LEMMA RetryMoves ==
  ASSUME TypeOK, NEW d \in Docs, Status(d) = "processing", docs[d].attempts <= MaxRetries,
         Requeue(d)
  PROVE  Lifecycle!Next
<1>1. /\ \A e \in Docs \ {d} : docs'[e] = docs[e]
      /\ docs'[d] = [docs[d] EXCEPT !.status = "queued"]
  BY DEF Requeue, TypeOK
<1>2. /\ docs'[d].status = "queued" /\ docs'[d].attempts = docs[d].attempts
      /\ docs'[d].error = docs[d].error /\ docs'[d].summary = docs[d].summary
      /\ docs'[d].cached = docs[d].cached
  BY <1>1 DEF TypeOK, DocumentInDB
<1>3. Result(d)' = Result(d)
  BY <1>2 DEF Result
<1>4. Lifecycle!Move(d, "processing", "queued")
  BY <1>1, <1>2, OneDocument, MoveOfLifecycle, GetsOfLifecycle DEF Status
<1>5. Tries' = Tries /\ Results' = Results /\ Tries[d] = docs[d].attempts
  BY <1>1, <1>2, <1>3, OneDocument DEF Tries
<1>6. Lifecycle!Retry(d)
  BY <1>4, <1>5 DEF Lifecycle!Retry, Tries, Results
<1> QED BY <1>6 DEF Lifecycle!Next, Lifecycle!Live

LEMMA GiveUpMoves ==
  ASSUME TypeOK, NEW d \in Docs, Status(d) = "processing",
         docs[d].attempts = MaxRetries + 1, MarkFailed(d)
  PROVE  Lifecycle!Next
<1>1. /\ \A e \in Docs \ {d} : docs'[e] = docs[e]
      /\ docs'[d] = [docs[d] EXCEPT !.status = "failed", !.error = TRUE]
  BY DEF MarkFailed, TypeOK
<1>2. /\ docs'[d].status = "failed" /\ docs'[d].attempts = docs[d].attempts
      /\ docs'[d].error = TRUE
  BY <1>1 DEF TypeOK, DocumentInDB
<1>3. Result(d)' = "error"
  BY <1>2, ResultCasesNext
<1>4. Lifecycle!Move(d, "processing", "failed") /\ Lifecycle!Gets(d, "error")
  <2>1. /\ Phase[d] = "processing" /\ Phase' = [Phase EXCEPT ![d] = "failed"]
        /\ Results' = [Results EXCEPT ![d] = "error"]
    BY <1>1, <1>2, <1>3, OneDocument DEF Status
  <2> QED BY <2>1, MoveOfLifecycle, GetsOfLifecycle
<1>5. Tries' = Tries /\ Tries[d] = docs[d].attempts
  BY <1>1, <1>2, OneDocument DEF Tries
<1>6. Lifecycle!GiveUp(d)
  BY <1>4, <1>5 DEF Lifecycle!GiveUp, Tries
<1> QED BY <1>6 DEF Lifecycle!Next, Lifecycle!Live

(* A step that leaves the collection alone stutters. *)
LEMMA QuietStutters ==
  ASSUME UNCHANGED docs
  PROVE  UNCHANGED Lifecycle!lifeVars
<1>1. Phase' = Phase /\ Tries' = Tries /\ Results' = Results
  BY DEF Phase, Tries, Results, Result
<1> QED BY <1>1 DEF Lifecycle!lifeVars, Phase, Tries, Results
-----------------------------------------------------------------------------
(* The steps of the service. *)

LEMMA RequestRefines ==
  ASSUME TypeOK, Ownership, NEW d \in Docs, Request(d)
  PROVE  Lifecycle!Next \/ UNCHANGED docs
<1>a. /\ request[d] \in Unstored => docs[d] = NoDocument
      /\ request[d] \in Stored => Status(d) = "queued" /\ docs[d].attempts = 0
      /\ request[d] \in {"insert_cached", "complete"} => found[d] = ContentOf[d]
  BY DEF Ownership, RequestOwnership, SummariesMatch, Unstarted
<1>1. CASE InsertCached(d)
  <2>1. docs[d] = NoDocument /\ found[d] = ContentOf[d]
    BY <1>a, <1>1 DEF InsertCached, Unstored
  <2>2. Insert(d, "completed", ContentOf[d], TRUE) \/ UNCHANGED docs
    BY <1>1, <2>1 DEF InsertCached, Store, MongoRaises
  <2> QED BY <2>1, <2>2, InsertMoves
<1>2. CASE InsertQueued(d)
  <2>1. docs[d] = NoDocument
    BY <1>a, <1>2 DEF InsertQueued, Unstored
  <2>2. Insert(d, "queued", Null, FALSE) \/ UNCHANGED docs
    BY <1>2 DEF InsertQueued, Store, MongoRaises
  <2> QED BY <2>1, <2>2, InsertMoves
<1>3. CASE CompleteFromCache(d)
  <2>1. Status(d) = "queued" /\ docs[d].attempts = 0 /\ found[d] = ContentOf[d]
    BY <1>a, <1>3 DEF CompleteFromCache, Stored
  <2>2. MarkCompleted(d, ContentOf[d], TRUE) \/ UNCHANGED docs
    BY <1>3, <2>1 DEF CompleteFromCache, Store, MongoRaises
  <2> QED BY <2>1, <2>2, ServeMoves
<1>4. CASE LookUpCache(d) \/ AcquireSlot(d) \/ ElectLeader(d) \/ RecheckCache(d)
  BY <1>4 DEF LookUpCache, AcquireSlot, ElectLeader, RecheckCache
<1>5. CASE ReleaseOwnSlot(d) \/ ReleaseOwnLock(d) \/ EnqueueJob(d) \/ JoinWaiters(d)
  BY <1>5 DEF ReleaseOwnSlot, ReleaseOwnLock, EnqueueJob, JoinWaiters
<1> QED BY <1>1, <1>2, <1>3, <1>4, <1>5 DEF Request, Submit

LEMMA MainLoopRefines ==
  ASSUME TypeOK, Ownership, NEW w \in Workers, MainLoop(w)
  PROVE  Lifecycle!Next \/ UNCHANGED docs
<1> DEFINE d == job[w]
<1>a. at[w] \notin Loop => d \in Docs
  BY DEF TypeOK
<1>b. at[w] = "process" =>
        /\ Status(d) = "processing" /\ docs[d].attempts = attempt[w]
        /\ d \in Docs /\ docs[d].attempts <= MaxRetries + 1 /\ attempt[w] \in Nat
  BY <1>a DEF Ownership, ExclusiveClaim, AttemptsBounded, Loop, TypeOK
<1>1. CASE Claim(w)
  <2>1. d \in Docs /\ AttemptsBounded
    BY <1>a, <1>1 DEF Claim, Loop, Ownership
  <2>2. ClaimForProcessing(d) \/ UNCHANGED docs
    BY <1>1 DEF Claim, ClaimMatchesNothing, JobRaises, MongoRaises
  <2> QED BY <2>1, <2>2, ClaimMoves
<1>2. CASE ProcessingSucceeds(w)
  <2>1. MarkCompleted(d, ContentOf[d], FALSE) \/ UNCHANGED docs
    BY <1>2 DEF ProcessingSucceeds, JobRaises, MongoRaises
  <2> QED BY <1>b, <1>2, <2>1, FinishMoves DEF ProcessingSucceeds
<1>3. CASE ProcessingFails(w)
  <2>1. /\ Requeue(d) \/ UNCHANGED docs
        /\ at[w] = "process" /\ attempt[w] <= MaxRetries
    BY <1>3 DEF ProcessingFails, JobRaises, MongoRaises
  <2> QED BY <1>b, <2>1, RetryMoves
<1>4. CASE ProcessingFailsForGood(w)
  <2>1. /\ MarkFailed(d) \/ UNCHANGED docs
        /\ at[w] = "process" /\ attempt[w] > MaxRetries
    BY <1>4 DEF ProcessingFailsForGood, JobRaises, MongoRaises
  <2>2. docs[d].attempts = MaxRetries + 1
    BY <1>b, <2>1, WorkerAssumption
  <2> QED BY <1>b, <2>1, <2>2, GiveUpMoves
<1>5. CASE ResolveWaiter(w)
  <2> DEFINE e == Head(popped[w])
  <2>1. /\ popped[w] # <<>> /\ at[w] = "resolve"
        /\ MarkCompleted(e, ContentOf[d], TRUE) \/ UNCHANGED docs
    BY <1>5 DEF ResolveWaiter, JobRaises, MongoRaises
  <2>2. e \in Docs /\ e \in Range(popped[w])
    BY <2>1, RangeHeadTail DEF TypeOK
  <2>3. ContentOf[e] = ContentOf[d] /\ Status(e) = "queued" /\ docs[e].attempts = 0
    BY <2>2 DEF Ownership, WorkerOwnership, Unstarted
  <2> QED BY <2>1, <2>2, <2>3, ServeMoves
<1>6. CASE \/ Poll(w) \/ LeaveLoop(w) \/ CacheResult(w) \/ ReleaseWaiterSlot(w)
           \/ FinishSuccess(w) \/ UnlockAfterFailure(w) \/ PromoteWaiter(w) \/ FinishFailure(w)
  BY <1>6 DEF Poll, LeaveLoop, CacheResult, ReleaseWaiterSlot, FinishSuccess,
              UnlockAfterFailure, PromoteWaiter, FinishFailure
<1>7. CASE \/ ReleaseJobSlot(w, "release", "cache")
           \/ ReleaseJobSlot(w, "fail_release", "fail_unlock")
           \/ TakeWaiters(w, "pop", "resolve") \/ TakeWaiters(w, "fail_pop", "promote")
  BY <1>7 DEF ReleaseJobSlot, TakeWaiters
<1> QED BY <1>1, <1>2, <1>3, <1>4, <1>5, <1>6, <1>7 DEF MainLoop, Work

LEMMA NextRefines ==
  TypeOK /\ Ownership /\ [Next]_vars => [Lifecycle!Next]_(Lifecycle!lifeVars)
<1> SUFFICES ASSUME TypeOK, Ownership, [Next]_vars
             PROVE  Lifecycle!Next \/ UNCHANGED docs
  BY QuietStutters
<1>1. ASSUME NEW w \in Workers, Backoff(w) \/ Supervise(w) PROVE UNCHANGED docs
  BY <1>1 DEF Backoff, Supervise, RetryFires, Drained, SigTerm, WorkerCrash, PollRaises,
              Dies, Restart
<1>2. CASE \/ ApiCrash \/ Expire \/ UNCHANGED vars
           \/ \E d \in Docs : Redeliver(d)
  BY <1>2 DEF ApiCrash, Expire, Redeliver, vars, storeVars
<1> QED BY <1>1, <1>2, RequestRefines, MainLoopRefines DEF Next

LEMMA InitRefines == Init => Lifecycle!Init
<1> SUFFICES ASSUME Init PROVE Lifecycle!Init
  OBVIOUS
<1>1. /\ NoDocument.status = "absent" /\ NoDocument.attempts = 0
      /\ NoDocument.error = FALSE /\ NoDocument.summary = Null
  BY DEF NoDocument
<1>2. \A d \in Docs : /\ docs[d].status = "absent" /\ docs[d].attempts = 0
                      /\ Result(d) = "none"
  BY <1>1, ResultCases DEF Init, RepositoryInit
<1> QED BY <1>2 DEF Lifecycle!Init

(* Under every fault, and for any number of requests, workers and retries: each   *)
(* step the service takes on the collection is a move of one document's lifecycle. *)
THEOREM ServiceImplementsLifecycle == Spec => ImplementsLifecycle
<1>1. Init => Lifecycle!Init
  BY InitRefines
<1>2. TypeOK /\ Ownership /\ [Next]_vars => [Lifecycle!Next]_(Lifecycle!lifeVars)
  BY NextRefines
<1> QED BY <1>1, <1>2, TypeCorrect, OwnershipHolds, PTL
    DEF Spec, ImplementsLifecycle, Lifecycle!Spec
-----------------------------------------------------------------------------
(* Every answer and every pending release is backed by the collection. *)
Outcomes ==
  /\ \A d \in Docs :
       /\ request[d] \in {"served"} \cup Settling => Status(d) = "completed"
       /\ request[d] \in Accepted => Status(d) # "absent"
       /\ request[d] \in {"new", "insert_cached", "acquire", "rejected"} =>
            Status(d) = "absent" /\ \A u \in Users : d \notin slots[u]
  /\ \A w \in Workers :
       /\ at[w] = "release" => Status(job[w]) = "completed"
       /\ at[w] = "fail_release" => Status(job[w]) = "failed"
       /\ at[w] = "release_waiter" => Status(waiter[w]) = "completed"

LEMMA InitOutcomes == Init => Outcomes
<1>1. NoDocument.status = "absent"
  BY DEF NoDocument
<1> QED BY <1>1 DEF Init, RepositoryInit, RateLimiterInit, ServiceInit, WorkerInit,
                    Outcomes, Status, Settling, Accepted

LEMMA NextOutcomes == TypeOK /\ TypeOK' /\ Ownership /\ Ownership' /\ Outcomes /\ [Next]_vars => Outcomes'
<1> SUFFICES ASSUME TypeOK, TypeOK', Ownership, Ownership', Outcomes, [Next]_vars
             PROVE  Outcomes'
  OBVIOUS
<1>1. ASSUME NEW d \in Docs, request'[d] \in {"served"} \cup Settling
      PROVE  docs'[d].status = "completed"
  <2>1. \/ request[d] \in {"served"} \cup Settling
        \/ docs'[d].status = "completed"
    BY <1>1, PlaceSteps DEF PlaceStep, Settling
  <2>2. request[d] \in {"served"} \cup Settling => Status(d) = "completed"
    BY DEF Outcomes
  <2> QED BY <2>1, <2>2, StatusKept DEF Terminal
<1>2. ASSUME NEW d \in Docs, request'[d] \in Accepted
      PROVE  docs'[d].status # "absent"
  <2>1. request[d] \in Accepted \cup Stored
    BY <1>2, PlaceSteps DEF PlaceStep, Accepted, Stored
  <2>2. Status(d) # "absent"
    BY <2>1 DEF Outcomes, Ownership, RequestOwnership
  <2> QED BY <2>2, StatusKept
<1>3. ASSUME NEW d \in Docs, request'[d] \in {"new", "insert_cached", "acquire", "rejected"}
      PROVE  docs'[d].status = "absent" /\ \A u \in Users : d \notin slots'[u]
  <2>1. request[d] \in {"new", "insert_cached", "acquire", "rejected"}
    BY <1>3, PlaceSteps DEF PlaceStep
  <2>2. Status(d) = "absent" /\ \A u \in Users : d \notin slots[u]
    BY <2>1 DEF Outcomes
  <2>3. \A u \in Users : d \notin slots'[u]
    BY <1>3, <2>2, SlotSteps DEF SlotStep
  <2>4. CASE request'[d] \in Unstored
    BY <2>4, <2>3 DEF Ownership, RequestOwnership, NoDocument
  <2>5. CASE request'[d] = "rejected"
    <3>1. request[d] \notin {"insert", "insert_cached"}
      BY <2>5, <2>1, PlaceSteps DEF PlaceStep
    <3> QED BY <3>1, <2>2, <2>3, StatusKept
  <2> QED BY <1>3, <2>4, <2>5 DEF Unstored
<1>4. ASSUME NEW w \in Workers
      PROVE  /\ at'[w] = "release" => docs'[job'[w]].status = "completed"
             /\ at'[w] = "fail_release" => docs'[job'[w]].status = "failed"
             /\ at'[w] = "release_waiter" => docs'[waiter'[w]].status = "completed"
  <2>1. /\ at[w] \in {"release", "fail_release"} => job[w] \in Docs
        /\ at[w] = "release_waiter" => waiter[w] \in Docs
    BY DEF TypeOK, Loop
  <2>2. /\ at[w] = "release" => Status(job[w]) = "completed"
        /\ at[w] = "fail_release" => Status(job[w]) = "failed"
        /\ at[w] = "release_waiter" => Status(waiter[w]) = "completed"
    BY DEF Outcomes
  <2>3. /\ at[w] = "release" => docs'[job[w]].status = "completed"
        /\ at[w] = "fail_release" => docs'[job[w]].status = "failed"
        /\ at[w] = "release_waiter" => docs'[waiter[w]].status = "completed"
    BY <2>1, <2>2, StatusKept DEF Terminal
  <2> QED BY <2>3, ReleaseSteps DEF ReleaseStep
<1> QED BY <1>1, <1>2, <1>3, <1>4 DEF Outcomes, Status

(* Under every fault: an answer, and a slot about to be returned, stands for a       *)
(* document that is where the answer or the return takes it to be.                   *)
LEMMA OutcomesHold == Spec => []Outcomes
<1>1. Init => Outcomes
  BY InitOutcomes
<1>2. TypeOK /\ TypeOK' /\ Ownership /\ Ownership' /\ Outcomes /\ [Next]_vars => Outcomes'
  BY NextOutcomes
<1> QED BY <1>1, <1>2, TypeCorrect, OwnershipHolds, PTL DEF Spec

(* Under every fault, and for any number of requests and workers: a 201 completed  *)
(* names a completed document, a 201 queued a stored one, and a 429 left nothing   *)
(* in the collection or in a slot set.                                             *)
THEOREM AnswersAreKept == Spec => []AnswersMatchStore
<1>1. Outcomes => AnswersMatchStore
  BY DEF Outcomes, AnswersMatchStore
<1> QED BY <1>1, OutcomesHold, PTL
-----------------------------------------------------------------------------
(* What a lookup shows. *)

Whole == \A d \in Docs : WholeAnswer(d, docs[d])

(* A document changes only before it is terminal, and stays of one piece. *)
DocStep(d) ==
  \/ docs'[d] = docs[d]
  \/ Status(d) \notin Terminal /\ WholeAnswer(d, docs'[d])

LEMMA WholeEffects ==
  ASSUME TypeOK, NEW d \in Docs, WholeAnswer(d, docs[d]), NEW c \in BOOLEAN
  PROVE  /\ Insert(d, "completed", ContentOf[d], TRUE) => WholeAnswer(d, docs'[d])
         /\ Insert(d, "queued", Null, FALSE) => WholeAnswer(d, docs'[d])
         /\ MarkCompleted(d, ContentOf[d], c) => WholeAnswer(d, docs'[d])
         /\ MarkFailed(d) /\ Status(d) = "processing" => WholeAnswer(d, docs'[d])
         /\ Requeue(d) /\ Status(d) = "processing" => WholeAnswer(d, docs'[d])
         /\ ClaimForProcessing(d) => WholeAnswer(d, docs'[d])
<1>a. docs \in [Docs -> DocumentInDB]
  BY DEF TypeOK
<1> USE <1>a DEF WholeAnswer, DocumentInDB, Status
<1>1. Insert(d, "completed", ContentOf[d], TRUE) => WholeAnswer(d, docs'[d])
  BY DEF Insert
<1>2. Insert(d, "queued", Null, FALSE) => WholeAnswer(d, docs'[d])
  BY DEF Insert
<1>3. MarkCompleted(d, ContentOf[d], c) => WholeAnswer(d, docs'[d])
  BY DEF MarkCompleted
<1>4. MarkFailed(d) /\ Status(d) = "processing" => WholeAnswer(d, docs'[d])
  BY DEF MarkFailed
<1>5. Requeue(d) /\ Status(d) = "processing" => WholeAnswer(d, docs'[d])
  BY DEF Requeue
<1>6. ClaimForProcessing(d) => WholeAnswer(d, docs'[d])
  BY DEF ClaimForProcessing
<1> QED BY <1>1, <1>2, <1>3, <1>4, <1>5, <1>6

LEMMA RequestWhole ==
  ASSUME TypeOK, Ownership, Whole, NEW e \in Docs, Request(e), NEW d \in Docs
  PROVE  DocStep(d)
<1>a. /\ request[e] \in Unstored => Status(e) = "absent"
      /\ request[e] \in Stored => Status(e) = "queued"
      /\ request[e] \in {"insert_cached", "complete"} => found[e] = ContentOf[e]
  BY DEF Ownership, RequestOwnership, NoDocument, Status, SummariesMatch
<1>b. WholeAnswer(e, docs[e])
  BY DEF Whole
<1>c. UNCHANGED docs => DocStep(d)
  BY DEF DocStep
<1>1. CASE InsertCached(e)
  <2>1. Status(e) = "absent" /\ found[e] = ContentOf[e]
    BY <1>a, <1>1 DEF InsertCached, Unstored
  <2>2. Insert(e, "completed", ContentOf[e], TRUE) \/ UNCHANGED docs
    BY <1>1, <2>1 DEF InsertCached, Store, MongoRaises
  <2>3. Insert(e, "completed", ContentOf[e], TRUE) => WholeAnswer(e, docs'[e])
    BY <1>b, WholeEffects
  <2> QED BY <1>c, <2>1, <2>2, <2>3, StatusEffects DEF DocStep, Terminal
<1>2. CASE InsertQueued(e)
  <2>1. Status(e) = "absent"
    BY <1>a, <1>2 DEF InsertQueued, Unstored
  <2>2. Insert(e, "queued", Null, FALSE) \/ UNCHANGED docs
    BY <1>2, <2>1 DEF InsertQueued, Store, MongoRaises
  <2>3. Insert(e, "queued", Null, FALSE) => WholeAnswer(e, docs'[e])
    BY <1>b, WholeEffects
  <2> QED BY <1>c, <2>1, <2>2, <2>3, StatusEffects DEF DocStep, Terminal
<1>3. CASE CompleteFromCache(e)
  <2>1. Status(e) = "queued" /\ found[e] = ContentOf[e]
    BY <1>a, <1>3 DEF CompleteFromCache, Stored
  <2>2. MarkCompleted(e, ContentOf[e], TRUE) \/ UNCHANGED docs
    BY <1>3, <2>1 DEF CompleteFromCache, Store, MongoRaises
  <2>3. MarkCompleted(e, ContentOf[e], TRUE) => WholeAnswer(e, docs'[e])
    BY <1>b, WholeEffects
  <2> QED BY <1>c, <2>1, <2>2, <2>3, StatusEffects DEF DocStep, Terminal
<1>4. CASE LookUpCache(e) \/ AcquireSlot(e) \/ ElectLeader(e) \/ RecheckCache(e)
  BY <1>c, <1>4 DEF LookUpCache, AcquireSlot, ElectLeader, RecheckCache
<1>5. CASE ReleaseOwnSlot(e) \/ ReleaseOwnLock(e) \/ EnqueueJob(e) \/ JoinWaiters(e)
  BY <1>c, <1>5 DEF ReleaseOwnSlot, ReleaseOwnLock, EnqueueJob, JoinWaiters
<1> QED BY <1>1, <1>2, <1>3, <1>4, <1>5 DEF Request, Submit

LEMMA MainLoopWhole ==
  ASSUME TypeOK, Ownership, Whole, NEW w \in Workers, MainLoop(w), NEW d \in Docs
  PROVE  DocStep(d)
<1> DEFINE j == job[w]
<1>a. /\ at[w] \notin Loop => j \in Docs
      /\ at[w] = "process" => Status(j) = "processing"
      /\ popped[w] \in Seq(Docs)
  BY DEF TypeOK, Ownership, ExclusiveClaim
<1>c. UNCHANGED docs => DocStep(d)
  BY DEF DocStep
<1>1. CASE Claim(w)
  <2>1. j \in Docs /\ (ClaimForProcessing(j) \/ UNCHANGED docs)
    BY <1>1, <1>a DEF Claim, ClaimMatchesNothing, JobRaises, MongoRaises, Loop
  <2>2. ClaimForProcessing(j) => Status(j) = "queued" /\ WholeAnswer(j, docs'[j])
    BY <2>1, WholeEffects DEF Whole, ClaimForProcessing
  <2> QED BY <1>c, <2>1, <2>2, StatusEffects DEF DocStep, Terminal
<1>2. CASE ProcessingSucceeds(w) \/ ProcessingFails(w) \/ ProcessingFailsForGood(w)
  <2>1. j \in Docs /\ Status(j) = "processing"
    BY <1>2, <1>a DEF ProcessingSucceeds, ProcessingFails, ProcessingFailsForGood, Loop
  <2>2. \/ MarkCompleted(j, ContentOf[j], FALSE)
        \/ Requeue(j) \/ MarkFailed(j) \/ UNCHANGED docs
    BY <1>2 DEF ProcessingSucceeds, ProcessingFails, ProcessingFailsForGood, JobRaises,
                MongoRaises
  <2>3. WholeAnswer(j, docs'[j]) \/ UNCHANGED docs
    BY <2>1, <2>2, WholeEffects DEF Whole
  <2>4. UNCHANGED docs \/ \A e \in Docs \ {j} : docs'[e] = docs[e]
    BY <2>1, <2>2, StatusEffects
  <2> QED BY <1>c, <2>1, <2>3, <2>4 DEF DocStep, Terminal
<1>3. CASE ResolveWaiter(w)
  <2> DEFINE e == Head(popped[w])
  <2>1. e \in Docs /\ e \in Range(popped[w])
    BY <1>a, <1>3, RangeHeadTail DEF ResolveWaiter
  <2>2. Status(e) = "queued" /\ ContentOf[e] = ContentOf[j]
    BY <2>1 DEF Ownership, WorkerOwnership
  <2>3. MarkCompleted(e, ContentOf[e], TRUE) \/ UNCHANGED docs
    BY <1>3, <2>2 DEF ResolveWaiter, JobRaises, MongoRaises
  <2>4. MarkCompleted(e, ContentOf[e], TRUE) => WholeAnswer(e, docs'[e])
    BY <2>1, WholeEffects DEF Whole
  <2> QED BY <1>c, <2>1, <2>2, <2>3, <2>4, StatusEffects DEF DocStep, Terminal
<1>4. CASE \/ Poll(w) \/ LeaveLoop(w) \/ CacheResult(w) \/ ReleaseWaiterSlot(w)
           \/ FinishSuccess(w) \/ UnlockAfterFailure(w) \/ PromoteWaiter(w) \/ FinishFailure(w)
  BY <1>c, <1>4 DEF Poll, LeaveLoop, CacheResult, ReleaseWaiterSlot, FinishSuccess,
                    UnlockAfterFailure, PromoteWaiter, FinishFailure
<1>5. CASE \/ ReleaseJobSlot(w, "release", "cache")
           \/ ReleaseJobSlot(w, "fail_release", "fail_unlock")
           \/ TakeWaiters(w, "pop", "resolve") \/ TakeWaiters(w, "fail_pop", "promote")
  BY <1>c, <1>5 DEF ReleaseJobSlot, TakeWaiters
<1> QED BY <1>1, <1>2, <1>3, <1>4, <1>5 DEF MainLoop, Work

LEMMA DocSteps ==
  ASSUME TypeOK, Ownership, Whole, [Next]_vars, NEW d \in Docs
  PROVE  DocStep(d)
<1>1. UNCHANGED docs => DocStep(d)
  BY DEF DocStep
<1> QED BY <1>1, OthersKeepDocs, RequestWhole, MainLoopWhole

(* Under every fault, the collection itself is of one piece. *)
LEMMA WholeHolds == Spec => []Whole
<1>1. Init => Whole
  BY DEF Init, RepositoryInit, NoDocument, Whole, WholeAnswer
<1>2. TypeOK /\ Ownership /\ Whole /\ [Next]_vars => Whole'
  BY DocSteps DEF DocStep, Whole
<1> QED BY <1>1, <1>2, TypeCorrect, OwnershipHolds, PTL DEF Spec

(* Under every fault: a client is shown a summary, and that of its own text, exactly *)
(* with completed, and an error exactly with failed.                                 *)
THEOREM AnswersComeWhole == Spec => []AnswersAreWhole
<1>1. Whole => AnswersAreWhole
  BY DEF Whole, AnswersAreWhole, WholeAnswer, GetDocument, FromDb, NotFound, NoDocument
<1> QED BY <1>1, WholeHolds, PTL

NothingTakenBack(d) ==
  /\ request[d] \in {"served"} \cup Accepted \/ GetDocument(d) # NotFound
       => GetDocument(d)' # NotFound
  /\ request[d] = "served" => GetDocument(d)'.status = "completed"
  /\ GetDocument(d).status \in Terminal => GetDocument(d)' = GetDocument(d)

LEMMA StepTakesNothingBack ==
  ASSUME TypeOK, Ownership, Outcomes, Whole, [Next]_vars, NEW d \in Docs
  PROVE  NothingTakenBack(d)
<1>a. NotFound.status = "absent"
  BY DEF NotFound, FromDb, NoDocument
<1>b. GetDocument(d).status = Status(d) /\ GetDocument(d)'.status = docs'[d].status
  BY <1>a DEF GetDocument, FindById, FromDb, Status
<1>1. ASSUME request[d] \in {"served"} \cup Accepted \/ GetDocument(d) # NotFound
      PROVE  GetDocument(d)' # NotFound
  <2>1. Status(d) # "absent"
    BY <1>1 DEF Outcomes, GetDocument, FindById
  <2> QED BY <1>a, <1>b, <2>1, StatusKept
<1>2. ASSUME request[d] = "served" PROVE GetDocument(d)'.status = "completed"
  BY <1>b, <1>2, StatusKept DEF Outcomes, Terminal
<1>3. ASSUME GetDocument(d).status \in Terminal PROVE GetDocument(d)' = GetDocument(d)
  <2>1. docs'[d] = docs[d]
    BY <1>b, <1>3, DocSteps DEF DocStep
  <2> QED BY <2>1 DEF GetDocument, FindById, Status
<1> QED BY <1>1, <1>2, <1>3 DEF NothingTakenBack

(* Under every fault no step takes an answer back: what was accepted is found from   *)
(* then on, and an answer with a terminal status is the last word.                   *)
THEOREM AnswersStay == Spec => NoAnswerTakenBack
<1>1. TypeOK /\ Ownership /\ Outcomes /\ Whole /\ [Next]_vars
        => [\A d \in Docs : NothingTakenBack(d)]_vars
  BY StepTakesNothingBack
<1>2. Spec => [][\A d \in Docs : NothingTakenBack(d)]_vars
  BY <1>1, TypeCorrect, OwnershipHolds, OutcomesHold, WholeHolds, PTL DEF Spec
<1> QED BY <1>2 DEF NoAnswerTakenBack, NothingTakenBack
=============================================================================
