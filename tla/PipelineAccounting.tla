------------------------- MODULE PipelineAccounting -------------------------
(***************************************************************************)
(* Nothing is lost, and nothing is done twice.                             *)
(*                                                                         *)
(* Slots: a document has its slot from before it is stored until after it  *)
(* is terminal, so the bound on the slots bounds the active documents.     *)
(* Losses: without outages, whatever leaves the hands of a request, of a   *)
(* worker, of a list or of a scheduled retry arrives in another's.         *)
(* Repetition: while nothing fails for good, expires or is out, a lock has *)
(* one holder, who returns it only with the summary in the cache; whoever  *)
(* wins it next finds the summary when it checks again, and never starts.  *)
(* The lock of a job that was dropped stays, and nobody wins it.           *)
(***************************************************************************)
EXTENDS PipelineAnswers, FiniteSetTheorems

(* The slots are what they stand for. *)
SlotsHeld ==
  /\ \A u \in Users : Cardinality(slots[u]) <= MaxActive
  /\ \A d \in Docs :
       Status(d) \in Active \/ request[d] = "insert" => d \in slots[UserOf[d]]

LEMMA SlotsFinite ==
  ASSUME TypeOK, NEW u \in Users
  PROVE  /\ slots[u] \in SUBSET Docs
         /\ IsFiniteSet(slots[u]) /\ Cardinality(slots[u]) \in Nat
<1>1. slots[u] \in SUBSET Docs
  BY DEF TypeOK
<1>2. IsFiniteSet(slots[u])
  BY <1>1, FS_Subset, EnvironmentAssumption
<1> QED BY <1>1, <1>2, FS_CardinalityType

(* Only the acquire script adds to a set, and only below the limit. *)
LEMMA SlotsGrow ==
  ASSUME TypeOK, [Next]_vars, NEW u \in Users
  PROVE  \/ slots'[u] \subseteq slots[u]
         \/ /\ Cardinality(slots[u]) < MaxActive
            /\ \E d \in Docs : slots'[u] = slots[u] \cup {d}
<1> SUFFICES ASSUME NEW d \in slots'[u], d \notin slots[u]
             PROVE  /\ Cardinality(slots[u]) < MaxActive
                    /\ \E e \in Docs : slots'[u] = slots[u] \cup {e}
  OBVIOUS
<1>a. TypeOK'
  BY NextTyped
<1>1. d \in Docs
  BY <1>a DEF TypeOK
<1>2. request[d] = "acquire" /\ request'[d] = "insert" /\ u = UserOf[d]
  BY <1>1, SlotSteps DEF SlotStep
<1>3. Request(d)
  <2>1. ~ApiCrash
    BY <1>1, <1>2 DEF ApiCrash, Ended
  <2>2. ~UNCHANGED requestVars
    BY <1>2 DEF requestVars
  <2> QED BY <1>1, <1>2, <2>1, <2>2, OthersKeepRequests, RequestPlace
<1>4. AcquireSlot(d)
  BY <1>2, <1>3 DEF Request, Submit, LookUpCache, InsertCached, InsertQueued, ElectLeader,
     RecheckCache, CompleteFromCache, ReleaseOwnSlot, ReleaseOwnLock, EnqueueJob, JoinWaiters
<1>5. Admit(u, d) \/ UNCHANGED slots
  BY <1>2, <1>4 DEF AcquireSlot, TryAcquire, FailOpen, RedisRaises, Deny
<1>6. Admit(u, d)
  BY <1>5
<1> QED BY <1>1, <1>6 DEF Admit, TypeOK

LEMMA InitSlotsHeld == Init => SlotsHeld
<1> SUFFICES ASSUME Init PROVE SlotsHeld
  OBVIOUS
<1>1. \A u \in Users : Cardinality(slots[u]) = 0
  BY FS_EmptySet DEF Init, RateLimiterInit
<1>2. \A d \in Docs : Status(d) = "absent" /\ request[d] = "new"
  BY DEF Init, RepositoryInit, ServiceInit, Status, NoDocument
<1> QED BY <1>1, <1>2, MaxActiveAssumption DEF SlotsHeld, Active

LEMMA NextSlotsHeld ==
  ASSUME Faults \cap {"redis", "ttl"} = {},
         TypeOK, Ownership, Outcomes, SlotsHeld, [Next]_vars
  PROVE  SlotsHeld'
<1>1. ASSUME NEW u \in Users PROVE Cardinality(slots'[u]) <= MaxActive
  <2>0. IsFiniteSet(slots[u]) /\ Cardinality(slots[u]) \in Nat
        /\ Cardinality(slots[u]) <= MaxActive /\ MaxActive \in Nat
    BY SlotsFinite, MaxActiveAssumption DEF SlotsHeld
  <2>1. CASE slots'[u] \subseteq slots[u]
    <3>1. Cardinality(slots'[u]) <= Cardinality(slots[u]) /\ IsFiniteSet(slots'[u])
      BY <2>0, <2>1, FS_Subset
    <3>2. Cardinality(slots'[u]) \in Nat
      BY <3>1, FS_CardinalityType
    <3> QED BY <2>0, <3>1, <3>2
  <2>2. CASE /\ Cardinality(slots[u]) < MaxActive
             /\ \E d \in Docs : slots'[u] = slots[u] \cup {d}
    <3>1. PICK d \in Docs : slots'[u] = slots[u] \cup {d}
      BY <2>2
    <3>2. Cardinality(slots'[u]) \in {Cardinality(slots[u]), Cardinality(slots[u]) + 1}
      BY <2>0, <3>1, FS_AddElement
    <3> QED BY <2>0, <2>2, <3>2
  <2> QED BY <2>1, <2>2, SlotsGrow
<1>2. ASSUME NEW d \in Docs, docs'[d].status \in Active \/ request'[d] = "insert"
      PROVE  d \in slots'[UserOf[d]]
  <2>1. CASE request[d] = "acquire"
    <3>1. request'[d] = "insert"
      <4>1. Status(d) = "absent"
        BY <2>1 DEF Outcomes
      <4>2. docs'[d].status = "absent"
        BY <2>1, <4>1, StatusKept
      <4> QED BY <1>2, <4>2 DEF Active
    <3> QED BY <2>1, <3>1, PlaceSteps DEF PlaceStep
  <2>2. CASE request[d] # "acquire"
    <3>1. Status(d) \in Active \/ request[d] = "insert"
      BY <1>2, <2>2, StatusKept, PlaceSteps DEF PlaceStep
    <3>2. d \in slots[UserOf[d]]
      BY <3>1 DEF SlotsHeld
    <3>3. Status(d) \notin Terminal
      <4>1. request[d] = "insert" => docs[d].status = "absent"
        BY DEF Ownership, RequestOwnership, Unstored, NoDocument
      <4> QED BY <3>1, <4>1 DEF Active, Terminal, Status
    <3>4. ~ReleasePending(d)
      BY <3>3 DEF ReleasePending, Outcomes, Settling, Terminal
    <3> QED BY <3>2, <3>4, SlotSteps, EnvironmentAssumption DEF SlotStep
  <2> QED BY <2>1, <2>2
<1> QED BY <1>1, <1>2 DEF SlotsHeld, Status

(* Unless Redis fails or a slot set expires: a document about to be stored or active *)
(* is in its user's slot set, and no set is larger than the limit.                   *)
LEMMA SlotsAreHeld ==
  ASSUME Faults \cap {"redis", "ttl"} = {}
  PROVE  Spec => []SlotsHeld
<1>1. Init => SlotsHeld
  BY InitSlotsHeld
<1>2. TypeOK /\ Ownership /\ Outcomes /\ SlotsHeld /\ [Next]_vars => SlotsHeld'
  BY NextSlotsHeld
<1> QED BY <1>1, <1>2, TypeCorrect, OwnershipHolds, OutcomesHold, PTL DEF Spec

LEMMA HeldMeansLimited == TypeOK /\ SlotsHeld => ActiveJobsLimited
<1> SUFFICES ASSUME TypeOK, SlotsHeld, NEW u \in Users
             PROVE  Cardinality(ActiveJobs(u)) <= MaxActive
  BY DEF ActiveJobsLimited
<1>1. ActiveJobs(u) \subseteq slots[u]
  BY DEF ActiveJobs, SlotsHeld
<1>2. /\ IsFiniteSet(slots[u]) /\ Cardinality(slots[u]) \in Nat
      /\ Cardinality(slots[u]) <= MaxActive /\ MaxActive \in Nat
  BY SlotsFinite, MaxActiveAssumption DEF SlotsHeld
<1>3. /\ Cardinality(ActiveJobs(u)) <= Cardinality(slots[u]) /\ IsFiniteSet(ActiveJobs(u))
  BY <1>1, <1>2, FS_Subset
<1>4. Cardinality(ActiveJobs(u)) \in Nat
  BY <1>3, FS_CardinalityType
<1> QED BY <1>2, <1>3, <1>4

(* Unless Redis fails or a slot set expires, for any number of users, documents,   *)
(* workers and slots, and under every other fault, crashes included: no user ever  *)
(* has more than MaxActive documents queued or processing.                         *)
THEOREM ActiveJobsAreLimited ==
  ASSUME Faults \cap {"redis", "ttl"} = {}
  PROVE  Spec => []ActiveJobsLimited
<1>1. TypeOK /\ SlotsHeld => ActiveJobsLimited
  BY HeldMeansLimited
<1> QED BY <1>1, TypeCorrect, SlotsAreHeld, PTL
-----------------------------------------------------------------------------
(* No slot leaks. *)

LEMMA SlotHandedOn ==
  ASSUME NoOutage, TypeOK, Ownership, Ownership', [Next]_vars,
         NEW d \in Docs, d \in slots'[UserOf[d]],
         request[d] = "insert" \/ Status(d) \in Active \/ ReleasePending(d)
  PROVE  (request[d] = "insert" \/ Status(d) \in Active \/ ReleasePending(d))'
<1>a. PlaceStep(d) /\ StatusStep(d) /\ Faults \cap {"redis", "mongo", "crash"} = {}
  BY PlaceSteps, StatusSteps DEF NoOutage
<1>1. CASE request[d] = "insert"
  <2>1. request'[d] \in {"insert", "elect"}
    BY <1>a, <1>1 DEF PlaceStep
  <2>2. request'[d] = "elect" => Status(d)' = "queued"
    BY DEF Ownership, RequestOwnership, Stored
  <2> QED BY <2>1, <2>2 DEF Active
<1>2. CASE Status(d) \in Active
  <2>1. docs'[d].status = Status(d) => (Status(d) \in Active)'
    BY <1>2 DEF Status
  <2>2. request'[d] = "release" => ReleasePending(d)'
    BY DEF ReleasePending
  <2>3. ASSUME NEW w \in Workers, WorkerStatusStep(d, w)
        PROVE  (Status(d) \in Active \/ ReleasePending(d))'
    BY <1>a, <2>3 DEF WorkerStatusStep, Active, Status, ReleasePending
  <2>4. Status(d) # "absent"
    BY <1>2 DEF Active
  <2> QED BY <1>a, <2>1, <2>2, <2>3, <2>4 DEF StatusStep, Status
<1>3. CASE ReleasePending(d)
  <2>1. CASE request[d] = "release"
    BY <1>a, <2>1 DEF PlaceStep, ReleasePending
  <2>2. ASSUME NEW w \in Workers, at[w] \in {"release", "fail_release"}, job[w] = d
        PROVE  ReleasePending(d)'
    <3>1. at'[w] = at[w] /\ job'[w] = job[w]
      BY <2>2, Advances DEF Advance, LoopStep, SuccessStep, FailureStep, Keeps
    <3> QED BY <2>2, <3>1 DEF ReleasePending
  <2>3. ASSUME NEW w \in Workers, at[w] = "release_waiter", waiter[w] = d
        PROVE  ReleasePending(d)'
    <3>1. at'[w] = at[w] /\ waiter'[w] = waiter[w]
      BY <2>3, Advances DEF Advance, LoopStep, SuccessStep, FailureStep, Keeps
    <3> QED BY <2>3, <3>1 DEF ReleasePending
  <2> QED BY <1>3, <2>1, <2>2, <2>3 DEF ReleasePending
<1> QED BY <1>1, <1>2, <1>3

LEMMA NextSlotsAccountedFor ==
  ASSUME NoOutage, TypeOK, Ownership, Ownership', SlotsAccountedFor, [Next]_vars
  PROVE  SlotsAccountedFor'
<1> SUFFICES ASSUME NEW u \in Users, NEW d \in slots'[u]
             PROVE  /\ UserOf[d] = u
                    /\ (request[d] = "insert" \/ Status(d) \in Active \/ ReleasePending(d))'
  BY DEF SlotsAccountedFor
<1>a. TypeOK'
  BY NextTyped
<1>1. d \in Docs
  BY <1>a DEF TypeOK
<1>2. SlotStep(u, d)
  BY <1>1, SlotSteps
<1>3. CASE d \in slots[u]
  BY <1>1, <1>3, SlotHandedOn DEF SlotsAccountedFor
<1>4. CASE d \notin slots[u]
  BY <1>2, <1>4 DEF SlotStep
<1> QED BY <1>3, <1>4

(* Without outages, whatever fails, stops, expires or is delivered twice, and for  *)
(* any number of users, documents and workers: every slot stands for a document    *)
(* about to be stored, an active one, or one whose slot is about to be returned.   *)
THEOREM SlotsAreAccountedFor ==
  ASSUME NoOutage
  PROVE  Spec => []SlotsAccountedFor
<1>1. Init => SlotsAccountedFor
  BY DEF Init, RateLimiterInit, SlotsAccountedFor
<1>2. TypeOK /\ Ownership /\ Ownership' /\ SlotsAccountedFor /\ [Next]_vars => SlotsAccountedFor'
  BY NextSlotsAccountedFor
<1> QED BY <1>1, <1>2, TypeCorrect, OwnershipHolds, PTL DEF Spec
-----------------------------------------------------------------------------
InGoodHands(d) ==
  /\ Status(d) = "queued" => Submitting(d) \/ Waiting(d) \/ Popped(d) \/ Runnable(d)
  /\ Status(d) = "processing" => Claimed(d)

ClaimsHeld == \A d \in Docs : Status(d) = "processing" => Claimed(d)

(* A claim is held until the outcome is in the collection. *)
LEMMA NextClaimsHeld ==
  ASSUME NoOutage, TypeOK, Ownership, ClaimsHeld, [Next]_vars
  PROVE  ClaimsHeld'
<1> SUFFICES ASSUME NEW d \in Docs, docs'[d].status = "processing"
             PROVE  Claimed(d)'
  BY DEF ClaimsHeld, Status
<1>a. StatusStep(d) /\ "mongo" \notin Faults
  BY StatusSteps DEF NoOutage
<1>1. CASE docs'[d].status = docs[d].status
  <2>1. PICK w \in Workers : at[w] = "process" /\ job[w] = d
    BY <1>1 DEF ClaimsHeld, Claimed, Status
  <2>2. at'[w] = "process" /\ job'[w] = d
    BY <2>1, Advances DEF Advance, LoopStep, SuccessStep, FailureStep, Keeps
  <2> QED BY <2>2 DEF Claimed
<1>2. CASE docs'[d].status # docs[d].status
  <2>1. PICK w \in Workers : WorkerStatusStep(d, w)
    BY <1>a, <1>2 DEF StatusStep
  <2> QED BY <1>a, <2>1 DEF WorkerStatusStep, Claimed
<1> QED BY <1>1, <1>2

(* A queued job stays runnable until it is claimed. *)
LEMMA RunnableHandedOn ==
  ASSUME NoOutage, TypeOK, Ownership, [Next]_vars, NEW d \in Docs,
         Status(d) = "queued", docs'[d].status = "queued", Runnable(d)
  PROVE  Runnable(d)'
<1>1. CASE d \in Range(queue)
  BY <1>1, QueueKept DEF Runnable, Taken
<1>2. CASE Taken(d)
  <2>1. PICK w \in Workers : at[w] = "claim" /\ job[w] = d
    BY <1>2 DEF Taken
  <2>2. at'[w] = "claim" /\ job'[w] = d
    BY <2>1, Advances DEF Advance, LoopStep, SuccessStep, FailureStep, Keeps
  <2> QED BY <2>2 DEF Runnable, Taken
<1>3. CASE Backing(d)
  <2>1. PICK w \in Workers : \E t \in retries[w] : t[1] = d
    BY <1>3 DEF Backing
  <2>2. PICK t \in retries[w] : t[1] = d
    BY <2>1
  <2> QED BY <2>2, RetriesKept DEF Runnable, Backing
<1> QED BY <1>1, <1>2, <1>3 DEF Runnable

LEMMA QueuedHandedOn ==
  ASSUME NoOutage, "ttl" \notin Faults, TypeOK, Ownership, [Next]_vars, NEW d \in Docs,
         Status(d) = "queued", docs'[d].status = "queued",
         Submitting(d) \/ Waiting(d) \/ Popped(d) \/ Runnable(d)
  PROVE  (Submitting(d) \/ Waiting(d) \/ Popped(d) \/ Runnable(d))'
<1>1. CASE Submitting(d)
  <2>1. PlaceStep(d) /\ Faults \cap {"redis", "mongo", "crash"} = {}
    BY PlaceSteps DEF NoOutage
  <2>2. \/ request'[d] \in Stored
        \/ d \in Range(queue')
        \/ d \in Range(waiters'[ContentOf[d]])
    BY <1>1, <2>1 DEF PlaceStep, Submitting, Stored
  <2> QED BY <2>2 DEF Submitting, Runnable, Waiting
<1>2. CASE Waiting(d)
  BY <1>2, WaitersKept, EnvironmentAssumption DEF Waiting, Popped
<1>3. CASE Popped(d)
  <2>1. PICK w \in Workers : d \in Range(popped[w])
    BY <1>3 DEF Popped
  <2> QED BY <2>1, PoppedKept DEF Popped, Runnable
<1>4. CASE Runnable(d)
  BY <1>4, RunnableHandedOn
<1> QED BY <1>1, <1>2, <1>3, <1>4

(* A document that becomes queued was just stored, or goes to a scheduled retry. *)
LEMMA NewlyQueued ==
  ASSUME NoOutage, TypeOK, Ownership, [Next]_vars, NEW d \in Docs,
         Status(d) # "queued", docs'[d].status = "queued"
  PROVE  \/ request'[d] = "elect"
         \/ Status(d) = "processing" /\ Runnable(d)'
<1>1. StatusStep(d) /\ "mongo" \notin Faults
  BY StatusSteps DEF NoOutage
<1>2. ASSUME NEW w \in Workers, WorkerStatusStep(d, w)
      PROVE  Status(d) = "processing" /\ Backing(d)'
  BY <1>1, <1>2 DEF WorkerStatusStep, Backing
<1> QED BY <1>1, <1>2 DEF StatusStep, Status, Runnable

LEMMA NextNothingLost ==
  ASSUME NoOutage, "ttl" \notin Faults, TypeOK, Ownership, NoDocumentLost, [Next]_vars
  PROVE  NoDocumentLost'
<1>1. ClaimsHeld'
  BY NextClaimsHeld DEF NoDocumentLost, ClaimsHeld
<1>2. ASSUME NEW d \in Docs, docs'[d].status = "queued"
      PROVE  (Submitting(d) \/ Waiting(d) \/ Popped(d) \/ Runnable(d))'
  <2>1. CASE Status(d) = "queued"
    BY <1>2, <2>1, QueuedHandedOn DEF NoDocumentLost
  <2>2. CASE Status(d) # "queued"
    BY <1>2, <2>2, NewlyQueued DEF Submitting, Stored
  <2> QED BY <2>1, <2>2
<1> QED BY <1>1, <1>2 DEF NoDocumentLost, ClaimsHeld, Status

LEMMA InitNothingLost == Init => NoDocumentLost
BY DEF Init, RepositoryInit, NoDocument, NoDocumentLost, Status

(* Unless Redis, Mongo or a process fails or a waiter list expires, and for any    *)
(* number of documents, texts and workers: a queued document is always with its    *)
(* request, waiting, in a worker's hands, in the queue or in a scheduled retry.    *)
THEOREM NothingIsLost ==
  ASSUME NoOutage, "ttl" \notin Faults
  PROVE  Spec => []NoDocumentLost
<1>1. TypeOK /\ Ownership /\ NoDocumentLost /\ [Next]_vars => NoDocumentLost'
  BY NextNothingLost
<1> QED BY <1>1, InitNothingLost, TypeCorrect, OwnershipHolds, PTL DEF Spec

(* Without outages, expired waiter lists or not: a processing document is the job of *)
(* a worker that is processing it.                                                   *)
LEMMA ClaimsAreHeld ==
  ASSUME NoOutage
  PROVE  Spec => []ClaimsHeld
<1>1. Init => ClaimsHeld
  BY InitNothingLost DEF NoDocumentLost, ClaimsHeld
<1>2. TypeOK /\ Ownership /\ ClaimsHeld /\ [Next]_vars => ClaimsHeld'
  BY NextClaimsHeld
<1> QED BY <1>1, <1>2, TypeCorrect, OwnershipHolds, PTL DEF Spec
-----------------------------------------------------------------------------
(* Locks. *)

(* The holder of a lock holds on to it, unless it deletes it in this step. *)
LEMMA LockHandedOn ==
  ASSUME NoOutage, TypeOK, Ownership, ClaimsHeld, [Next]_vars,
         NEW d \in Docs, HoldsLock(d), lock'[ContentOf[d]] # FALSE
  PROVE  HoldsLock(d)'
<1>a. PlaceStep(d) /\ StatusStep(d) /\ Faults \cap {"redis", "mongo", "crash"} = {}
  BY PlaceSteps, StatusSteps DEF NoOutage
<1>b. ClaimsHeld'
  BY NextClaimsHeld
<1>c. /\ request[d] \in Stored => Status(d) = "queued" /\ ~Runnable(d) /\ ~Popped(d)
      /\ Popped(d) => ~Runnable(d) /\ Status(d) = "queued"
      /\ Claimed(d) => Status(d) = "processing"
  BY DEF Ownership, RequestOwnership, WorkerOwnership, ExclusiveClaim, Unstarted, Popped, Claimed
<1>1. CASE request[d] \in {"recheck", "complete", "release", "unlock", "enqueue"}
  <2>1. \/ request'[d] \in {"recheck", "complete", "release", "unlock", "enqueue"}
        \/ request[d] = "enqueue" /\ d \in Range(queue')
    BY <1>a, <1>1 DEF PlaceStep
  <2>2. ASSUME request[d] = "enqueue", d \in Range(queue')
        PROVE  HoldsLock(d)'
    <3>1. Status(d) = "queued" /\ ~Taken(d) /\ ~Popped(d) /\ ~Claimed(d)
      BY <1>c, <2>2 DEF Stored, Runnable
    <3>2. \A w \in Workers : ~WorkerStatusStep(d, w)
      BY <3>1 DEF WorkerStatusStep, Taken, Popped
    <3>3. docs'[d].status = "queued"
      BY <1>a, <2>2, <3>1, <3>2 DEF StatusStep, Status
    <3> QED BY <2>2, <3>3 DEF HoldsLock, Status, Active, Runnable
  <2> QED BY <2>1, <2>2 DEF HoldsLock
<1>2. CASE Status(d) \in Active /\ (Runnable(d) \/ Claimed(d))
  <2>1. CASE docs'[d].status = "processing"
    BY <1>b, <2>1 DEF ClaimsHeld, Status, Active, HoldsLock
  <2>2. CASE docs'[d].status = "queued"
    <3>1. CASE Status(d) = "queued"
      <4>1. Runnable(d)'
        BY <1>c, <1>2, <2>2, <3>1, RunnableHandedOn
      <4> QED BY <2>2, <4>1 DEF HoldsLock, Status, Active
    <3>2. CASE Status(d) # "queued"
      <4>1. Status(d) # "absent"
        BY <1>2 DEF Active
      <4>2. \E w \in Workers : WorkerStatusStep(d, w)
        BY <1>a, <2>2, <3>2, <4>1 DEF StatusStep, Status
      <4>3. Runnable(d)'
        BY <1>a, <2>2, <4>2 DEF WorkerStatusStep, Runnable, Backing
      <4> QED BY <2>2, <4>3 DEF HoldsLock, Status, Active
    <3> QED BY <3>1, <3>2
  <2>3. CASE docs'[d].status \notin Active
    <3>1. Status(d) # "absent" /\ docs'[d].status # Status(d)
      BY <1>2, <2>3 DEF Active
    <3>2. request[d] # "complete"
      BY <1>c, <1>2 DEF Stored
    <3>3. PICK w \in Workers : WorkerStatusStep(d, w)
      BY <1>a, <3>1, <3>2 DEF StatusStep, Status
    <3>4. ~(at[w] = "resolve" /\ d \in Range(popped[w]))
      BY <1>c, <1>2 DEF Popped
    <3>5. at'[w] \in {"release", "fail_release"} /\ job'[w] = d
      BY <1>a, <2>3, <3>3, <3>4 DEF WorkerStatusStep, Active
    <3> QED BY <3>5 DEF HoldsLock, Success
  <2> QED BY <2>1, <2>2, <2>3 DEF Active
<1>3. ASSUME NEW w \in Workers, job[w] = d, at[w] \in Success \cup {"fail_release", "fail_unlock"}
      PROVE  HoldsLock(d)'
  <2>1. /\ job'[w] = job[w]
        /\ at'[w] \in Success \cup {"fail_release", "fail_unlock"}
    BY <1>3, Advances DEF Advance, LoopStep, SuccessStep, FailureStep, Keeps, Success
  <2> QED BY <1>3, <2>1 DEF HoldsLock
<1> QED BY <1>1, <1>2, <1>3 DEF HoldsLock

LEMMA NextLocksAccountedFor ==
  ASSUME NoOutage, TypeOK, Ownership, ClaimsHeld, LocksAccountedFor, [Next]_vars
  PROVE  LocksAccountedFor'
<1> SUFFICES ASSUME NEW c \in Contents, lock'[c]
             PROVE  \E d \in Docs : ContentOf[d] = c /\ HoldsLock(d)'
  BY DEF LocksAccountedFor
<1>1. CASE lock[c]
  <2>1. PICK d \in Docs : ContentOf[d] = c /\ HoldsLock(d)
    BY <1>1 DEF LocksAccountedFor
  <2> QED BY <2>1, LockHandedOn
<1>2. CASE ~lock[c]
  BY <1>2, LockTaken DEF HoldsLock
<1> QED BY <1>1, <1>2

(* Without outages, and for any number of documents, texts and workers: while a    *)
(* lock is held, a request or a job that will delete it is still under way.        *)
THEOREM LocksAreAccountedFor ==
  ASSUME NoOutage
  PROVE  Spec => []LocksAccountedFor
<1>1. Init => LocksAccountedFor
  BY DEF Init, CacheInit, LocksAccountedFor
<1>2. TypeOK /\ Ownership /\ ClaimsHeld /\ LocksAccountedFor /\ [Next]_vars => LocksAccountedFor'
  BY NextLocksAccountedFor
<1> QED BY <1>1, <1>2, TypeCorrect, OwnershipHolds, ClaimsAreHeld, PTL DEF Spec
-----------------------------------------------------------------------------
(* What may still happen: failures, shutdowns, duplicate deliveries, crashes and *)
(* errors of Mongo.                                                              *)
Steady == Faults \cap {"redis", "ttl", "evict"} = {}

Started(d) == docs[d].attempts > 0
NoneFailed(c) == \A d \in Docs : ContentOf[d] = c => Status(d) # "failed"

LEMMA SteadyMeans ==
  ASSUME Steady
  PROVE  ~RedisRaises /\ "redis" \notin Faults /\ "ttl" \notin Faults /\ "evict" \notin Faults
BY DEF Steady, RedisRaises
-----------------------------------------------------------------------------
(* Only a claim starts a document. *)
AttemptStep(d) ==
  \/ /\ docs'[d].attempts = docs[d].attempts
     /\ docs'[d].status = "processing" => Status(d) = "processing"
  \/ /\ Status(d) = "queued" /\ Taken(d)
     /\ docs'[d].status = "processing" /\ docs'[d].attempts = docs[d].attempts + 1

LEMMA AttemptEffects ==
  ASSUME TypeOK, NEW d \in Docs, NEW m, NEW c, NEW s
  PROVE  /\ Insert(d, s, m, c) => docs'[d].attempts = 0
         /\ MarkCompleted(d, m, c) => docs'[d].attempts = docs[d].attempts
         /\ MarkFailed(d) => docs'[d].attempts = docs[d].attempts
         /\ Requeue(d) => docs'[d].attempts = docs[d].attempts
         /\ ClaimForProcessing(d) =>
              Status(d) = "queued" /\ docs'[d].attempts = docs[d].attempts + 1
<1>1. docs \in [Docs -> DocumentInDB]
  BY DEF TypeOK
<1>2. Insert(d, s, m, c) => docs'[d].attempts = 0
  BY <1>1 DEF Insert
<1>3. MarkCompleted(d, m, c) => docs'[d].attempts = docs[d].attempts
  BY <1>1 DEF MarkCompleted, DocumentInDB
<1>4. MarkFailed(d) => docs'[d].attempts = docs[d].attempts
  BY <1>1 DEF MarkFailed, DocumentInDB
<1>5. Requeue(d) => docs'[d].attempts = docs[d].attempts
  BY <1>1 DEF Requeue, DocumentInDB
<1>6. ClaimForProcessing(d) =>
        Status(d) = "queued" /\ docs'[d].attempts = docs[d].attempts + 1
  BY <1>1 DEF ClaimForProcessing, DocumentInDB
<1> QED BY <1>2, <1>3, <1>4, <1>5, <1>6

LEMMA RequestAttempts ==
  ASSUME TypeOK, Ownership, NEW e \in Docs, Request(e), NEW d \in Docs
  PROVE  AttemptStep(d)
<1>a. request[e] \in Unstored => docs[e].attempts = 0
  BY DEF Ownership, RequestOwnership, NoDocument
<1>1. UNCHANGED docs => AttemptStep(d)
  BY DEF AttemptStep, Status
<1>2. CASE InsertCached(e) \/ InsertQueued(e)
  <2>1. docs[e].attempts = 0
    BY <1>a, <1>2 DEF InsertCached, InsertQueued, Unstored
  <2>2. \/ Insert(e, "completed", found[e], TRUE)
        \/ Insert(e, "queued", Null, FALSE)
        \/ UNCHANGED docs
    BY <1>2 DEF InsertCached, InsertQueued, Store, MongoRaises
  <2>3. ASSUME NEW s \in {"completed", "queued"}, NEW m, NEW c, Insert(e, s, m, c)
        PROVE  AttemptStep(d)
    <3>1. /\ docs'[e].status = s /\ docs'[e].attempts = 0
          /\ \A x \in Docs \ {e} : docs'[x] = docs[x]
      BY <2>3, StatusEffects, AttemptEffects
    <3> QED BY <2>1, <3>1 DEF AttemptStep, Status
  <2> QED BY <1>1, <2>2, <2>3
<1>3. CASE CompleteFromCache(e)
  <2>1. MarkCompleted(e, found[e], TRUE) \/ UNCHANGED docs
    BY <1>3 DEF CompleteFromCache, Store, MongoRaises
  <2>2. MarkCompleted(e, found[e], TRUE) => AttemptStep(d)
    BY StatusEffects, AttemptEffects DEF AttemptStep, Status
  <2> QED BY <1>1, <2>1, <2>2
<1>4. CASE LookUpCache(e) \/ AcquireSlot(e) \/ ElectLeader(e) \/ RecheckCache(e)
  BY <1>1, <1>4 DEF LookUpCache, AcquireSlot, ElectLeader, RecheckCache
<1>5. CASE ReleaseOwnSlot(e) \/ ReleaseOwnLock(e) \/ EnqueueJob(e) \/ JoinWaiters(e)
  BY <1>1, <1>5 DEF ReleaseOwnSlot, ReleaseOwnLock, EnqueueJob, JoinWaiters
<1> QED BY <1>2, <1>3, <1>4, <1>5 DEF Request, Submit

LEMMA MainLoopAttempts ==
  ASSUME TypeOK, NEW w \in Workers, MainLoop(w), NEW d \in Docs
  PROVE  AttemptStep(d)
<1>a. /\ at[w] \notin Loop => job[w] \in Docs
      /\ popped[w] \in Seq(Docs)
  BY DEF TypeOK
<1>1. UNCHANGED docs => AttemptStep(d)
  BY DEF AttemptStep, Status
<1>2. CASE Claim(w)
  <2>1. job[w] \in Docs /\ at[w] = "claim"
    BY <1>a, <1>2 DEF Claim, Loop
  <2>2. ClaimForProcessing(job[w]) \/ UNCHANGED docs
    BY <1>2 DEF Claim, ClaimMatchesNothing, JobRaises, MongoRaises
  <2>3. CASE ClaimForProcessing(job[w])
    BY <2>1, <2>3, StatusEffects, AttemptEffects DEF AttemptStep, Status, Taken
  <2> QED BY <1>1, <2>2, <2>3
<1>3. CASE ProcessingSucceeds(w) \/ ProcessingFails(w) \/ ProcessingFailsForGood(w)
  <2>1. job[w] \in Docs
    BY <1>a, <1>3 DEF ProcessingSucceeds, ProcessingFails, ProcessingFailsForGood, Loop
  <2>2. \/ MarkCompleted(job[w], ContentOf[job[w]], FALSE)
        \/ Requeue(job[w]) \/ MarkFailed(job[w]) \/ UNCHANGED docs
    BY <1>3 DEF ProcessingSucceeds, ProcessingFails, ProcessingFailsForGood, JobRaises,
                MongoRaises
  <2>3. MarkCompleted(job[w], ContentOf[job[w]], FALSE) => AttemptStep(d)
    BY <2>1, StatusEffects, AttemptEffects DEF AttemptStep, Status
  <2>4. Requeue(job[w]) => AttemptStep(d)
    BY <2>1, StatusEffects, AttemptEffects DEF AttemptStep, Status
  <2>5. MarkFailed(job[w]) => AttemptStep(d)
    BY <2>1, StatusEffects, AttemptEffects DEF AttemptStep, Status
  <2> QED BY <1>1, <2>2, <2>3, <2>4, <2>5
<1>4. CASE ResolveWaiter(w)
  <2>1. Head(popped[w]) \in Docs
    BY <1>a, <1>4, RangeHeadTail DEF ResolveWaiter
  <2>2. MarkCompleted(Head(popped[w]), ContentOf[job[w]], TRUE) \/ UNCHANGED docs
    BY <1>4 DEF ResolveWaiter, JobRaises, MongoRaises
  <2>3. MarkCompleted(Head(popped[w]), ContentOf[job[w]], TRUE) => AttemptStep(d)
    BY <2>1, StatusEffects, AttemptEffects DEF AttemptStep, Status
  <2> QED BY <1>1, <2>2, <2>3
<1>5. CASE \/ Poll(w) \/ LeaveLoop(w) \/ CacheResult(w) \/ ReleaseWaiterSlot(w)
           \/ FinishSuccess(w) \/ UnlockAfterFailure(w) \/ PromoteWaiter(w) \/ FinishFailure(w)
  BY <1>1, <1>5 DEF Poll, LeaveLoop, CacheResult, ReleaseWaiterSlot, FinishSuccess,
                    UnlockAfterFailure, PromoteWaiter, FinishFailure
<1>6. CASE \/ ReleaseJobSlot(w, "release", "cache")
           \/ ReleaseJobSlot(w, "fail_release", "fail_unlock")
           \/ TakeWaiters(w, "pop", "resolve") \/ TakeWaiters(w, "fail_pop", "promote")
  BY <1>1, <1>6 DEF ReleaseJobSlot, TakeWaiters
<1> QED BY <1>2, <1>3, <1>4, <1>5, <1>6 DEF MainLoop, Work

LEMMA AttemptSteps ==
  ASSUME TypeOK, Ownership, [Next]_vars, NEW d \in Docs
  PROVE  AttemptStep(d)
<1>1. UNCHANGED docs => AttemptStep(d)
  BY DEF AttemptStep, Status
<1> QED BY <1>1, OthersKeepDocs, RequestAttempts, MainLoopAttempts
-----------------------------------------------------------------------------
(* Where a runnable document comes from. *)
Promoting(d) == \E w \in Workers : at[w] = "promote" /\ d \in Range(popped[w])

LEMMA QueueFrom ==
  ASSUME TypeOK, [Next]_vars, NEW d \in Range(queue')
  PROVE  \/ d \in Range(queue) \/ request[d] = "enqueue" \/ Backing(d) \/ Promoting(d)
         \/ "duplicate" \in Faults /\ Started(d)
<1> DEFINE Came == \/ d \in Range(queue) \/ request[d] = "enqueue" \/ Backing(d) \/ Promoting(d)
                   \/ "duplicate" \in Faults /\ Started(d)
<1>a. UNCHANGED queue => Came
  OBVIOUS
<1>b. ASSUME NEW e \in Docs, Enqueue(e) \/ EnqueueRaises(e) PROVE Came \/ d = e
  BY <1>b, QueueSteps
<1>c. ASSUME NEW e \in Docs, Dequeue(e) PROVE Came
  BY <1>c, QueueSteps
<1>1. ASSUME NEW e \in Docs, Request(e) PROVE Came
  <2>1. CASE EnqueueJob(e)
    BY <1>b, <2>1 DEF EnqueueJob
  <2>2. CASE ~EnqueueJob(e)
    BY <1>1, <1>a, <2>2 DEF Request, Submit, LookUpCache, InsertCached, AcquireSlot, InsertQueued,
       ElectLeader, RecheckCache, CompleteFromCache, ReleaseOwnSlot, ReleaseOwnLock, JoinWaiters
  <2> QED BY <2>1, <2>2
<1>2. ASSUME NEW w \in Workers, MainLoop(w) PROVE Came
  <2>1. CASE Poll(w)
    BY <1>c, <2>1 DEF Poll
  <2>2. CASE PromoteWaiter(w)
    <3>1. popped[w] \in Seq(Docs) /\ popped[w] # <<>> /\ at[w] = "promote"
      BY <2>2, WorkerTypes DEF PromoteWaiter
    <3>2. Head(popped[w]) \in Docs /\ Head(popped[w]) \in Range(popped[w])
      BY <3>1, RangeHeadTail
    <3>3. Enqueue(Head(popped[w])) \/ EnqueueRaises(Head(popped[w]))
      BY <2>2 DEF PromoteWaiter
    <3> QED BY <1>b, <3>1, <3>2, <3>3 DEF Promoting
  <2>3. CASE \/ LeaveLoop(w) \/ Claim(w) \/ ProcessingSucceeds(w) \/ ProcessingFails(w)
             \/ ProcessingFailsForGood(w) \/ CacheResult(w) \/ ResolveWaiter(w)
    BY <1>a, <2>3 DEF LeaveLoop, Claim, ProcessingSucceeds, ProcessingFails,
                ProcessingFailsForGood, CacheResult, ResolveWaiter
  <2>4. CASE \/ ReleaseJobSlot(w, "release", "cache")
             \/ ReleaseJobSlot(w, "fail_release", "fail_unlock")
             \/ TakeWaiters(w, "pop", "resolve") \/ TakeWaiters(w, "fail_pop", "promote")
             \/ ReleaseWaiterSlot(w) \/ FinishSuccess(w) \/ UnlockAfterFailure(w)
             \/ FinishFailure(w)
    BY <1>a, <2>4 DEF ReleaseJobSlot, TakeWaiters, ReleaseWaiterSlot, FinishSuccess,
                UnlockAfterFailure, FinishFailure
  <2> QED BY <1>2, <2>1, <2>2, <2>3, <2>4 DEF MainLoop, Work
<1>3. ASSUME NEW w \in Workers, Backoff(w) PROVE Came
  <2>1. PICK t \in retries[w] : Enqueue(t[1]) \/ EnqueueRaises(t[1])
    BY <1>3 DEF Backoff, RetryFires
  <2>2. t[1] \in Docs
    BY DEF TypeOK
  <2> QED BY <1>b, <2>1, <2>2 DEF Backing
<1>4. ASSUME NEW w \in Workers, Supervise(w) PROVE Came
  <2>1. (\E e \in Docs : Dequeue(e)) \/ UNCHANGED queue
    BY <1>4 DEF Supervise, Drained, SigTerm, WorkerCrash, PollRaises, DequeueRaises, Dies, Restart
  <2> QED BY <1>a, <1>c, <2>1
<1>5. ASSUME NEW e \in Docs, Redeliver(e) PROVE Came
  <2>1. e \in Range(queue) \/ ("duplicate" \in Faults /\ Started(e))
    BY <1>5 DEF Redeliver, Started
  <2> QED BY <1>b, <1>5, <2>1 DEF Redeliver
<1>6. CASE ApiCrash \/ Expire \/ UNCHANGED vars
  BY <1>a, <1>6 DEF ApiCrash, Expire, vars, storeVars
<1> QED BY <1>1, <1>2, <1>3, <1>4, <1>5, <1>6 DEF Next

LEMMA RetriesFrom ==
  ASSUME TypeOK, [Next]_vars, NEW w \in Workers, NEW t \in retries'[w]
  PROVE  t \in retries[w] \/ (at[w] = "process" /\ t[1] = job[w] /\ attempt[w] <= MaxRetries)
<1>a. retries \in [Workers -> SUBSET (Docs \X Nat)]
  BY DEF TypeOK
<1>1. CASE MainLoop(w)
  <2>1. CASE ProcessingFails(w)
    BY <1>a, <2>1 DEF ProcessingFails, JobRaises
  <2>2. CASE \/ Poll(w) \/ LeaveLoop(w) \/ Claim(w) \/ ProcessingSucceeds(w)
             \/ ProcessingFailsForGood(w) \/ CacheResult(w) \/ ResolveWaiter(w)
    BY <2>2 DEF Poll, LeaveLoop, Claim, ProcessingSucceeds, ProcessingFailsForGood,
                CacheResult, ResolveWaiter, JobRaises
  <2>3. CASE \/ ReleaseJobSlot(w, "release", "cache")
             \/ ReleaseJobSlot(w, "fail_release", "fail_unlock")
             \/ TakeWaiters(w, "pop", "resolve") \/ TakeWaiters(w, "fail_pop", "promote")
             \/ ReleaseWaiterSlot(w) \/ FinishSuccess(w) \/ UnlockAfterFailure(w)
             \/ PromoteWaiter(w) \/ FinishFailure(w)
    BY <2>3 DEF ReleaseJobSlot, TakeWaiters, ReleaseWaiterSlot, FinishSuccess,
                UnlockAfterFailure, PromoteWaiter, FinishFailure
  <2> QED BY <1>1, <2>1, <2>2, <2>3 DEF MainLoop, Work
<1>2. CASE Backoff(w) \/ Supervise(w)
  BY <1>a, <1>2 DEF Backoff, RetryFires, Supervise, Drained, SigTerm, WorkerCrash, PollRaises,
                    Dies, Restart
<1>3. CASE UNCHANGED workerVars
  BY <1>3 DEF workerVars
<1>4. CASE (\E d \in Docs : Request(d) \/ Redeliver(d)) \/ Expire \/ UNCHANGED vars
  BY <1>3, <1>4 DEF Request, Redeliver, Expire, vars
<1> QED BY <1>1, <1>2, <1>3, <1>4, OthersStand DEF Next, Standing

LEMMA RunnableFrom ==
  ASSUME Steady, TypeOK, [Next]_vars, NEW d \in Docs, Runnable(d)'
  PROVE  Runnable(d) \/ Started(d) \/ request[d] = "enqueue" \/ Promoting(d) \/ Claimed(d)
<1>1. CASE d \in Range(queue')
  BY <1>1, QueueFrom DEF Runnable
<1>2. CASE Taken(d)'
  <2>1. PICK w \in Workers : at'[w] = "claim" /\ job'[w] = d
    BY <1>2 DEF Taken
  <2>2. Advance(w)
    BY <2>1, SteadyMeans, AdvancesOrDrops DEF Drops, Loop
  <2>3. \/ at[w] = "claim" /\ job[w] = d
        \/ queue # <<>> /\ d = Head(queue)
    BY <2>1, <2>2 DEF Advance, LoopStep, SuccessStep, FailureStep, Keeps, Idle
  <2>4. queue # <<>> => Head(queue) \in Range(queue)
    <3>1. queue \in Seq(Docs)
      BY DEF TypeOK
    <3> QED BY <3>1, RangeHeadTail
  <2> QED BY <2>3, <2>4 DEF Runnable, Taken
<1>3. CASE Backing(d)'
  <2>1. PICK w \in Workers : \E t \in retries'[w] : t[1] = d
    BY <1>3 DEF Backing
  <2>2. PICK t \in retries'[w] : t[1] = d
    BY <2>1
  <2> QED BY <2>2, RetriesFrom DEF Runnable, Backing, Claimed
<1> QED BY <1>1, <1>2, <1>3 DEF Runnable
-----------------------------------------------------------------------------
(* Locks and cached summaries. *)

LEMMA OwnRequest ==
  ASSUME TypeOK, [Next]_vars, NEW d \in Docs, request'[d] \notin {request[d], "aborted"}
  PROVE  Request(d)
<1>1. ~ApiCrash /\ ~UNCHANGED requestVars
  BY DEF ApiCrash, requestVars
<1> QED BY <1>1, OthersKeepRequests, RequestPlace

LEMMA LockWon ==
  ASSUME Steady, TypeOK, [Next]_vars, NEW d \in Docs, request[d] # "recheck", request'[d] = "recheck"
  PROVE  request[d] = "elect" /\ ~lock[ContentOf[d]] /\ lock'[ContentOf[d]]
<1>1. Request(d) /\ request[d] = "elect"
  BY OwnRequest, PlaceSteps DEF PlaceStep
<1>2. ElectLeader(d)
  BY <1>1 DEF Request, Submit, LookUpCache, InsertCached, AcquireSlot, InsertQueued,
     RecheckCache, CompleteFromCache, ReleaseOwnSlot, ReleaseOwnLock, EnqueueJob, JoinWaiters
<1>3. /\ request \in [Docs -> {"new"} \cup InProgress \cup Ended]
      /\ lock \in [Contents -> BOOLEAN] /\ ContentOf[d] \in Contents
  BY EnvironmentAssumption DEF TypeOK
<1>4. \/ TryAcquireProcessingLock(ContentOf[d], TRUE)
      \/ request' = [request EXCEPT ![d] = "register"]
  BY <1>2 DEF ElectLeader, GoTo
<1>5. TryAcquireProcessingLock(ContentOf[d], TRUE)
  BY <1>3, <1>4
<1> QED BY <1>1, <1>3, <1>5 DEF TryAcquireProcessingLock

LEMMA RecheckMisses ==
  ASSUME Steady, TypeOK, [Next]_vars, NEW d \in Docs, request[d] # "enqueue", request'[d] = "enqueue"
  PROVE  request[d] = "recheck" /\ cache[ContentOf[d]] = Null /\ docs' = docs
<1>1. Request(d) /\ request[d] = "recheck"
  BY OwnRequest, PlaceSteps DEF PlaceStep
<1>2. RecheckCache(d)
  BY <1>1 DEF Request, Submit, LookUpCache, InsertCached, AcquireSlot, InsertQueued,
     ElectLeader, CompleteFromCache, ReleaseOwnSlot, ReleaseOwnLock, EnqueueJob, JoinWaiters
<1>3. request \in [Docs -> {"new"} \cup InProgress \cup Ended]
  BY DEF TypeOK
<1>4. PICK m \in Contents \cup {Null} :
        /\ CacheGet(ContentOf[d], m)
        /\ m # Null => request' = [request EXCEPT ![d] = "complete"]
  BY <1>2 DEF RecheckCache, ReadCache
<1>5. m = Null
  BY <1>3, <1>4
<1> QED BY <1>1, <1>2, <1>4, <1>5, SteadyMeans DEF CacheGet, RecheckCache

(* Three places of the code delete a lock. *)
LockDeleted(c) ==
  \/ \E d \in Docs : ContentOf[d] = c /\ request[d] = "unlock" /\ request'[d] = "served"
  \/ \E w \in Workers : /\ at[w] = "resolve" /\ at'[w] \in Idle /\ ContentOf[job[w]] = c
  \/ \E w \in Workers : /\ at[w] = "fail_unlock" /\ ContentOf[job[w]] = c

LEMMA LockReturned ==
  ASSUME Steady, TypeOK, [Next]_vars, NEW c \in Contents, lock[c], ~lock'[c]
  PROVE  LockDeleted(c)
<1>a. /\ lock \in [Contents -> BOOLEAN] /\ request \in [Docs -> {"new"} \cup InProgress \cup Ended]
      /\ "ttl" \notin Faults
  BY SteadyMeans DEF TypeOK
<1>1. ASSUME NEW e \in Docs, Request(e) PROVE LockDeleted(c)
  <2>1. CASE ReleaseOwnLock(e)
    BY <1>a, <2>1 DEF ReleaseOwnLock, ReleaseProcessingLock, GoTo, LockDeleted
  <2>2. CASE ElectLeader(e)
    BY <1>a, <2>2 DEF ElectLeader, TryAcquireProcessingLock
  <2>3. CASE ~ElectLeader(e) /\ ~ReleaseOwnLock(e)
    BY <1>1, <2>3 DEF Request, Submit, LookUpCache, InsertCached, AcquireSlot, InsertQueued,
       RecheckCache, CompleteFromCache, ReleaseOwnSlot, EnqueueJob, JoinWaiters, ReadCache,
       CacheGet, RegisterWaiter, cacheVars
  <2> QED BY <2>1, <2>2, <2>3
<1>2. ASSUME NEW w \in Workers, MainLoop(w) PROVE LockDeleted(c)
  <2>1. CASE FinishSuccess(w)
    <3>1. at[w] = "resolve" /\ at'[w] \in Idle /\ ReleaseProcessingLock(ContentOf[job[w]])
      BY <2>1, EndOfJob DEF FinishSuccess
    <3> QED BY <1>a, <3>1 DEF ReleaseProcessingLock, LockDeleted
  <2>2. CASE UnlockAfterFailure(w)
    BY <1>a, <2>2 DEF UnlockAfterFailure, ReleaseProcessingLock, LockDeleted
  <2>3. CASE \/ Poll(w) \/ LeaveLoop(w) \/ Claim(w) \/ ProcessingSucceeds(w) \/ ProcessingFails(w)
             \/ ProcessingFailsForGood(w) \/ CacheResult(w) \/ ResolveWaiter(w)
    BY <2>3 DEF Poll, LeaveLoop, Claim, ProcessingSucceeds, ProcessingFails,
                ProcessingFailsForGood, CacheResult, CacheSet, ResolveWaiter, cacheVars
  <2>4. CASE \/ ReleaseJobSlot(w, "release", "cache")
             \/ ReleaseJobSlot(w, "fail_release", "fail_unlock")
             \/ TakeWaiters(w, "pop", "resolve") \/ TakeWaiters(w, "fail_pop", "promote")
             \/ ReleaseWaiterSlot(w) \/ PromoteWaiter(w) \/ FinishFailure(w)
    BY <2>4 DEF ReleaseJobSlot, TakeWaiters, PopWaiters, ReleaseWaiterSlot, PromoteWaiter,
                FinishFailure, cacheVars
  <2> QED BY <1>2, <2>1, <2>2, <2>3, <2>4 DEF MainLoop, Work
<1>3. ASSUME NEW w \in Workers, Backoff(w) \/ Supervise(w) PROVE UNCHANGED lock
  BY <1>3 DEF Backoff, Supervise, RetryFires, Drained, SigTerm, WorkerCrash, PollRaises,
              Dies, Restart, cacheVars
<1>4. CASE Expire
  BY <1>a, <1>4 DEF Expire, ExpireCache, ExpireLock, ExpireWaiters, cacheVars
<1>5. CASE ApiCrash \/ (\E e \in Docs : Redeliver(e)) \/ UNCHANGED vars
  BY <1>5 DEF ApiCrash, Redeliver, vars, storeVars, cacheVars
<1> QED BY <1>1, <1>2, <1>3, <1>4, <1>5 DEF Next

LEMMA CacheStays ==
  ASSUME Steady, TypeOK, [Next]_vars
  PROVE  /\ \A c \in Contents : cache[c] # Null => cache'[c] # Null
         /\ \A w \in Workers : at[w] = "cache" /\ at'[w] = "pop" => cache'[ContentOf[job[w]]] # Null
<1>a. /\ cache \in [Contents -> Contents \cup {Null}] /\ Null \notin Contents
      /\ "evict" \notin Faults /\ ~RedisRaises
      /\ \A w \in Workers : at[w] = "cache" => ContentOf[job[w]] \in Contents
  BY SteadyMeans, WorkerTypes, EnvironmentAssumption DEF TypeOK, Loop
<1>1. ASSUME NEW v \in Workers, CacheResult(v)
      PROVE  /\ \A c \in Contents : cache[c] # Null => cache'[c] # Null
             /\ cache'[ContentOf[job[v]]] # Null
  BY <1>a, <1>1 DEF CacheResult, CacheSet
<1>2. ASSUME NEW v \in Workers, MainLoop(v), ~CacheResult(v)
      PROVE  UNCHANGED cache /\ ~(at[v] = "cache" /\ at'[v] = "pop")
  <2>1. CASE \/ Poll(v) \/ LeaveLoop(v) \/ Claim(v) \/ ProcessingSucceeds(v) \/ ProcessingFails(v)
             \/ ProcessingFailsForGood(v) \/ ResolveWaiter(v)
    BY <2>1 DEF Poll, LeaveLoop, Claim, ProcessingSucceeds, ProcessingFails,
                ProcessingFailsForGood, ResolveWaiter, cacheVars
  <2>2. CASE \/ ReleaseJobSlot(v, "release", "cache")
             \/ ReleaseJobSlot(v, "fail_release", "fail_unlock")
             \/ TakeWaiters(v, "pop", "resolve") \/ TakeWaiters(v, "fail_pop", "promote")
             \/ ReleaseWaiterSlot(v) \/ FinishSuccess(v) \/ UnlockAfterFailure(v)
             \/ PromoteWaiter(v) \/ FinishFailure(v)
    BY <2>2 DEF ReleaseJobSlot, TakeWaiters, PopWaiters, ReleaseWaiterSlot, FinishSuccess,
                UnlockAfterFailure, ReleaseProcessingLock, PromoteWaiter, FinishFailure, cacheVars
  <2> QED BY <1>2, <2>1, <2>2 DEF MainLoop, Work
<1>3. ASSUME NEW v \in Workers, Backoff(v) \/ Supervise(v)
      PROVE  UNCHANGED cache /\ ~(at[v] = "cache" /\ at'[v] = "pop")
  <2>1. UNCHANGED cache
    BY <1>3 DEF Backoff, Supervise, RetryFires, Drained, SigTerm, WorkerCrash, PollRaises,
                Dies, Restart, cacheVars
  <2>2. ~(at[v] = "cache" /\ at'[v] = "pop")
    BY <1>3, StepOfWorker
       DEF Backoff, Supervise, RetryFires, Drained, SigTerm, WorkerCrash, PollRaises, Dies, Restart
  <2> QED BY <2>1, <2>2
<1>4. ASSUME NEW e \in Docs, Request(e) PROVE UNCHANGED <<cache, at>>
  BY <1>4 DEF Request, Submit, LookUpCache, InsertCached, AcquireSlot, InsertQueued, ElectLeader,
       RecheckCache, CompleteFromCache, ReleaseOwnSlot, ReleaseOwnLock, EnqueueJob, JoinWaiters,
       ReadCache, CacheGet, RegisterWaiter, TryAcquireProcessingLock, ReleaseProcessingLock,
       cacheVars, workerVars
<1>5. CASE Expire
  <2>1. UNCHANGED <<cache, at>>
    BY <1>a, <1>5 DEF Expire, ExpireCache, ExpireLock, ExpireWaiters, cacheVars, workerVars
  <2> QED BY <2>1
<1>6. CASE (ApiCrash /\ UNCHANGED workerVars) \/ (\E e \in Docs : Redeliver(e)) \/ UNCHANGED vars
  BY <1>6 DEF ApiCrash, Redeliver, vars, storeVars, cacheVars, workerVars
<1>7. ASSUME NEW v \in Workers, MainLoop(v) \/ Backoff(v) \/ Supervise(v), NEW w \in Workers \ {v}
      PROVE  at'[w] = at[w]
  BY <1>7, OthersStand DEF Standing
<1> QED BY <1>1, <1>2, <1>3, <1>4, <1>5, <1>6, <1>7 DEF Next
-----------------------------------------------------------------------------
(* Which documents the workers have in hand, and which requests never started one. *)
Hands ==
  /\ \A w \in Workers : at[w] \in Success => Status(job[w]) = "completed" /\ Started(job[w])
  /\ \A w \in Workers : at[w] \in Failure => Status(job[w]) = "failed"
  /\ \A w, v \in Workers :
       at[w] \in Success /\ at[v] \in Success /\ job[w] = job[v] => w = v
  /\ \A d \in Docs : request[d] \in Settling => ~Started(d)
  /\ \A d \in Docs : Status(d) = "processing" => Started(d)

LEMMA AttemptsGrow ==
  ASSUME TypeOK, Ownership, [Next]_vars, NEW d \in Docs
  PROVE  /\ Started(d) => Started(d)'
         /\ Started(d)' => \/ Started(d)
                           \/ Status(d) = "queued" /\ Taken(d) /\ docs'[d].status = "processing"
         /\ docs'[d].status = "processing" => Started(d)' \/ Status(d) = "processing"
<1>1. docs[d].attempts \in Nat
  BY DocumentFields DEF TypeOK
<1> QED BY <1>1, AttemptSteps DEF AttemptStep, Started

(* A worker is at a place of Success or Failure with the job it processed. *)
LEMMA HandsFrom ==
  ASSUME Steady, TypeOK, [Next]_vars, NEW w \in Workers
  PROVE  /\ at'[w] \in Success =>
              /\ job'[w] = job[w]
              /\ \/ at[w] \in Success
                 \/ at[w] = "process" /\ docs'[job[w]].status = "completed"
         /\ at'[w] \in Failure =>
              /\ job'[w] = job[w]
              /\ \/ at[w] \in Failure
                 \/ at[w] = "process" /\ docs'[job[w]].status = "failed"
<1>1. at'[w] \in Success \cup Failure => Advance(w)
  BY SteadyMeans, AdvancesOrDrops DEF Drops, Loop, Success, Failure
<1> QED BY <1>1 DEF Advance, LoopStep, SuccessStep, FailureStep, Keeps, Idle, Success, Failure

LEMMA NextHands ==
  ASSUME Steady, TypeOK, Ownership, Outcomes, Hands, [Next]_vars
  PROVE  Hands'
<1>b. \A w \in Workers : at[w] \in Success \cup Failure \cup {"process"} => job[w] \in Docs
  BY DEF TypeOK, Success, Failure, Loop
<1>c. \A w \in Workers : at[w] = "process" => Status(job[w]) = "processing"
  BY DEF Ownership, ExclusiveClaim
<1>1. ASSUME NEW w \in Workers, at'[w] \in Success
      PROVE  docs'[job'[w]].status = "completed" /\ Started(job[w])' /\ job'[w] = job[w]
  <2>1. /\ job'[w] = job[w] /\ job[w] \in Docs
        /\ \/ at[w] \in Success
           \/ at[w] = "process" /\ docs'[job[w]].status = "completed"
    BY <1>b, <1>1, HandsFrom
  <2>2. Started(job[w])
    BY <1>c, <2>1 DEF Hands
  <2>3. Status(job[w]) = "completed" => docs'[job[w]].status = "completed"
    BY <2>1, StatusKept DEF Terminal
  <2> QED BY <2>1, <2>2, <2>3, AttemptsGrow DEF Hands
<1>2. ASSUME NEW w \in Workers, at'[w] \in Failure
      PROVE  docs'[job'[w]].status = "failed"
  <2>1. /\ job'[w] = job[w] /\ job[w] \in Docs
        /\ \/ at[w] \in Failure
           \/ at[w] = "process" /\ docs'[job[w]].status = "failed"
    BY <1>b, <1>2, HandsFrom
  <2> QED BY <2>1, StatusKept DEF Terminal, Hands
<1>3. ASSUME NEW w \in Workers, NEW v \in Workers,
             at'[w] \in Success, at'[v] \in Success, job'[w] = job'[v]
      PROVE  w = v
  <2>1. /\ at[w] \in Success \cup {"process"} /\ at[v] \in Success \cup {"process"}
        /\ job[w] = job[v]
    BY <1>3, HandsFrom
  <2>2. at[w] \in Success /\ at[v] \in Success => w = v
    BY <2>1 DEF Hands
  <2>3. at[w] = "process" /\ at[v] = "process" => w = v
    BY <2>1 DEF Ownership, ExclusiveClaim
  <2>4. ~(at[w] = "process" /\ at[v] \in Success) /\ ~(at[w] \in Success /\ at[v] = "process")
    BY <1>c, <2>1 DEF Hands
  <2> QED BY <2>1, <2>2, <2>3, <2>4
<1>4. ASSUME NEW d \in Docs, request'[d] \in Settling PROVE ~Started(d)'
  <2>1. request[d] \in Settling \cup {"complete"}
    BY <1>4, PlaceSteps DEF PlaceStep, Settling
  <2>2. ~Started(d)
    <3>1. request[d] = "complete" => docs[d].attempts = 0
      BY DEF Ownership, RequestOwnership, Stored, Unstarted
    <3> QED BY <2>1, <3>1 DEF Hands, Started
  <2>3. ~(Status(d) = "queued" /\ Taken(d))
    BY <2>1 DEF Outcomes, Ownership, RequestOwnership, Stored, Unstarted, Runnable
  <2> QED BY <2>2, <2>3, AttemptsGrow
<1>5. ASSUME NEW d \in Docs, docs'[d].status = "processing" PROVE Started(d)'
  BY <1>5, AttemptsGrow DEF Hands
<1> QED BY <1>1, <1>2, <1>3, <1>4, <1>5 DEF Hands, Status
-----------------------------------------------------------------------------
(* Whom the lock of a text stands for, although its value names nobody: a request   *)
(* between its election and its answer, a job until it is done.  A job that was     *)
(* started counts for as long as its document is active, even when nobody is left   *)
(* to finish it.                                                                    *)
Holder(d) ==
  \/ request[d] \in {"recheck", "complete", "release", "unlock", "enqueue"}
  \/ Status(d) \in Active /\ (Runnable(d) \/ Started(d))
  \/ \E w \in Workers : job[w] = d /\ at[w] \in Success

(* About to start for the first time. *)
ToStart(d) ==
  /\ ~Started(d)
  /\ request[d] = "enqueue" \/ (Status(d) = "queued" /\ Runnable(d))

(* The summary of d is in the cache, or d is about to put it there. *)
Accounted(d) ==
  \/ Status(d) \in Active
  \/ \E w \in Workers : job[w] = d /\ at[w] \in {"release", "cache"}
  \/ cache[ContentOf[d]] # Null

(* The job that held the lock was dropped: nobody is left to delete the lock, and *)
(* while it is there nobody wins it.                                              *)
Abandoned(c) == lock[c] /\ \A d \in Docs : ContentOf[d] = c => ~Holder(d)

OneLeaderOf(c) ==
  \A d, e \in Docs :
    (ContentOf[d] = c /\ ContentOf[e] = c) =>
      /\ Holder(d) => lock[c]
      /\ Holder(d) /\ Holder(e) => d = e
      /\ Started(d) => Accounted(d) \/ Abandoned(c)
      /\ ToStart(d) => ~Started(e)
      /\ Started(d) /\ Started(e) => d = e

Once == \A c \in Contents : NoneFailed(c) => OneLeaderOf(c)

OnceInvariants == TypeOK /\ Ownership /\ Outcomes /\ Hands /\ Once

LEMMA StillNoneFailed ==
  ASSUME TypeOK, Ownership, [Next]_vars, NEW c, NoneFailed(c)'
  PROVE  NoneFailed(c)
BY StatusKept DEF NoneFailed, Status, Terminal

(* Only a job that failed for good promotes its waiters. *)
LEMMA NotPromoting ==
  ASSUME TypeOK, Ownership, Hands, NEW d \in Docs, NoneFailed(ContentOf[d])
  PROVE  ~Promoting(d)
<1> SUFFICES ASSUME NEW w \in Workers, at[w] = "promote", d \in Range(popped[w])
             PROVE  FALSE
  BY DEF Promoting
<1>1. ContentOf[d] = ContentOf[job[w]] /\ job[w] \in Docs
  BY DEF Ownership, WorkerOwnership, TypeOK, Loop
<1>2. Status(job[w]) = "failed"
  BY DEF Hands, Failure
<1> QED BY <1>1, <1>2 DEF NoneFailed

(* A document just stored is its request's, and nobody else's. *)
LEMMA JustStored ==
  ASSUME Steady, TypeOK, Ownership, [Next]_vars,
         NEW d \in Docs, Status(d) \notin Active, docs'[d].status \in Active
  PROVE  ~Runnable(d)' /\ ~Started(d)'
<1>1. Status(d) = "absent" /\ request[d] = "insert"
  BY StatusKept
<1>2. ~Runnable(d) /\ ~Started(d) /\ ~Popped(d)
  BY <1>1 DEF Ownership, RequestOwnership, Unstored, Unstarted, Started
<1>3. ~Promoting(d) /\ ~Claimed(d)
  BY <1>1, <1>2 DEF Promoting, Popped, Claimed, Ownership, ExclusiveClaim
<1> QED BY <1>1, <1>2, <1>3, RunnableFrom, AttemptsGrow

(* Nobody becomes the holder but by winning the lock. *)
LEMMA HolderFrom ==
  ASSUME Steady, TypeOK, Ownership, Hands, [Next]_vars,
         NEW d \in Docs, NoneFailed(ContentOf[d]), Holder(d)'
  PROVE  Holder(d) \/ (request[d] # "recheck" /\ request'[d] = "recheck")
<1>1. CASE request'[d] \in {"recheck", "complete", "release", "unlock", "enqueue"}
  BY <1>1, PlaceSteps DEF PlaceStep, Holder
<1>2. ASSUME NEW w \in Workers, job'[w] = d, at'[w] \in Success PROVE Holder(d)
  <2>1. job[w] = d /\ at[w] \in Success \cup {"process"}
    BY <1>2, HandsFrom
  <2>2. at[w] = "process" => Status(d) = "processing" /\ Started(d)
    BY <2>1 DEF Ownership, ExclusiveClaim, Hands
  <2> QED BY <2>1, <2>2 DEF Holder, Active
<1>3. CASE docs'[d].status \in Active /\ (Runnable(d)' \/ Started(d)')
  <2>1. Status(d) \in Active
    BY <1>3, JustStored
  <2>2. CASE Started(d)
    BY <2>1, <2>2 DEF Holder
  <2>3. CASE ~Started(d)
    <3>1. Status(d) = "queued"
      BY <2>1, <2>3 DEF Hands, Active
    <3>2. Started(d)' => Runnable(d)
      BY <2>3, AttemptsGrow DEF Runnable
    <3>3. ~Promoting(d) /\ ~Claimed(d)
      BY <3>1, NotPromoting DEF Ownership, ExclusiveClaim, Claimed
    <3>4. Runnable(d) \/ request[d] = "enqueue"
      BY <1>3, <2>3, <3>2, <3>3, RunnableFrom
    <3> QED BY <2>1, <3>4 DEF Holder
  <2> QED BY <2>2, <2>3
<1> QED BY <1>1, <1>2, <1>3 DEF Holder, Status

(* Whoever deletes the lock no longer needs it. *)
LEMMA ServedHoldsNothing ==
  ASSUME Steady, TypeOK, Ownership, Outcomes, Hands, [Next]_vars,
         NEW d \in Docs, request[d] = "unlock", request'[d] = "served"
  PROVE  ~Holder(d)'
<1>1. Status(d) = "completed" /\ ~Started(d)
  BY DEF Outcomes, Hands, Settling
<1>2. docs'[d].status = "completed"
  BY <1>1, StatusKept DEF Terminal
<1>3. ASSUME NEW w \in Workers, job'[w] = d, at'[w] \in Success PROVE FALSE
  <2>1. job[w] = d /\ at[w] \in Success \cup {"process"}
    BY <1>3, HandsFrom
  <2>2. at[w] = "process" => Status(d) # "completed"
    BY <2>1 DEF Ownership, ExclusiveClaim
  <2> QED BY <1>1, <2>1, <2>2 DEF Hands
<1> QED BY <1>2, <1>3 DEF Holder, Status, Active

LEMMA StartedNeverRequests ==
  ASSUME TypeOK, Ownership, Hands, [Next]_vars, NEW d \in Docs, Started(d)
  PROVE  /\ request[d] \notin Stored \cup Settling
         /\ request'[d] \notin {"recheck", "complete", "release", "unlock", "enqueue"}
<1>1. request[d] \notin Stored \cup Settling
  BY DEF Hands, Ownership, RequestOwnership, Unstarted, Started
<1> QED BY <1>1, PlaceSteps DEF PlaceStep, Stored, Settling

LEMMA FinishedHoldsNothing ==
  ASSUME Steady, TypeOK, Ownership, Hands, [Next]_vars,
         NEW w \in Workers, NEW d \in Docs, job[w] = d, at[w] = "resolve", at'[w] \in Idle
  PROVE  ~Holder(d)'
<1>1. Status(d) = "completed" /\ Started(d)
  BY DEF Hands, Success
<1>2. docs'[d].status = "completed"
  BY <1>1, StatusKept DEF Terminal
<1>3. ASSUME NEW v \in Workers, job'[v] = d, at'[v] \in Success PROVE FALSE
  <2>1. job[v] = d /\ at[v] \in Success \cup {"process"}
    BY <1>3, HandsFrom
  <2>2. at[v] = "process" => Status(d) # "completed"
    BY <2>1 DEF Ownership, ExclusiveClaim
  <2>3. v = w
    BY <1>1, <2>1, <2>2 DEF Hands, Success
  <2> QED BY <1>3, <2>3 DEF Idle, Success
<1> QED BY <1>1, <1>2, <1>3, StartedNeverRequests DEF Holder, Status, Active

(* Only the holder deletes a lock, and holds it no longer. *)
Returns(d) ==
  /\ Holder(d) /\ ~Holder(d)'
  /\ request[d] = "unlock" \/ \E w \in Workers : at[w] = "resolve" /\ job[w] = d

LEMMA OnlyHoldersReturn ==
  ASSUME Steady, OnceInvariants, [Next]_vars,
         NEW c \in Contents, NoneFailed(c), lock[c], ~lock'[c]
  PROVE  \E d \in Docs : ContentOf[d] = c /\ Returns(d)
<1> USE DEF OnceInvariants
<1>1. LockDeleted(c)
  BY LockReturned
<1>2. ASSUME NEW d \in Docs, ContentOf[d] = c, request[d] = "unlock", request'[d] = "served"
      PROVE  Returns(d)
  BY <1>2, ServedHoldsNothing DEF Returns, Holder
<1>3. ASSUME NEW w \in Workers, NEW d \in Docs, job[w] = d,
             at[w] = "resolve", at'[w] \in Idle
      PROVE  Returns(d)
  <2>1. Holder(d)
    BY <1>3 DEF Holder, Success
  <2>2. ~Holder(d)'
    BY <1>3, FinishedHoldsNothing
  <2> QED BY <1>3, <2>1, <2>2 DEF Returns
<1>r. \A w \in Workers : at[w] = "resolve" => job[w] \in Docs
  BY DEF TypeOK, Loop
<1>4. ASSUME NEW w \in Workers, at[w] = "fail_unlock", ContentOf[job[w]] = c
      PROVE  FALSE
  <2>1. job[w] \in Docs /\ Status(job[w]) = "failed"
    BY <1>4 DEF TypeOK, Loop, Hands, Failure
  <2> QED BY <1>4, <2>1 DEF NoneFailed
<1> QED BY <1>1, <1>2, <1>3, <1>r, <1>4 DEF LockDeleted

LEMMA HolderKeepsLock ==
  ASSUME Steady, OnceInvariants, [Next]_vars,
         NEW d \in Docs, NoneFailed(ContentOf[d]), Holder(d)'
  PROVE  lock'[ContentOf[d]]
<1> DEFINE c == ContentOf[d]
<1> USE DEF OnceInvariants
<1>a. c \in Contents /\ OneLeaderOf(c)
  BY EnvironmentAssumption DEF Once
<1>1. CASE request[d] # "recheck" /\ request'[d] = "recheck"
  BY <1>1, LockWon
<1>2. CASE Holder(d)
  <2>1. lock[c]
    BY <1>a, <1>2 DEF OneLeaderOf
  <2>2. ASSUME NEW e \in Docs, ContentOf[e] = c, Returns(e) PROVE FALSE
    BY <1>a, <1>2, <2>2 DEF OneLeaderOf, Returns
  <2> QED BY <1>a, <2>1, <2>2, OnlyHoldersReturn
<1> QED BY <1>1, <1>2, HolderFrom

LEMMA OneHolder ==
  ASSUME Steady, OnceInvariants, [Next]_vars,
         NEW d \in Docs, NEW e \in Docs, ContentOf[d] = ContentOf[e],
         NoneFailed(ContentOf[d]), Holder(d)', Holder(e)'
  PROVE  d = e
<1> DEFINE Wins(x) == request[x] # "recheck" /\ request'[x] = "recheck"
           c == ContentOf[d]
<1> USE DEF OnceInvariants
<1>a. c \in Contents /\ OneLeaderOf(c)
  BY EnvironmentAssumption DEF Once
<1>1. (Holder(d) \/ Wins(d)) /\ (Holder(e) \/ Wins(e))
  BY HolderFrom
<1>2. Holder(d) /\ Holder(e) => d = e
  BY <1>a DEF OneLeaderOf
<1>3. Wins(d) => ~Holder(e)
  BY <1>a, LockWon DEF OneLeaderOf
<1>4. Wins(e) => ~Holder(d)
  BY <1>a, LockWon DEF OneLeaderOf
<1>5. Wins(d) /\ Wins(e) => d = e
  BY OwnRequest, RequestPlace
<1> QED BY <1>1, <1>2, <1>3, <1>4, <1>5

LEMMA AbandonedStays ==
  ASSUME Steady, OnceInvariants, [Next]_vars, NEW c \in Contents, NoneFailed(c), Abandoned(c)
  PROVE  Abandoned(c)'
<1> USE DEF OnceInvariants
<1>1. lock'[c]
  BY OnlyHoldersReturn DEF Abandoned, Returns
<1>2. ASSUME NEW d \in Docs, ContentOf[d] = c, Holder(d)' PROVE FALSE
  BY <1>2, HolderFrom, LockWon DEF Abandoned
<1> QED BY <1>1, <1>2 DEF Abandoned

(* Where a started document is no longer accounted for, its job was dropped with *)
(* the lock held.                                                                *)
LEMMA DroppedIsAbandoned ==
  ASSUME Steady, OnceInvariants, [Next]_vars,
         NEW d \in Docs, NoneFailed(ContentOf[d]), Started(d), Accounted(d), ~Accounted(d)'
  PROVE  Abandoned(ContentOf[d])'
<1> DEFINE c == ContentOf[d]
<1> USE DEF OnceInvariants
<1>a. c \in Contents /\ OneLeaderOf(c)
  BY EnvironmentAssumption DEF Once
<1>1. cache[c] = Null /\ cache'[c] = Null /\ docs'[d].status \notin Active
  BY <1>a, CacheStays DEF Accounted, Status
<1>2. \/ Status(d) \in Active
      \/ \E w \in Workers : job[w] = d /\ at[w] \in {"release", "cache"}
  BY <1>1 DEF Accounted
<1>3. Holder(d)
  BY <1>2 DEF Holder, Success
<1>4. ASSUME NEW v \in Workers, job[v] = d, at[v] \in {"pop", "resolve", "release_waiter"}
      PROVE  FALSE
  <2>1. Status(d) \notin Active
    BY <1>4 DEF Hands, Success, Active
  <2>2. PICK w \in Workers : job[w] = d /\ at[w] \in {"release", "cache"}
    BY <1>2, <2>1
  <2>3. w = v
    BY <1>4, <2>2 DEF Hands, Success
  <2> QED BY <1>4, <2>2, <2>3
<1>5. lock'[c]
  <2>1. lock[c]
    BY <1>a, <1>3 DEF OneLeaderOf
  <2>2. ASSUME NEW e \in Docs, ContentOf[e] = c, Returns(e) PROVE FALSE
    <3>1. e = d
      BY <1>a, <1>3, <2>2 DEF OneLeaderOf, Returns
    <3> QED BY <1>4, <2>2, <3>1, StartedNeverRequests DEF Returns, Settling
  <2> QED BY <1>a, <2>1, <2>2, OnlyHoldersReturn
<1>6. ~Holder(d)'
  <2>1. ASSUME NEW v \in Workers, job'[v] = d, at'[v] \in Success PROVE FALSE
    <3>1. at'[v] \in {"pop", "resolve", "release_waiter"}
      BY <2>1 DEF Accounted, Success
    <3>2. Advance(v)
      BY <3>1, SteadyMeans, AdvancesOrDrops DEF Drops, Loop
    <3>3. job[v] = d /\ at[v] \in {"cache", "pop", "resolve", "release_waiter"}
      BY <2>1, <3>1, <3>2 DEF Advance, LoopStep, SuccessStep, FailureStep, Keeps, Idle
    <3>4. at[v] = "cache" => at'[v] = "pop"
      BY <3>1, <3>2 DEF Advance, LoopStep, SuccessStep, FailureStep, Keeps
    <3> QED BY <1>1, <1>4, <3>3, <3>4, CacheStays
  <2> QED BY <1>1, <2>1, StartedNeverRequests DEF Holder, Status
<1>7. ASSUME NEW e \in Docs, ContentOf[e] = c, Holder(e)' PROVE FALSE
  <2>1. Holder(e)
    BY <1>a, <1>3, <1>7, HolderFrom, LockWon DEF OneLeaderOf
  <2> QED BY <1>a, <1>3, <1>6, <1>7, <2>1 DEF OneLeaderOf
<1> QED BY <1>5, <1>7 DEF Abandoned

LEMMA StartedStaysAccounted ==
  ASSUME Steady, OnceInvariants, [Next]_vars,
         NEW d \in Docs, NoneFailed(ContentOf[d])', Started(d)'
  PROVE  Accounted(d)' \/ Abandoned(ContentOf[d])'
<1> USE DEF OnceInvariants
<1>a. NoneFailed(ContentOf[d]) /\ ContentOf[d] \in Contents
  BY StillNoneFailed, EnvironmentAssumption
<1>1. CASE ~Started(d)
  BY <1>1, AttemptsGrow DEF Accounted, Active, Status
<1>2. CASE Started(d)
  <2>1. Accounted(d) \/ Abandoned(ContentOf[d])
    BY <1>a, <1>2 DEF Once, OneLeaderOf
  <2> QED BY <1>a, <1>2, <2>1, AbandonedStays, DroppedIsAbandoned
<1> QED BY <1>1, <1>2

(* A document that started in this step was the only one that could. *)
LEMMA Starter ==
  ASSUME OnceInvariants, [Next]_vars, NEW d \in Docs, ~Started(d), Started(d)'
  PROVE  ToStart(d) /\ Holder(d)
BY AttemptsGrow DEF OnceInvariants, ToStart, Runnable, Holder, Active

LEMMA OnlyOneStarts ==
  ASSUME OnceInvariants, [Next]_vars,
         NEW d \in Docs, NEW e \in Docs, ContentOf[d] = ContentOf[e],
         NoneFailed(ContentOf[d]), Started(d)', Started(e)'
  PROVE  d = e
<1> DEFINE c == ContentOf[d]
<1>a. c \in Contents /\ OneLeaderOf(c)
  BY EnvironmentAssumption DEF OnceInvariants, Once
<1>1. CASE Started(d) /\ Started(e)
  BY <1>a, <1>1 DEF OneLeaderOf
<1>2. CASE ~Started(d)
  <2>1. ToStart(d) /\ Holder(d)
    BY <1>2, Starter
  <2>2. ~Started(e)
    BY <1>a, <2>1 DEF OneLeaderOf
  <2>3. Holder(e)
    BY <2>2, Starter
  <2> QED BY <1>a, <2>1, <2>3 DEF OneLeaderOf
<1>3. CASE Started(d) /\ ~Started(e)
  <2>1. ToStart(e)
    BY <1>3, Starter
  <2> QED BY <1>a, <1>3, <2>1 DEF OneLeaderOf
<1> QED BY <1>1, <1>2, <1>3

LEMMA NobodyStartedBefore ==
  ASSUME Steady, OnceInvariants, [Next]_vars,
         NEW d \in Docs, NEW e \in Docs, ContentOf[d] = ContentOf[e],
         NoneFailed(ContentOf[d]), ToStart(d)'
  PROVE  ~Started(e)'
<1> DEFINE c == ContentOf[d]
<1> USE DEF OnceInvariants
<1>a. c \in Contents /\ OneLeaderOf(c)
  BY EnvironmentAssumption DEF Once
<1>b. ~Started(d) /\ ~Started(d)'
  BY AttemptsGrow DEF ToStart
<1>1. CASE ToStart(d)
  <2>1. ~Started(e) /\ Holder(d)
    BY <1>a, <1>1 DEF OneLeaderOf, ToStart, Holder, Active
  <2>2. Started(e)' => Holder(e)
    BY <2>1, Starter
  <2> QED BY <1>a, <1>b, <2>1, <2>2 DEF OneLeaderOf
<1>2. CASE request[d] # "enqueue" /\ request'[d] = "enqueue"
  <2>1. request[d] = "recheck" /\ cache[c] = Null /\ docs' = docs
    BY <1>2, RecheckMisses
  <2>2. Holder(d)
    BY <2>1 DEF Holder
  <2>3. SUFFICES ASSUME Started(e) PROVE FALSE
    BY <2>1 DEF Started
  <2>4. ~Holder(e)
    BY <1>a, <1>b, <2>2, <2>3 DEF OneLeaderOf
  <2>5. Status(e) \notin Active
    BY <2>3, <2>4 DEF Holder
  <2>6. \A w \in Workers : ~(job[w] = e /\ at[w] \in {"release", "cache"})
    BY <2>4 DEF Holder, Success
  <2>7. ~Abandoned(c)
    BY <2>2 DEF Abandoned
  <2> QED BY <1>a, <2>1, <2>3, <2>5, <2>6, <2>7 DEF OneLeaderOf, Accounted
<1>3. CASE ~ToStart(d) /\ request'[d] # "enqueue"
  <2>1. request[d] # "enqueue" /\ ~(Status(d) = "queued" /\ Runnable(d))
    BY <1>b, <1>3 DEF ToStart
  <2>2. docs'[d].status = "queued" /\ Runnable(d)'
    BY <1>3 DEF ToStart, Status
  <2>3. Status(d) = "queued"
    <3>1. Status(d) \in Active
      BY <2>2, JustStored DEF Active
    <3>2. Status(d) # "processing"
      BY <1>b DEF Hands
    <3> QED BY <3>1, <3>2 DEF Active
  <2>4. ~Promoting(d)
    BY NotPromoting
  <2>5. ~Claimed(d)
    BY <2>3 DEF Ownership, ExclusiveClaim, Claimed
  <2> QED BY <1>b, <2>1, <2>2, <2>3, <2>4, <2>5, RunnableFrom
<1>4. CASE ~ToStart(d) /\ request[d] = "enqueue"
  BY <1>b, <1>4 DEF ToStart
<1> QED BY <1>1, <1>2, <1>3, <1>4
-----------------------------------------------------------------------------
LEMMA InitHandsOnce == Init => Hands /\ Once
<1> SUFFICES ASSUME Init PROVE Hands /\ Once
  OBVIOUS
<1>1. \A d \in Docs : docs[d].attempts = 0 /\ Status(d) = "absent" /\ request[d] = "new"
  BY DEF Init, RepositoryInit, ServiceInit, Status, NoDocument
<1>2. \A w \in Workers : at[w] = "poll"
  BY DEF Init, WorkerInit
<1>3. \A d \in Docs : ~Started(d)
  BY <1>1 DEF Started
<1>4. Hands
  BY <1>1, <1>2, <1>3 DEF Hands, Settling, Success, Failure
<1>5. \A d \in Docs : ~Holder(d) /\ ~ToStart(d)
  BY <1>1, <1>2 DEF Holder, ToStart, Active, Success
<1> QED BY <1>3, <1>4, <1>5 DEF Once, OneLeaderOf

LEMMA NextOnce ==
  ASSUME Steady, OnceInvariants, [Next]_vars
  PROVE  Once'
<1> SUFFICES ASSUME NEW c \in Contents, NoneFailed(c)',
                    NEW d \in Docs, NEW e \in Docs, ContentOf[d] = c, ContentOf[e] = c
             PROVE  /\ Holder(d)' => lock'[c]
                    /\ Holder(d)' /\ Holder(e)' => d = e
                    /\ Started(d)' => Accounted(d)' \/ Abandoned(c)'
                    /\ ToStart(d)' => ~Started(e)'
                    /\ Started(d)' /\ Started(e)' => d = e
  BY DEF Once, OneLeaderOf
<1>1. NoneFailed(c)
  BY StillNoneFailed DEF OnceInvariants
<1>2. Holder(d)' => lock'[c]
  BY <1>1, HolderKeepsLock
<1>3. Holder(d)' /\ Holder(e)' => d = e
  BY <1>1, OneHolder
<1>4. Started(d)' => Accounted(d)' \/ Abandoned(c)'
  BY StartedStaysAccounted
<1>5. ToStart(d)' => ~Started(e)'
  BY <1>1, NobodyStartedBefore
<1>6. Started(d)' /\ Started(e)' => d = e
  BY <1>1, OnlyOneStarts
<1> QED BY <1>2, <1>3, <1>4, <1>5, <1>6

LEMMA OnceMeansOne == Once => NoRedundantProcessing
<1> SUFFICES ASSUME Once, NEW c \in Contents, NoneFailed(c)
             PROVE  Cardinality({d \in Docs : ContentOf[d] = c /\ docs[d].attempts > 0}) <= 1
  BY DEF NoRedundantProcessing, NoneFailed
<1> DEFINE S == {d \in Docs : ContentOf[d] = c /\ docs[d].attempts > 0}
<1>1. \A d, e \in S : d = e
  BY DEF Once, OneLeaderOf, Started
<1>2. SUFFICES Cardinality(S) <= 1
  OBVIOUS
<1> HIDE DEF S
<1>3. CASE S = {}
  <2>1. Cardinality(S) = 0
    BY <1>3, FS_EmptySet
  <2> QED BY <2>1
<1>4. CASE S # {}
  <2>1. PICK d : d \in S
    BY <1>4
  <2>2. S = {d}
    BY <1>1, <2>1
  <2>3. Cardinality(S) = 1
    BY <2>2, FS_Singleton
  <2> QED BY <2>3
<1> QED BY <1>3, <1>4

(* With failures, shutdowns, crashes, errors of Mongo and duplicate deliveries, and *)
(* for any number of identical submissions and workers: a text is processed for a   *)
(* second document only after the job of one failed for good.                       *)
THEOREM ProcessedOnce ==
  ASSUME Steady
  PROVE  Spec => []NoRedundantProcessing
<1>1. TypeOK /\ Ownership /\ Outcomes /\ Hands /\ Once /\ [Next]_vars => Hands' /\ Once'
  BY NextHands, NextOnce DEF OnceInvariants
<1>2. Once => NoRedundantProcessing
  BY OnceMeansOne
<1> QED BY <1>1, <1>2, InitHandsOnce, TypeCorrect, OwnershipHolds, OutcomesHold, PTL DEF Spec
=============================================================================
