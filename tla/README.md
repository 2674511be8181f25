# Document Insights in TLA+

A model of the Document Insights service: an API process that accepts documents and worker
processes that summarise them, sharing one Mongo collection and one Redis. The modules follow a
document from the validation of `POST /documents` to its terminal status and to what a client is shown
of it: rate limiter, summary cache, leader/follower coordination of identical texts, job queue,
retries, the TTLs of all keys on a clock, lookups and listings, the mock summariser, and the processes
that start, stop and restart around all this. TLC checks small instances; TLAPS proves for every
instance all safety properties of the pipeline and its refinement of an abstract specification, how
long its keys last on the clock, what a walk through the pages of a listing shows, what startup and the
health probe promise, and the form of a stored text.

## The system

| Part | State | Operations | Talks to |
|---|---|---|---|
| `DocumentService` (API process) | none of its own; one coroutine per request | `submit_document`, `get_document`, `list_user_documents` | all four below |
| `SummarizerWorker` (any number of processes) | the job at hand, scheduled retries, stop event | `run`, success path, failure path, background requeue, graceful stop | all four below |
| `DocumentRepository` | the `documents` collection | insert, claim, mark completed or failed, requeue, find, list | Mongo |
| `RateLimiterService` | per user, a Redis set of active ids | `try_acquire` (one script), `release` | Redis |
| `CacheService` | per content hash: summary, processing lock, waiter list | get, set, acquire and release the lock, register and pop waiters | Redis |
| `QueueService` | one Redis list | `enqueue` (RPUSH), `dequeue` (BLPOP) | Redis |
| schemas, mock summariser | none | validation, `from_db`, `generate_mock_summary` | |
| processes and health probe | what runs, what is indexed | lifespan of the API, `main` of the worker, `GET /health` | Mongo, Redis |
| around them | none | error mapping, settings, wiring, logging | |

Nothing is called across processes: API and workers meet only in the shared state. A submission of
a text in the cache is stored as completed. Any other takes a rate-limit slot, is stored as queued
and tries to win the text's lock. The winner (the leader) reads the cache once more and either
completes from it or enqueues its job; the others register as waiters of the leader's job. The
worker that finishes a job completes every waiter of the text; the worker whose job failed for good
puts each of them on the queue.

### What is hard about it

- **Interleaving.** Every `await` is a point where another request, worker or retry may run.
  `submit_document` has up to seven of them, the worker's success path at least five. The slot, the
  document, the lock, the waiter list and the queue entry are five objects with no transaction
  around them.
- **Ownership.** `mark_completed`, `mark_failed` and `requeue` overwrite whatever status they find.
  They are right only if their caller is the one party entitled to the document at that moment.
- **Failure.** Each service answers a Redis outage in its own way: the limiter says yes, the cache
  says miss, the lock says no, the waiter list says nothing, the queue raises. A Mongo error ends a
  request with 500 and a job with a log line. Workers can be killed with a job and retries in hand.
- **Reading while it changes.** A listing takes several requests, each of two concurrent queries.
- **Time.** Every Redis key but the queue has a TTL; a retry waits in a background task; a slot, a
  lock and a waiter list start their TTLs at different steps and are needed until the same one.
- **Crash.** What a dead process leaves behind is nobody's; the TTLs are the only way back.

The properties that make each part right: the limiter never lets a user exceed the limit, and leaks
no slot; the repository moves each document only along its lifecycle; the cache serves a text its own
summary; the lock always has somebody who will return it; the coordination processes a text once and
leaves no waiter behind; the queue and the retries lose no document; the worker tries a document at
most `max_retries + 1` times. `PROJECT.json` lists the places where these can go wrong (`hazards`),
each with the properties aimed at it.

## The modules

| Module | Models | Correspondence |
|---|---|---|
| `Environment` | what all share | `Docs`: one id per submission. `UserOf`, `ContentOf`: who submits what (a hash stands for its text). `Faults`: what may go wrong in a run |
| `DocumentRepository` | `repositories/document_repository.py` | `docs[d]` with status, summary, error, attempts, cached; one operator per update. The claim is the only conditional one |
| `RateLimiter` | `services/rate_limiter.py` | `slots[u]`; the script is one step; fail-open answers |
| `CacheService` | `services/cache_service.py` | `cache[c]`, `lock[c]` (a boolean: the code stores `"1"`), `waiters[c]`; the expiry of each key |
| `QueueService` | `services/queue_service.py` | `queue`, tail in, head out |
| `DocumentService` | `submit_document` | `request[d]` is the await the request stands at, `found[d]` the local `cached_summary` or `already_cached`; one action per await |
| `SummarizerWorker` | `workers/summarizer_worker.py` | `at[w]` is the await the main loop stands at; `job`, `attempt`, `popped`, `waiter` are its locals, `retries[w]` its background tasks, `stop[w]` the stop event |
| `Pipeline` | the composition | `Next`, fairness, all properties |
| `DocumentLifecycle` | the abstract specification | what a client of `GET /documents/{id}` may rely on: phases, attempts, where the result comes from |
| `Lookup` | `get_document`, `DocumentResponse.from_db` | `GetDocument(d)` is what a client would be told now; no state of its own |
| `Listing` | `find_by_user`, `list_user_documents` | `created[d]` is `created_at`, `items` and `total` the two results gathered, `shown` what a client has been given so far; the writers are the repository's operators |
| `JobTimes` | `core/ttl.py`, the sleeps, the TTLs | every step of `Pipeline` but redelivery, taken together with its effect on the countdowns: `slotTTL`, `lockTTL`, `waiterTTL`, `wake` (processing sleep), `due` (backoff), `grace` (until SIGKILL); `Tick` is a second in which everybody sleeps or waits |
| `Summarization` | `DocumentCreateRequest`, `services/summarization.py` | one text on its way: `raw`, `content`, `summary` |
| `Deployment` | `main.py`, `worker.main`, `db/`, `routers/health.py`, `docker-compose.yml` | `up` (Mongo, Redis), `phase` of both processes, `indexes`, the probe under way |
| `MCPipeline`, `MCLookup`, `MCJobTimes`, `MCListing` | the instances | who submits what, symmetry |
| `PipelineOwnership` | proofs | types; who may write a document |
| `PipelineSteps` | lemmas | what one step can do to a document, a request, a slot, a worker, the queue, a retry, a waiter, a lock |
| `PipelineAnswers`, `PipelineAccounting` | proofs | the refinement and what clients are told; slots, documents, locks, one processing per text |
| `JobTimesProofs` | proofs | how long the keys of a leader last, and those that keep others out |
| `ListingProofs`, `DeploymentProofs`, `SummarizationProofs` | proofs | the page walk; startup and probe; stored texts |

`Pipeline` composes the five component modules; `Lookup` and `JobTimes` extend it, the one with what a
client reads, the other with a clock. `Listing` composes the repository with its reader.
`Summarization` and `Deployment` stand alone: text and processes meet the pipeline only through values
it does not look into.

An action ends where the code awaits the next call, so it holds the effect of one call and the local
computation up to the next one. Two awaits are merged where the first one only reads what never
changes: the lookup of a waiter (for its user id) with its completion. The processing sleep is the
stay at `"process"`, the backoff the stay in `retries[w]`. What the code computes but no property
distinguishes (title, text, timestamps, messages, the wording of a summary) is left out; a summary
is the identity of the text it summarises, so that "somebody else's summary" can be said.

A run enables faults by name:

- `failure`: processing may fail (`worker_failure_rate`);
- `evict`: a cached summary expires; `ttl`: a lock, a waiter list or a slot set expires;
- `redis`: a Redis call raises, with its command executed or not;
- `mongo`: a repository call raises, with its update done or not;
- `crash`: the API process or a worker is killed; `stop`: a worker gets SIGTERM;
- `duplicate`: an id that was handed out comes back on the queue, which is what the docstring of
  `claim_for_processing` guards against.

In `JobTimes` a lock, a waiter list and a slot set expire when their TTL is over, so `ttl` is not among
its faults; a summary may be evicted at any time. Neither is `duplicate`: a redelivered document can be
in two backoffs at once, which would need two countdowns. Redelivery itself touches no TTL.

Restarts need no fault: `restart: unless-stopped` brings a worker back at any time after it stopped.

## The runs

Deadlock is not checked: the system rests at an empty queue when all submissions are done, a walk or a
text ends. `SYMMETRY` permutes the workers in the safety runs of the pipeline (in `Races` also the
documents of one user, in `Outages` and `OnTime` the documents) and the documents in `Pages`; no run
with liveness has any.

| Run | Instance | Properties | Answer |
|---|---|---|---|
| `Races` | 4 documents of one text, 2 users with one slot each, 2 workers, 1 retry; `failure`, `stop` | `ActiveJobsLimited`, `SlotsAccountedFor`, `LocksAccountedFor`, `NoDocumentLost`, `AnswersMatchStore`, `NoRedundantProcessing` | hold |
| `Outages` | 2 documents of one text, one user with 2 slots, 2 workers, no retry; all eight faults | `TypeOK`, `ExclusiveClaim`, `Ownership`, `AnswersAreWhole`, `ImplementsLifecycle`, `NoAnswerTakenBack` | hold |
| `Progress` | 3 documents of 2 texts, one user with 2 slots, 2 workers, 1 retry, fair; `failure`, `evict` | `ActiveJobsLimited`, `ImplementsLifecycle`, `QueuedJobsFinish`, `WaitersOfLiveJobsFinish`, `SlotsReturned`, `LocksReturned` | hold |
| `Pages` | 3 documents, 2 on a page | `QuietWalkIsExact`, `NothingSkipped` | hold |
| `OnTime` | 3 documents of one text and one user, 3 workers, the default settings; `failure` | `NoRedundantProcessing`, `LeadersKeepTheirKeys` | hold |
| `Heals` | 2 documents of one text, a worker, short times, fair; `failure`, `evict`, `stop`, `crash`, `mongo`, `redis` | `BarsRunOut`, `LockedOutUsersRecover`, `LocksReturned` | hold |
| `Summaries` | every text of up to 10 characters | `StoredTextsAreCanonical`, `SentencesAreExact`, `SummariesAreBounded` | hold |
| `Restarts` | both processes and both dependencies, 2 kills, fair | `IndexedBeforeUse`, `ProbeIsHonest`, `ProcessesComeBack`, `ProbeSettles` | hold |
| `LateFollower` | 2 documents, fair, no fault | `FollowersFinish` | violated |
| `SecondLeader` | 4 documents; `failure` | `OneLeader` | violated |
| `LostWaiter` | 2 documents; `redis` | `FollowersHaveAPlace` | violated |
| `PromotedLate` | 2 documents of one text, 2 workers; `failure` | `SlotsOutliveJobs` | violated |

What the passing runs show, beyond their names:

- `Races`: the interplay of all accounting. A user with one slot submits the same text twice while
  another submits it too; jobs fail, are retried and stopped between any two steps.
- `Outages`: what stays true when nothing can be relied on. Each service answers an outage in its own
  way, and a raised call may have had its effect; still nobody processes another's document and no
  answer is torn or taken back.
- `Progress`: one text must not feed the other, whatever is evicted; and everything under way finishes.
- `OnTime` and `PromotedLate`: the TTL formula is an upper bound for a leader when every job finds a
  worker at once, and no bound for a promoted follower. A waiter list is only covered when it is at
  least as young as the lock: what a late follower of an earlier leader left behind may expire during
  the job of the next one, as `OnTime` shows when `LeadersKeepTheirKeys` is stated without that.
  `NoRedundantProcessing` is there for what the lock is for: had it expired during a backoff, the next
  submission would find no lock and no summary, and the text would be processed beside the retry.
- `Heals`: whatever was left behind by a crash, a kill, a failed insert, a failed enqueue or a failed
  return of a slot or lock, both come back, at the latest with their TTLs. `BarsRunOut` says why: what
  keeps somebody out is never renewed by those it keeps out. `EXPIRE` is in the branch of the script that
  admits; were it before the test, a user who keeps trying would be locked out by the own attempts.
- `Restarts`: a worker without Redis leaves and comes back, an API without Mongo cannot start; no
  process serves before the indexes exist.

In `Pages` one client walks one user's documents (other users' never match the query) with or without
a status filter, while documents are created and move along their lifecycle, each claimed at most
`MaxAttempts` = 1 times. The client stops at `total_pages` or at the first page that is not full. The
sort on `created_at` has no tie-breaker: both properties count documents per time, so they hold with
equal times too, and say what the code then does not (which of two such documents is shown). A walk
that trusts `total_pages` can end too early, since the count may be older than the page; for it
`NothingSkipped` says that what it missed stands behind the pages it read. Under a filter on `queued` or
`processing` a walk can skip documents for good, because one that leaves the list pulls the others
forward; no property excludes that. Each query is taken to see the collection at one moment, which an
index scan of Mongo does not guarantee while statuses change.

### Which faults a property survives

| Property | Survives | Not |
|---|---|---|
| `TypeOK`, `ExclusiveClaim`, `Ownership`, `ImplementsLifecycle`, `AnswersMatchStore`, `AnswersAreWhole`, `NoAnswerTakenBack` | all | |
| `ActiveJobsLimited` | all but | `redis` (the limiter fails open), `ttl` (a set expires under live jobs) |
| `NoRedundantProcessing` | all but | `evict`, `ttl`, `redis`: the text is no longer in the cache or the lock no longer held |
| `NoRedundantProcessing` on the clock | `failure`, with a worker for each document | all that drop a job: its lock expires, and a second processing is then the intended way out |
| `SlotsAccountedFor`, `LocksAccountedFor` | all but | `redis`, `mongo`, `crash` (a step of several is skipped; the TTL is the backstop, see `Heals`) |
| `NoDocumentLost` | all but | `redis`, `mongo`, `crash`, `ttl` |
| `BarsRunOut` on the clock | all of the clock, which is all but `duplicate`; `ttl` is the clock itself | |
| `LockedOutUsersRecover`, `LocksReturned` on the clock | all of the clock (checked) | |
| liveness of `Pipeline` | `failure`, `evict` | all that lose a job, and `stop` (a stopped worker need not come back) |

Where a run leaves out a fault its property survives, this is for size only, and the theorem covers it;
so `Races` has neither crashes nor errors of Mongo, which `ActiveJobsLimited` and `NoRedundantProcessing`
survive because what a dropped job held stays taken. The excluded combinations follow the code's
documented limits (fail open, "just stays stuck" after a crash).

### Bounds

- Documents: 2 to 4. Identical texts need a leader and a follower; a promoted follower next to a new
  leader needs a third, two leaders a fourth. Every document is a possible leader, follower and cache
  hit, since requests start at any time.
- Workers: 2, which interfere with each other and each with its own background retries; one where it
  is enough (`LateFollower`, `Heals`); in `OnTime` one for each document, which is what its property
  is about.
- `MaxRetries` is 0 or 1 without the clock: 1 has a retry, its backoff and a final failure; the proofs
  cover the rest. With the default settings on the clock it is 2.
- `MaxActive` is 1 to 4: 1 makes a user's second submission race the first one's release; `Progress`
  uses 2 of 3.
- `MaxQueue` bounds `Redeliver` only (1 in `Outages`, which lets both workers hold one id): no queue
  operation of the code is bounded. Without redelivery the queue holds a document at most once.
- The clock of `OnTime` and `PromotedLate` ticks in units of 5 seconds of the defaults in `config.py`:
  processing at most 6 (30 s), backoff 1 (5 s), buffer 12 (60 s), `MaxRetries` 2. In `OnTime` the
  processing sleep is at least 5, since the latest finish is what counts; in `PromotedLate` at least 2
  (10 s). `PollTimeout` and `GracePeriod` are rounded to units; neither run has `stop`. `Heals` asks
  nothing of the numbers, so they are 0 and 1.
- `Summaries`: 10 characters of three kinds, a field limit of 9, 3 sentences, 2 key points, 5
  characters of summary: small enough that every limit is passed by some text.
- `Restarts`: `MaxKills` = 2 stops or kills, so that each process can die half way through the indexes
  of the other's start; outages are not bounded.

### Fairness

Nothing that a user, an operator or chance decides is fair: nobody has to submit, no cache entry has to
expire, no job has to succeed.

- `Pipeline`: weak fairness of each request under way, of each worker's main loop and of each worker's
  backoffs. asyncio resumes a task whose await is answered, BLPOP returns when the list is non-empty,
  both sleeps end. Liveness holds because attempts are bounded, not because processing succeeds. A
  worker's loop is fair on its own, so no job waits for a worker that is busy forever.
- `JobTimes`: the same; an expired grace period kills; a drained worker ends. `Tick` is strongly
  fair: a worker that stops and restarts for ever keeps interrupting the moments at which everybody
  waits, and time goes on all the same.
- `Deployment`: weak fairness of starting what is down (`restart: unless-stopped`), of the startup, of
  the failing BLPOP and of the probe (the healthcheck polls). Mongo and Redis owe nothing; the
  properties speak of the case that they are up for good.

## What the runs found

1. **A late follower waits forever** (`LateFollower`; `document_service.py:116`). Losing the lock and
   registering are two awaits. If the leader's worker pops the waiters and deletes the lock in
   between, the follower joins a list nobody will read, unless the same text is processed again; it
   stays queued and keeps its slot. The README says the second request "just waits and gets the same
   result" and never "waiting forever". What does hold is `WaitersOfLiveJobsFinish`: whoever
   registers before the pop is finished.
2. **Two leaders** (`SecondLeader`; `summarizer_worker.py:134`). The lock carries no owner. After a
   failure for good the followers are promoted without a lock; when one of them fails in its turn it
   deletes the lock of a leader that came later, and the next request wins it too. (One that succeeds
   deletes it as well, line 113, but has filled the cache before, so that the next leader's double
   check finds the summary.) `NoRedundantProcessing` therefore allows a second processing after a job
   failed for good.
3. **A waiter that could not be registered is lost** (`LostWaiter`; `cache_service.py:104`). The
   warning says the document "will fall back to independent processing"; nothing enqueues it. Waiters
   are lost in two more ways, which violate `FollowersHaveAPlace` by longer traces than the one TLC
   reports: the reply of `pop_waiters` gets lost after the list was deleted (its docstring says "never
   zero, never twice"), and a promotion that raises drops the rest of the popped list
   (`summarizer_worker.py:170`).
4. **A promoted follower outlives its slot** (`PromotedLate`; `core/ttl.py:22`). The follower's slot
   starts its TTL while the leader runs; promoted after the leader's last failure, it has a whole
   lifetime before it. The TTL covers one, and is said to "never expire out from under a job that's
   still legitimately running".

Met while modelling, and not checked by a run of their own:

- A request that wins the lock and finds the text cached deletes the lock but pops no waiters
  (`document_service.py:102`): whoever lost the lock to it waits like a late follower.
- A retry joins the tail of the queue, not "the front" as the docstring of `requeue` says. That it is
  reached all the same is `QueuedJobsFinish`; no property is about the order.
- A leaked slot in a set below the limit is renewed by every admission of its user, so it shrinks the
  limit until nothing is admitted for a lifetime. Only for a full set is there a property (`BarsRunOut`).
- A queue outage is answered with a 500, not with the 503 the docstring of `queue_service.py` expects,
  and leaves a queued document, its slot and its lock behind.
- Under a backlog every key can expire before its job starts: the formula does not count queueing.
  `SlotsOutliveJobs` fails that way too; `LeadersKeepTheirKeys` assumes a worker for every document.
- A worker told to stop waits for its job and all its backoffs, while compose waits ten seconds.

## The proofs

All theorems but three are about the `Spec` of their component. Those of the pipeline hold for any
finite set of documents, any users, texts, workers and limits: they use `EnvironmentAssumption` (ids are
finite in number, `Null` is none of the values), `MaxActiveAssumption`, `WorkerAssumption` and
`PipelineAssumption` (limits are naturals) and, where the table names one, an assumption on `Faults`.
`NoOutage` excludes `redis`, `mongo` and `crash`. The three of `JobTimesProofs` are about `TimedSpec`, the
same steps but redelivery on the clock, and any length of the sleeps (`JobTimesAssumption`). `LeadersAreInTime` and
`ProcessedOnceInTime` assume a worker for each document and a buffer of at least a second,
`NobodyIsBarredForLong` only that the settings do not all vanish, since a key with a TTL of 0 has no
time to run out. Those of the listing use `EnvironmentAssumption` and `ListingAssumption` (a page has at
least one entry), that of the stored texts `SummarizationAssumption` (the limit of the field is a
natural), those of startup and probe none.

| Theorem | Module | States | Faults |
|---|---|---|---|
| `TypeCorrect` | `PipelineOwnership` | `Spec => []TypeOK` | any |
| `OwnershipHolds` | `PipelineOwnership` | `Spec => []Ownership` | any |
| `ClaimsAreExclusive` | `PipelineOwnership` | `Spec => []ExclusiveClaim` | any |
| `ServiceImplementsLifecycle` | `PipelineAnswers` | `Spec => ImplementsLifecycle` | any |
| `AnswersAreKept` | `PipelineAnswers` | `Spec => []AnswersMatchStore` | any |
| `AnswersComeWhole` | `PipelineAnswers` | `Spec => []AnswersAreWhole` | any |
| `AnswersStay` | `PipelineAnswers` | `Spec => NoAnswerTakenBack` | any |
| `ActiveJobsAreLimited` | `PipelineAccounting` | `Spec => []ActiveJobsLimited` | neither `redis` nor `ttl` |
| `SlotsAreAccountedFor` | `PipelineAccounting` | `Spec => []SlotsAccountedFor` | `NoOutage` |
| `NothingIsLost` | `PipelineAccounting` | `Spec => []NoDocumentLost` | `NoOutage`, no `ttl` |
| `LocksAreAccountedFor` | `PipelineAccounting` | `Spec => []LocksAccountedFor` | `NoOutage` |
| `ProcessedOnce` | `PipelineAccounting` | `Spec => []NoRedundantProcessing` | neither `redis` nor `ttl` nor `evict` |
| `LeadersAreInTime` | `JobTimesProofs` | `TimedSpec => LeadersKeepTheirKeys` | `failure` at most |
| `ProcessedOnceInTime` | `JobTimesProofs` | `TimedSpec => []NoRedundantProcessing` | `failure` at most |
| `NobodyIsBarredForLong` | `JobTimesProofs` | `TimedSpec => BarsRunOut` | any of the clock |
| `WalkSkipsNothing` | `ListingProofs` | `Spec => []NothingSkipped` | |
| `QuietWalkShowsTheList` | `ListingProofs` | `Spec => []QuietWalkIsExact` | |
| `RunningIsIndexed` | `DeploymentProofs` | `Spec => []IndexedBeforeUse` | |
| `HealthIsHonest` | `DeploymentProofs` | `Spec => ProbeIsHonest` | |
| `StoredIsCanonical` | `SummarizationProofs` | `Spec => []StoredTextsAreCanonical` | |

The assumptions are needed: the table of faults above says what breaks each property without them.

**Who may write: `Ownership`.** `ExclusiveClaim` is not inductive: that a worker finds its document in
`processing` depends on nobody overwriting it, and all updates but the claim are unconditional.
`Ownership` adds who may write. A document that was never claimed (`Unstarted`) is with its request, in
its text's waiter list, or in the popped list of one worker, never in two of these places and never
where a claim could reach it (queue, a worker about to claim, a backoff); waiter lists and popped lists
repeat nobody; everything in them is queued with no attempt. So the three unclaimed writers (the double
check, the resolution of a waiter, the insert) only touch documents no worker holds, and the claimed
writers only documents no one else holds. A redelivered id must have been handed out before, hence it
is no unstarted document's id, and the claim rejects it unless it is queued again. Two more parts are
there for the refinement: `AttemptsBounded`, so that `attempt > MaxRetries` means exactly the last
attempt, and `SummariesMatch`, so that a result taken from the cache is the text's own.
`PipelineOwnership` proves one lemma per kind of step: `OwnersKept`, `RequestKeepsOwners` and
`WorkerKeepsOwners` say what a step must not touch to keep the owners, and the steps that move a
document from one owner to another have lemmas of their own.

**The refinement.** `PipelineAnswers` first shows that each update of the repository, made in a state
that satisfies `Ownership`, is a move of the lifecycle, and that every other action leaves the
collection alone.

**What a step can do.** The later invariants relate two or three pieces of state each. `PipelineSteps`
says once, per piece, everything that can change it and why: `StatusSteps`, `PlaceSteps` (a request),
`SlotSteps`, `ReleaseSteps`, `Advances` (a worker; `AdvancesOrDrops` where it may also be killed or lose
its job to an error), `QueueKept`, `RetriesKept`, `WaitersKept`, `PoppedKept`, `LockTaken`. The
proofs after it argue from these and never open an action again.

- Answers: `Outcomes` backs every answer, and every slot about to be returned, with the
  status of its document; `Whole` says the same of the collection's own fields. Both survive every
  fault because a terminal status never changes (`StatusKept`, from `Ownership`).
- Slots: `SlotsHeld` says that every active document, and every one about to be stored, is in
  its user's slot set, and that no set exceeds the limit. The limit follows by counting. Nobody returns
  a slot early, because by `Outcomes` a release is of a terminal document.
- Documents and locks: `NoDocumentLost` is inductive given `Ownership`, once a claim is known to be held
  until its outcome is stored (`ClaimsAreHeld`). For the locks, whoever holds one hands it on: request
  to queue, queue to worker, worker to its end (`LockHandedOn`).
- One processing (`Once`): unless a job of the text failed for good, whoever counts as holder of its
  lock (`Holder`) is the only one and the lock is indeed taken; a document that was started is
  unfinished, on its way into the cache, or in the cache (`Accounted`); one about to start excludes one
  that started. The double check is the step that matters: it starts a document only when the cache is
  empty under the lock, and by `Once` nobody can have started before. A started document counts as a
  holder for as long as it is active, even when nobody is left to finish it, so a crash or an error of
  Mongo opens nothing: the lock of the dropped job stays where it is. Where the outcome was stored and
  the job dropped before the cache was written, `Abandoned` takes the place of `Accounted`: the lock is
  held, on behalf of nobody, hence nobody wins it. `Hands` says of which document a worker in its
  success or failure path speaks.

**The page walk.** A page is a cut out of an order that need not be the order of the page before, and
the list may have moved in between. `ListingProofs` therefore counts. In every order the database may
return, the documents of one time stand next to each other, behind exactly those that are newer
(`TimesStandTogether`), so a page of any of these orders takes the same number of documents of each time
(`OrdersAgree`, `ListedOnPage`). `SkipInv` says for every time `t`: of the documents that were there at
the start, as many have been shown, or those shown of `t` and those newer than `t` together reach at
least to the end of the pages read, so that whatever is missing stands behind it. The count can only
grow, since no document leaves a list without a filter or with one on a terminal status
(`OthersOnlyGrow`, `SkipKept`); a full page moves the end and the count together, and a page that is
not full leaves nothing behind it (`PageFills`). A walk that ends at `total_pages` instead ends with
what `SkipInv` says of one under way (`EndsWell`). Only the starting set counts: a document that reads
the clock during the walk may have any time. `QuietInv` needs less: while nothing is written, the pages
read are, time by time, a beginning of the list, and by `PagesCover` both rules stop at its end.

**Startup, probe, texts.** `StartupInv` adds the types to `IndexedBeforeUse`, which is then inductive
because no step drops an index. `ProbeInv` follows a probe from ping to ping: what is up or down now was
seen so since the probe began, what it counts as healthy was up when it was pinged, what it has pinged
in vain was down. `SubmissionInv` says that an accepted text is the stripped one; `StripIsACore` says
what `strip` leaves.

**The clock.** A key is safe when the seconds it has left are enough for all that may still happen to
the job (`Enough`): to what is left of the present sleep add the processing of every attempt that may
follow, every backoff between them, and the buffer. `KeysLast`, the core of `TimesInv`, says so of the
slot and the lock of every leader. The arithmetic is apart (`Sums`, `LifetimeCovers`): `AfterAttempt` and
`Remaining` take the sum of `WorstCaseJobLifetime` apart, sleep by sleep, and the whole sum covers every
rest of it, so a key that another submission renews is enough again. Then a step that takes no time
moves the job from one term to the next (`EnoughKept`: queue, claim, processing, backoff, queue), and a
second shortens a sleep and the key alike (`EnoughTicks`). The queue is the one place where nothing is
counted down; there the number of workers is used: if a job stood in the queue while a second passes,
every worker would be processing a document, by `ExclusiveClaim` each another one, hence all documents
including that one (`EverybodyBusy`), and the key covers that processing. `LeadersLead` keeps promotion,
which starts a lifetime on an old key, away from leaders: nobody who was enqueued by its request is ever
in a waiter list. `KeysFresh` is about the request before: no time passes between its awaits. The buffer
matters because a key ends in the second it reaches 1; with `Buffer` 0 TLC finds the slot gone in the
last second of the last attempt.

`ProcessedOnceInTime` puts the two arguments together. A step that takes no time keeps `Once` as it does
without the clock. A second can only break it by taking the lock of a holder or the lock that stands for
a dropped job: the first is the job of a leader (`HoldersLead`: nobody is promoted before a job failed
for good), whose keys no second takes (`TickSparesLeaders`), and the second does not exist in calm weather
(`NothingAbandoned`). `NobodyIsBarredForLong` is the safety half of `Heals`, under every fault of the clock: by `KeysRun`
a key that stands for something has between one second and a lifetime left, it is set anew only by a step
that adds to a set or wins a lock, which none can do to a full set or a held lock, and a second takes one
from it.

**Only model-checked.** All liveness (fairness and `ENABLED` are outside the prover), which includes that
`Tick` goes on and so `LockedOutUsersRecover` and `LocksReturned` on the clock; `SentencesAreExact` and
`SummariesAreBounded` (what a fold over a text of any length computes needs induction over data); and the
violated ones.

## Not modelled

- Dependency wiring, settings, CORS and logging: they build objects and print. The settings that matter
  are constants, or faults.
- The manual test page.
- Of the schemas: the rejection of unknown fields and the coercion of ids; an id that is no `ObjectId`
  is one that is not found. Of a stored document: title, text, timestamps and the wording of errors.
- A `user_id` in the path of a listing is not stripped as a submitted one is; users are values here.
- SHA-256 is taken as injective. A popped id whose document has vanished (`_resolve_waiters`, "should
  be unreachable") is left out, because nothing deletes documents.
- Redis is not assumed to lose its data on restart. Two API processes would interleave exactly as two
  requests of one process do, except that one of them could crash alone.

## What could follow

- The timed properties for a backlog of known length, which bounds the queueing the formula leaves out.
