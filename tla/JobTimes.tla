------------------------------ MODULE JobTimes ------------------------------
(***************************************************************************)
(* The pipeline on a clock: the steps of Pipeline, the seconds that the    *)
(* sleeps of the worker take, and the TTLs Redis counts down meanwhile.    *)
(* A step takes no time; the clock moves when everybody sleeps or waits.   *)
(* Here a slot set, a lock and a waiter list expire when their TTL is over *)
(* and never otherwise.  A summary may be evicted at any time: its TTL is  *)
(* of another order.  Redelivery is left out, since two backoffs of one    *)
(* document would need two countdowns.                                     *)
(***************************************************************************)
EXTENDS Pipeline

CONSTANTS MinProcessing, MaxProcessing,  \* worker_min/max_processing_seconds
          RetryBackoff,                  \* worker_retry_backoff_seconds
          Buffer,                        \* safety_buffer_seconds
          PollTimeout,                   \* _DEQUEUE_POLL_SECONDS
          GracePeriod                    \* from SIGTERM to SIGKILL
ASSUME JobTimesAssumption ==
  /\ {MinProcessing, MaxProcessing, RetryBackoff, Buffer, PollTimeout, GracePeriod} \subseteq Nat
  /\ MinProcessing <= MaxProcessing
  /\ Faults \cap {"ttl", "duplicate"} = {}

VARIABLES slotTTL, lockTTL, waiterTTL,  \* seconds a key has left, 0 when there is none
          wake,                         \* what is left of the processing sleep of w
          due,                          \* what is left of the backoff of d
          grace                         \* what w has left to stop in

ttlVars == <<slotTTL, lockTTL, waiterTTL>>
timers == <<ttlVars, wake, due, grace>>
timedVars == <<vars, timers>>

(* The backoff doubles with every attempt: the sleep after attempt n + 1, and the *)
(* sum of the first n sleeps.                                                     *)
BackoffSeconds[n \in Nat] == IF n = 0 THEN RetryBackoff ELSE 2 * BackoffSeconds[n - 1]
BackoffTotal[n \in Nat] ==
  IF n = 0 THEN 0 ELSE BackoffTotal[n - 1] + BackoffSeconds[n - 1]

(* Mutant: the processing time of one attempt only. *)
OneAttemptLifetime == MaxProcessing + BackoffTotal[MaxRetries] + Buffer

(* compute_worst_case_job_lifetime_seconds, the TTL of all three keys. *)
WorstCaseJobLifetime ==
  (MaxRetries + 1) * MaxProcessing + BackoffTotal[MaxRetries] + Buffer

TimedInit ==
  /\ Init
  /\ slotTTL = [u \in Users |-> 0]
  /\ lockTTL = [c \in Contents |-> 0] /\ waiterTTL = [c \in Contents |-> 0]
  /\ wake = [w \in Workers |-> 0] /\ grace = [w \in Workers |-> 0]
  /\ due = [d \in Docs |-> 0]

(* A timer that runs while on holds, started anew by start. *)
Timer(on, start, value, left) == IF ~on THEN 0 ELSE IF start THEN value ELSE left

(* Mutant: the acquire script sets no TTL. *)
NoSlotTimers == slotTTL' = [u \in Users |-> 0]

(* Mutant: the acquire script sets the TTL before it tests the limit. *)
RenewWhenDenied ==
  slotTTL' = [u \in Users |->
    Timer(slots'[u] # {},
          \/ slots'[u] \ slots[u] # {}
          \/ \E d \in Docs : UserOf[d] = u /\ request[d] = "acquire" /\ request'[d] = "rejected",
          WorstCaseJobLifetime, slotTTL[u])]

(* EXPIRE of the acquire script: every admission renews the TTL of the user's set. *)
SlotTimers ==
  slotTTL' = [u \in Users |->
    Timer(slots'[u] # {}, slots'[u] \ slots[u] # {}, WorstCaseJobLifetime, slotTTL[u])]

(* Mutant: the lock is set without ex. *)
NoLockTimers == lockTTL' = [c \in Contents |-> 0]

(* SET NX EX. *)
LockTimers ==
  lockTTL' = [c \in Contents |->
    Timer(lock'[c], ~lock[c], WorstCaseJobLifetime, lockTTL[c])]

(* EXPIRE of register_waiter: every registration renews the TTL of the list. *)
WaiterTimers ==
  waiterTTL' = [c \in Contents |->
    Timer(waiters'[c] # <<>>, Len(waiters'[c]) > Len(waiters[c]),
          WorstCaseJobLifetime, waiterTTL[c])]

ProcessingTimers ==
  wake' \in {[w \in Workers |->
                Timer(at'[w] = "process", at[w] # "process", seconds, wake[w])] :
             seconds \in MinProcessing..MaxProcessing}

BackoffTimers ==
  due' = [d \in Docs |->
    Timer(Backing(d)', ~Backing(d), BackoffSeconds[docs[d].attempts - 1], due[d])]

StopTimers ==
  grace' = [w \in Workers |->
    Timer(stop'[w] /\ at'[w] # "stopped", ~stop[w], GracePeriod, grace[w])]

(* What a step does to the clocks that depend on it. *)
Timers ==
  /\ SlotTimers /\ LockTimers /\ WaiterTimers
  /\ ProcessingTimers /\ BackoffTimers /\ StopTimers

TimedRequest(d) == Request(d) /\ Timers

TimedLoop(w) ==
  /\ at[w] = "process" => wake[w] = 0
  /\ MainLoop(w)
  /\ Timers

TimedBackoff(w) ==
  /\ Backoff(w)
  /\ \A t \in retries[w] \ retries'[w] : due[t[1]] = 0
  /\ Timers

(* docker stop loses patience. *)
Kill(w) ==
  /\ stop[w] /\ at[w] # "stopped"
  /\ grace[w] = 0
  /\ Dies(w)
  /\ UNCHANGED <<queue, requestVars>>
  /\ Timers

TimedSupervise(w) == Supervise(w) /\ Timers

TimedApiCrash == ApiCrash /\ UNCHANGED workerVars /\ Timers

(* Without "ttl", what expires is a cached summary. *)
TimedEviction == Expire /\ Timers

(* Nothing happens at w before time passes.  A BLPOP that was pending when the *)
(* stop came returns after PollTimeout at the latest.                          *)
Rests(w) ==
  /\ \/ at[w] = "poll" /\ queue = <<>> /\ (stop[w] => grace[w] + PollTimeout > GracePeriod)
     \/ at[w] = "process" /\ wake[w] > 0
     \/ at[w] = "drain" /\ retries[w] # {}
     \/ at[w] = "stopped"
  /\ stop[w] /\ at[w] # "stopped" => grace[w] > 0
  /\ \A t \in retries[w] : due[t[1]] > 0

Less(timer) == [x \in DOMAIN timer |-> IF timer[x] = 0 THEN 0 ELSE timer[x] - 1]

(* A second passes; what has one second left ends with it. *)
Tick ==
  /\ \A d \in Docs : request[d] \notin InProgress
  /\ \A w \in Workers : Rests(w)
  /\ slotTTL' = Less(slotTTL) /\ lockTTL' = Less(lockTTL) /\ waiterTTL' = Less(waiterTTL)
  /\ wake' = Less(wake) /\ due' = Less(due) /\ grace' = Less(grace)
  /\ slots' = [u \in Users |-> IF slotTTL[u] = 1 THEN {} ELSE slots[u]]
  /\ lock' = [c \in Contents |-> lock[c] /\ lockTTL[c] # 1]
  /\ waiters' = [c \in Contents |-> IF waiterTTL[c] = 1 THEN <<>> ELSE waiters[c]]
  /\ UNCHANGED <<docs, cache, queue, requestVars, workerVars>>

TimedNext ==
  \/ \E d \in Docs : TimedRequest(d)
  \/ \E w \in Workers : TimedLoop(w) \/ TimedBackoff(w) \/ TimedSupervise(w) \/ Kill(w)
  \/ TimedApiCrash
  \/ TimedEviction
  \/ Tick

TimedSpec == TimedInit /\ [][TimedNext]_timedVars

(* Time goes on however often processes stop and start, tasks under way are   *)
(* continued, and an expired grace period kills.                             *)
FairTimedSpec ==
  /\ TimedSpec
  /\ SF_timedVars(Tick)
  /\ \A d \in Docs : WF_timedVars(request[d] # "new" /\ TimedRequest(d))
  /\ \A w \in Workers :
       /\ WF_timedVars(TimedLoop(w)) /\ WF_timedVars(TimedBackoff(w))
       /\ WF_timedVars(Kill(w))
       /\ WF_timedVars(Drained(w) /\ UNCHANGED requestVars /\ Timers)
-----------------------------------------------------------------------------
LiveLeader(d) == request[d] = "led" /\ (Runnable(d) \/ Claimed(d))

(* When every job finds a free worker at once, the TTL formula is an upper bound: *)
(* whatever the sleeps, failures and retries, no second passes that takes the     *)
(* slot or the lock of a job its request enqueued and no worker has finished, nor *)
(* the list of those who wait behind that lock.  (A list older than the lock was  *)
(* left by a follower of an earlier leader.)                                      *)
LeadersKeepTheirKeys ==
  [][Tick => \A d \in Docs : LiveLeader(d) =>
       /\ d \in slots[UserOf[d]] => d \in slots'[UserOf[d]]
       /\ lock[ContentOf[d]] => lock'[ContentOf[d]]
       /\ lock[ContentOf[d]] /\ waiterTTL[ContentOf[d]] >= lockTTL[ContentOf[d]]
            => waiters'[ContentOf[d]] = waiters[ContentOf[d]]]_timedVars

(* What keeps others out runs out: a set at the limit and a held lock have a TTL,  *)
(* of the lifetime at most, that every second shortens and nothing renews, however *)
(* often a user is refused and whoever else submits the text.  Whatever crashed or *)
(* failed, it bars nobody for longer.                                              *)
AtLimit(u) == slots[u] # {} /\ Cardinality(slots[u]) >= MaxActive
RunsOut(left, after) ==
  left \in 1..WorstCaseJobLifetime /\ after <= left /\ (Tick => after < left)
BarsRunOut ==
  [][/\ \A u \in Users : AtLimit(u) /\ AtLimit(u)' => RunsOut(slotTTL[u], slotTTL'[u])
     /\ \A c \in Contents : lock[c] /\ lock'[c] => RunsOut(lockTTL[c], lockTTL'[c])]_timedVars

(* Whatever crashed or failed between the acquisition of a slot and its return,  *)
(* a user at the limit is below it again one day: a refused submission does not  *)
(* renew the TTL.                                                                *)
LockedOutUsersRecover ==
  \A u \in Users : Cardinality(slots[u]) >= MaxActive ~> Cardinality(slots[u]) < MaxActive

(* ttl.py: the TTL "never expires out from under a job that's still legitimately *)
(* running": no worker loses the slot of the job it is processing.               *)
SlotsOutliveJobs ==
  [][Tick => \A d \in Docs :
       Claimed(d) /\ d \in slots[UserOf[d]] => d \in slots'[UserOf[d]]]_timedVars
=============================================================================
