---------------------------- MODULE JobTimesProofs ----------------------------
(***************************************************************************)
(* The TTL formula is an upper bound for a leader that finds a free worker *)
(* at once: LeadersKeepTheirKeys, for all settings.  With it a text is     *)
(* processed once on the clock, too: NoRedundantProcessing.  And what      *)
(* keeps somebody out ends, whatever fails: BarsRunOut.                    *)
(*                                                                         *)
(* The invariant says how long the keys of a leader still last: at least   *)
(* as long as all that may still happen to its job, sleep by sleep.  A     *)
(* key that is renewed meanwhile lasts the whole sum again.                *)
(***************************************************************************)
EXTENDS JobTimes, PipelineAccounting

Calm == Faults \subseteq {"failure"}

(* What a job may take from the end of the processing of attempt a on, and what a *)
(* job that was tried a times may take from the queue on.                         *)
AfterAttempt(a) ==
  (MaxRetries + 1 - a) * MaxProcessing + (BackoffTotal[MaxRetries] - BackoffTotal[a - 1]) + Buffer
Remaining(a) == IF a > MaxRetries THEN Buffer ELSE MaxProcessing + AfterAttempt(a + 1)

(* Seconds that are enough for the job of d. *)
Enough(seconds, d) ==
  /\ d \in Range(queue) \/ Taken(d) => seconds >= Remaining(docs[d].attempts)
  /\ \A w \in Workers :
       at[w] = "process" /\ job[w] = d => seconds >= wake[w] + AfterAttempt(docs[d].attempts)
  /\ Backing(d) => seconds >= due[d] + Remaining(docs[d].attempts)

TimersTyped ==
  /\ slotTTL \in [Users -> Nat] /\ lockTTL \in [Contents -> Nat]
  /\ wake \in [Workers -> Nat] /\ due \in [Docs -> Nat]

(* Nobody stops without a stop signal. *)
Staying == \A w \in Workers : ~stop[w] /\ at[w] \notin {"drain", "stopped"}

(* The sleeps are the ones the formula adds up. *)
SleepsBounded ==
  /\ \A d \in Docs : Status(d) = "processing" => docs[d].attempts > 0
  /\ \A w \in Workers : at[w] = "process" => wake[w] <= MaxProcessing
  /\ \A d \in Docs : Backing(d) =>
       \E k \in 1..MaxRetries : k <= docs[d].attempts /\ due[d] <= BackoffSeconds[k - 1]

(* A leader never waits behind another. *)
LeadersLead == \A d \in Docs : request[d] = "led" => ~Waiting(d) /\ ~Popped(d)

(* No time passes while a request is under way. *)
KeysFresh ==
  \A d \in Docs :
    /\ request[d] \in {"new", "acquire"} => d \notin slots[UserOf[d]]
    /\ request[d] \in {"insert", "elect", "recheck", "enqueue"} /\ d \in slots[UserOf[d]] =>
         slotTTL[UserOf[d]] >= WorstCaseJobLifetime
    /\ request[d] \in {"recheck", "enqueue"} /\ lock[ContentOf[d]] =>
         lockTTL[ContentOf[d]] >= WorstCaseJobLifetime

KeysLast ==
  \A d \in Docs : request[d] = "led" =>
    /\ d \in slots[UserOf[d]] => Enough(slotTTL[UserOf[d]], d)
    /\ lock[ContentOf[d]] => Enough(lockTTL[ContentOf[d]], d)

TimesInv == TimersTyped /\ Staying /\ SleepsBounded /\ LeadersLead /\ KeysFresh /\ KeysLast
-----------------------------------------------------------------------------
(* The two sums are defined for every number of attempts. *)

LEMMA InductiveSet ==
  ASSUME NEW S \in SUBSET Nat, 0 \in S, \A n \in S : n + 1 \in S
  PROVE  S = Nat
<1> SUFFICES ASSUME Nat \ S # {} PROVE FALSE
  OBVIOUS
<1>1. PICK x \in Nat \ S : \A y \in Nat \ S : <<y, x>> \notin OpToRel(<, Nat)
  BY NatLessThanWellFounded, WFMin
<1>2. x # 0
  OBVIOUS
<1>3. x - 1 \in Nat /\ x - 1 < x /\ (x - 1) + 1 = x
  BY <1>2
<1>4. <<x - 1, x>> \in OpToRel(<, Nat)
  BY <1>3 DEF OpToRel
<1>5. x - 1 \in S
  BY <1>1, <1>3, <1>4
<1> QED BY <1>3, <1>5

LEMMA StepwiseExists ==
  ASSUME NEW a \in Nat, NEW step \in [Nat -> [Nat -> Nat]]
  PROVE  \E f \in [Nat -> Nat] : f[0] = a /\ \A n \in Nat : f[n + 1] = step[n][f[n]]
<1> DEFINE Upto(n) == {f \in [Nat -> Nat] :
                         f[0] = a /\ \A m \in Nat : m < n => f[m + 1] = step[m][f[m]]}
<1>1. ASSUME NEW n \in Nat, NEW f \in Upto(n), NEW g \in Upto(n), NEW m \in Nat, m <= n
      PROVE  f[m] = g[m]
  <2> DEFINE S == {k \in Nat : k <= n => f[k] = g[k]}
  <2>1. 0 \in S
    OBVIOUS
  <2>2. ASSUME NEW k \in S PROVE k + 1 \in S
    <3>1. k \in Nat /\ k + 1 \in Nat /\ (k + 1 <= n => k < n /\ f[k] = g[k])
      OBVIOUS
    <3>2. k < n => f[k + 1] = step[k][f[k]] /\ g[k + 1] = step[k][g[k]]
      BY <3>1
    <3> QED BY <3>1, <3>2
  <2>3. S = Nat
    <3> HIDE DEF S
    <3>1. S \in SUBSET Nat
      BY DEF S
    <3> QED BY <2>1, <2>2, <3>1, InductiveSet
  <2> QED BY <1>1, <2>3
<1>2. \A n \in Nat : Upto(n) # {}
  <2> DEFINE S == {n \in Nat : Upto(n) # {}}
  <2>1. 0 \in S
    <3>1. [n \in Nat |-> a] \in Upto(0)
      OBVIOUS
    <3> QED BY <3>1
  <2>2. ASSUME NEW n \in S PROVE n + 1 \in S
    <3>0. n \in Nat /\ n + 1 \in Nat
      <4>1. n \in Nat
        OBVIOUS
      <4> HIDE DEF Upto, S
      <4> QED BY <4>1
    <3>1. PICK f \in [Nat -> Nat] : f[0] = a /\ \A m \in Nat : m < n => f[m + 1] = step[m][f[m]]
      OBVIOUS
    <3> DEFINE g == [f EXCEPT ![n + 1] = step[n][f[n]]]
    <3>2. step[n][f[n]] \in Nat
      BY <3>1
    <3>3. g \in [Nat -> Nat] /\ g[n + 1] = step[n][f[n]]
      BY <3>0, <3>1, <3>2
    <3>4. \A m \in Nat : m <= n => g[m] = f[m]
      BY <3>1
    <3>5. \A m \in Nat : m < n + 1 => g[m + 1] = step[m][g[m]]
      <4> SUFFICES ASSUME NEW m \in Nat, m < n + 1 PROVE g[m + 1] = step[m][g[m]]
        OBVIOUS
      <4>1. CASE m = n
        <5>1. g[m] = f[m]
          BY <3>4, <4>1
        <5> QED BY <3>3, <4>1, <5>1
      <4>2. CASE m < n
        <5>1. g[m + 1] = f[m + 1] /\ g[m] = f[m]
          BY <3>4, <4>2
        <5> QED BY <3>1, <4>2, <5>1
      <4> QED BY <4>1, <4>2
    <3>6. g[0] = a
      BY <3>1, <3>4
    <3>7. g \in Upto(n + 1)
      <4> HIDE DEF g
      <4> QED BY <3>3, <3>5, <3>6
    <3> QED BY <3>0, <3>7
  <2>3. S = Nat
    <3> HIDE DEF S
    <3>1. S \in SUBSET Nat
      BY DEF S
    <3> QED BY <2>1, <2>2, <3>1, InductiveSet
  <2> QED BY <2>3
<1> DEFINE pick(n) == CHOOSE f : f \in Upto(n)
           F == [n \in Nat |-> pick(n)[n]]
<1>3. \A n \in Nat : pick(n) \in Upto(n)
  <2> HIDE DEF Upto
  <2> QED BY <1>2
<1>4. ASSUME NEW n \in Nat PROVE F[n + 1] = step[n][F[n]] /\ F[n] \in Nat
  <2>1. pick(n + 1) \in Upto(n + 1) /\ pick(n) \in Upto(n) /\ pick(n + 1) \in Upto(n)
    <3>1. pick(n + 1) \in Upto(n + 1) /\ pick(n) \in Upto(n)
      <4> HIDE DEF Upto, pick
      <4>1. n + 1 \in Nat
        OBVIOUS
      <4> QED BY <1>3, <4>1
    <3>2. Upto(n + 1) \subseteq Upto(n)
      <4>1. \A m \in Nat : m < n => m < n + 1
        OBVIOUS
      <4> QED BY <4>1
    <3> HIDE DEF Upto
    <3> QED BY <3>1, <3>2
  <2>2. pick(n + 1)[n] = pick(n)[n]
    <3> HIDE DEF Upto, pick
    <3> QED BY <1>1, <2>1
  <2>3. pick(n + 1)[n + 1] = step[n][pick(n + 1)[n]] /\ pick(n)[n] \in Nat
    <3> HIDE DEF pick
    <3> QED BY <2>1
  <2>4. F[n + 1] = pick(n + 1)[n + 1] /\ F[n] = pick(n)[n]
    <3> HIDE DEF pick
    <3>1. n + 1 \in Nat
      OBVIOUS
    <3> QED BY <3>1
  <2> HIDE DEF F, pick
  <2> QED BY <2>2, <2>3, <2>4
<1>5. F[0] = a
  <2>1. pick(0) \in Upto(0)
    BY <1>3
  <2> HIDE DEF pick
  <2> QED BY <2>1
<1>6. F \in [Nat -> Nat]
  <2> HIDE DEF pick
  <2>1. \A n \in Nat : F[n] \in Nat
    BY <1>4
  <2> QED BY <2>1
<1> QED
  <2> HIDE DEF F
  <2> QED BY <1>4, <1>5, <1>6

LEMMA BackoffSecondsDef ==
  /\ BackoffSeconds \in [Nat -> Nat]
  /\ \A n \in Nat : BackoffSeconds[n + 1] = 2 * BackoffSeconds[n]
<1> DEFINE Def(f) == f = [n \in Nat |-> IF n = 0 THEN RetryBackoff ELSE 2 * f[n - 1]]
<1>1. \E f : Def(f)
  <2> DEFINE step == [n \in Nat |-> [m \in Nat |-> 2 * m]]
  <2>1. step \in [Nat -> [Nat -> Nat]] /\ RetryBackoff \in Nat
    BY JobTimesAssumption
  <2>2. \A n, m \in Nat : step[n][m] = 2 * m
    OBVIOUS
  <2>3. PICK f \in [Nat -> Nat] :
          f[0] = RetryBackoff /\ \A n \in Nat : f[n + 1] = step[n][f[n]]
    <3> HIDE DEF step
    <3> QED BY <2>1, StepwiseExists
  <2>4. \A n \in Nat : f[n + 1] = 2 * f[n]
    <3> HIDE DEF step
    <3> QED BY <2>2, <2>3
  <2>5. ASSUME NEW n \in Nat PROVE f[n] = IF n = 0 THEN RetryBackoff ELSE 2 * f[n - 1]
    <3>1. n # 0 => n - 1 \in Nat /\ (n - 1) + 1 = n
      OBVIOUS
    <3> QED BY <2>3, <2>4, <3>1
  <2> QED BY <2>5
<1>2. Def(BackoffSeconds)
  BY <1>1 DEF BackoffSeconds
<1>3. BackoffSeconds[0] = RetryBackoff /\ RetryBackoff \in Nat
  BY <1>2, JobTimesAssumption
<1>4. ASSUME NEW n \in Nat PROVE BackoffSeconds[n + 1] = 2 * BackoffSeconds[n]
  <2>1. n + 1 \in Nat /\ n + 1 # 0 /\ (n + 1) - 1 = n
    OBVIOUS
  <2> QED BY <1>2, <2>1
<1>5. {n \in Nat : BackoffSeconds[n] \in Nat} = Nat
  <2> DEFINE S == {n \in Nat : BackoffSeconds[n] \in Nat}
  <2>1. 0 \in S /\ \A n \in S : n + 1 \in S
    BY <1>3, <1>4
  <2> HIDE DEF S
  <2>2. S \in SUBSET Nat
    BY DEF S
  <2>3. S = Nat
    BY <2>1, <2>2, InductiveSet
  <2> QED BY <2>3 DEF S
<1>6. BackoffSeconds = [n \in Nat |-> BackoffSeconds[n]]
  BY <1>2
<1>7. \A n \in Nat : BackoffSeconds[n] \in Nat
  BY <1>5
<1>8. BackoffSeconds \in [Nat -> Nat]
  BY <1>6, <1>7
<1> QED BY <1>4, <1>8

LEMMA BackoffTotalDef ==
  /\ BackoffTotal \in [Nat -> Nat]
  /\ BackoffTotal[0] = 0
  /\ \A n \in Nat : BackoffTotal[n + 1] = BackoffTotal[n] + BackoffSeconds[n]
<1> DEFINE Def(f) == f = [n \in Nat |-> IF n = 0 THEN 0 ELSE f[n - 1] + BackoffSeconds[n - 1]]
<1>a. \A n \in Nat : BackoffSeconds[n] \in Nat
  BY BackoffSecondsDef
<1>1. \E f : Def(f)
  <2> DEFINE step == [n \in Nat |-> [m \in Nat |-> m + BackoffSeconds[n]]]
  <2>1. step \in [Nat -> [Nat -> Nat]]
    BY <1>a
  <2>2. \A n, m \in Nat : step[n][m] = m + BackoffSeconds[n]
    OBVIOUS
  <2>3. PICK f \in [Nat -> Nat] : f[0] = 0 /\ \A n \in Nat : f[n + 1] = step[n][f[n]]
    <3> HIDE DEF step
    <3> QED BY <2>1, StepwiseExists
  <2>4. \A n \in Nat : f[n + 1] = f[n] + BackoffSeconds[n]
    <3> HIDE DEF step
    <3> QED BY <2>2, <2>3
  <2>5. ASSUME NEW n \in Nat
        PROVE  f[n] = IF n = 0 THEN 0 ELSE f[n - 1] + BackoffSeconds[n - 1]
    <3>1. n # 0 => n - 1 \in Nat /\ (n - 1) + 1 = n
      OBVIOUS
    <3> QED BY <2>3, <2>4, <3>1
  <2> QED BY <2>5
<1>2. Def(BackoffTotal)
  BY <1>1 DEF BackoffTotal
<1>3. BackoffTotal[0] = 0
  BY <1>2
<1>4. ASSUME NEW n \in Nat PROVE BackoffTotal[n + 1] = BackoffTotal[n] + BackoffSeconds[n]
  <2>1. n + 1 \in Nat /\ n + 1 # 0 /\ (n + 1) - 1 = n
    OBVIOUS
  <2> QED BY <1>2, <2>1
<1>5. {n \in Nat : BackoffTotal[n] \in Nat} = Nat
  <2> DEFINE S == {n \in Nat : BackoffTotal[n] \in Nat}
  <2>1. 0 \in S /\ \A n \in S : n + 1 \in S
    BY <1>a, <1>3, <1>4
  <2> HIDE DEF S
  <2>2. S \in SUBSET Nat
    BY DEF S
  <2>3. S = Nat
    BY <2>1, <2>2, InductiveSet
  <2> QED BY <2>3 DEF S
<1>6. BackoffTotal = [n \in Nat |-> BackoffTotal[n]]
  BY <1>2
<1>7. \A n \in Nat : BackoffTotal[n] \in Nat
  BY <1>5
<1>8. BackoffTotal \in [Nat -> Nat]
  BY <1>6, <1>7
<1> QED BY <1>3, <1>4, <1>8

LEMMA BackoffTotalGrows ==
  ASSUME NEW m \in Nat, NEW n \in Nat, m <= n
  PROVE  BackoffTotal[m] <= BackoffTotal[n]
<1> DEFINE S == {k \in Nat : BackoffTotal[m] <= BackoffTotal[m + k]}
<1>1. \A k \in Nat : /\ BackoffTotal[k] \in Nat /\ BackoffSeconds[k] \in Nat
                     /\ BackoffTotal[k + 1] = BackoffTotal[k] + BackoffSeconds[k]
  BY BackoffTotalDef, BackoffSecondsDef
<1>2. 0 \in S
  BY <1>1
<1>3. ASSUME NEW k \in S PROVE k + 1 \in S
  <2>1. k \in Nat /\ m + k \in Nat /\ m + (k + 1) = (m + k) + 1
    OBVIOUS
  <2> QED BY <1>1, <2>1
<1>4. S = Nat
  <2> HIDE DEF S
  <2>1. S \in SUBSET Nat
    BY DEF S
  <2> QED BY <1>2, <1>3, <2>1, InductiveSet
<1>5. n - m \in Nat /\ m + (n - m) = n
  OBVIOUS
<1> QED BY <1>4, <1>5

(* What the formula adds up, sleep by sleep. *)
LEMMA Sums ==
  /\ MaxProcessing \in Nat /\ Buffer \in Nat /\ WorstCaseJobLifetime \in Nat
  /\ WorstCaseJobLifetime = Remaining(0)
  /\ \A a \in 0..MaxRetries + 1 : Remaining(a) \in Nat /\ Remaining(a) >= Buffer
  /\ \A a \in 0..MaxRetries : Remaining(a) = MaxProcessing + AfterAttempt(a + 1)
  /\ \A a \in 1..MaxRetries + 1 : AfterAttempt(a) \in Nat /\ AfterAttempt(a) >= Remaining(a)
  /\ \A a \in 1..MaxRetries : AfterAttempt(a) = BackoffSeconds[a - 1] + Remaining(a)
<1>1. MaxProcessing \in Nat /\ Buffer \in Nat /\ MaxRetries \in Nat
  BY JobTimesAssumption, WorkerAssumption
<1>2. \A n \in Nat : /\ BackoffTotal[n] \in Nat /\ BackoffSeconds[n] \in Nat
                     /\ BackoffTotal[n + 1] = BackoffTotal[n] + BackoffSeconds[n]
  BY BackoffTotalDef, BackoffSecondsDef
<1>3. ASSUME NEW a \in 1..MaxRetries + 1
      PROVE  /\ AfterAttempt(a) \in Nat /\ AfterAttempt(a) >= Buffer
             /\ a = MaxRetries + 1 => AfterAttempt(a) = Buffer
  <2>1. a - 1 \in Nat /\ a - 1 <= MaxRetries /\ MaxRetries + 1 - a \in Nat
    BY <1>1
  <2>2. BackoffTotal[a - 1] <= BackoffTotal[MaxRetries]
    BY <1>1, <2>1, BackoffTotalGrows
  <2>3. (MaxRetries + 1 - a) * MaxProcessing \in Nat
    <3>1. ASSUME NEW x \in Nat, NEW y \in Nat PROVE x * y \in Nat
      OBVIOUS
    <3> QED BY <1>1, <2>1, <3>1
  <2>4. BackoffTotal[MaxRetries] - BackoffTotal[a - 1] \in Nat
    BY <1>1, <1>2, <2>1, <2>2
  <2>5. AfterAttempt(a) \in Nat /\ AfterAttempt(a) >= Buffer
    BY <1>1, <2>3, <2>4 DEF AfterAttempt
  <2>6. CASE a = MaxRetries + 1
    <3>1. a - 1 = MaxRetries /\ MaxRetries + 1 - a = 0
      BY <1>1, <2>6
    <3>2. (MaxRetries + 1 - a) * MaxProcessing = 0
      BY <1>1, <3>1
    <3>3. BackoffTotal[MaxRetries] - BackoffTotal[a - 1] = 0
      BY <1>1, <1>2, <3>1
    <3> QED BY <1>1, <2>5, <3>2, <3>3 DEF AfterAttempt
  <2> QED BY <2>5, <2>6
<1>4. ASSUME NEW a \in 0..MaxRetries
      PROVE  Remaining(a) = MaxProcessing + AfterAttempt(a + 1)
  BY <1>1 DEF Remaining
<1>5. ASSUME NEW a \in 0..MaxRetries + 1
      PROVE  Remaining(a) \in Nat /\ Remaining(a) >= Buffer
  <2>1. CASE a = MaxRetries + 1
    BY <1>1, <2>1 DEF Remaining
  <2>2. CASE a # MaxRetries + 1
    <3>1. a \in 0..MaxRetries /\ a + 1 \in 1..MaxRetries + 1
      BY <1>1, <2>2
    <3> QED BY <1>1, <1>3, <1>4, <3>1
  <2> QED BY <2>1, <2>2
<1>6. ASSUME NEW a \in 1..MaxRetries
      PROVE  AfterAttempt(a) = BackoffSeconds[a - 1] + Remaining(a)
  <2>1. /\ a - 1 \in Nat /\ (a - 1) + 1 = a /\ (a + 1) - 1 = a /\ a \in 0..MaxRetries
        /\ MaxRetries - a \in Nat /\ MaxRetries + 1 - a = (MaxRetries - a) + 1
        /\ MaxRetries + 1 - (a + 1) = MaxRetries - a
    BY <1>1
  <2>2. Remaining(a) = MaxProcessing + ((MaxRetries - a) * MaxProcessing
                         + (BackoffTotal[MaxRetries] - BackoffTotal[a]) + Buffer)
    BY <1>4, <2>1 DEF AfterAttempt
  <2>3. AfterAttempt(a) = ((MaxRetries - a) + 1) * MaxProcessing
                            + (BackoffTotal[MaxRetries] - BackoffTotal[a - 1]) + Buffer
    BY <2>1 DEF AfterAttempt
  <2>4. ((MaxRetries - a) + 1) * MaxProcessing = (MaxRetries - a) * MaxProcessing + MaxProcessing
    <3>1. ASSUME NEW x \in Nat, NEW y \in Nat PROVE (x + 1) * y = x * y + y
      OBVIOUS
    <3> QED BY <1>1, <2>1, <3>1
  <2>5. BackoffTotal[a] = BackoffTotal[a - 1] + BackoffSeconds[a - 1]
    BY <1>2, <2>1
  <2>6. (MaxRetries - a) * MaxProcessing \in Nat
    <3>1. ASSUME NEW x \in Nat, NEW y \in Nat PROVE x * y \in Nat
      OBVIOUS
    <3> QED BY <1>1, <2>1, <3>1
  <2>7. /\ BackoffTotal[MaxRetries] \in Nat /\ BackoffTotal[a - 1] \in Nat
        /\ BackoffSeconds[a - 1] \in Nat /\ BackoffTotal[a] \in Nat
    BY <1>1, <1>2, <2>1
  <2> QED BY <1>1, <2>2, <2>3, <2>4, <2>5, <2>6, <2>7
<1>7. ASSUME NEW a \in 1..MaxRetries + 1 PROVE AfterAttempt(a) >= Remaining(a)
  <2>1. CASE a = MaxRetries + 1
    BY <1>1, <1>3, <2>1 DEF Remaining
  <2>2. CASE a # MaxRetries + 1
    <3>1. a \in 1..MaxRetries /\ a - 1 \in Nat /\ a \in 0..MaxRetries + 1
      BY <1>1, <2>2
    <3> QED BY <1>2, <1>5, <1>6, <3>1
  <2> QED BY <2>1, <2>2
<1>8. WorstCaseJobLifetime = Remaining(0) /\ WorstCaseJobLifetime \in Nat
  <2>1. Remaining(0) = MaxProcessing + (MaxRetries * MaxProcessing
                         + (BackoffTotal[MaxRetries] - BackoffTotal[0]) + Buffer)
    <3>1. MaxRetries + 1 - 1 = MaxRetries /\ 0 + 1 = 1 /\ 1 - 1 = 0 /\ 0 \in 0..MaxRetries
      BY <1>1
    <3> QED BY <1>4, <3>1 DEF AfterAttempt
  <2>2. (MaxRetries + 1) * MaxProcessing = MaxRetries * MaxProcessing + MaxProcessing
    <3>1. ASSUME NEW x \in Nat, NEW y \in Nat PROVE (x + 1) * y = x * y + y
      OBVIOUS
    <3> QED BY <1>1, <3>1
  <2>3. MaxRetries * MaxProcessing \in Nat
    <3>1. ASSUME NEW x \in Nat, NEW y \in Nat PROVE x * y \in Nat
      OBVIOUS
    <3> QED BY <1>1, <3>1
  <2>4. BackoffTotal[0] = 0 /\ BackoffTotal[MaxRetries] \in Nat
    BY <1>1, <1>2, BackoffTotalDef
  <2>5. WorstCaseJobLifetime =
          (MaxRetries * MaxProcessing + MaxProcessing) + BackoffTotal[MaxRetries] + Buffer
    BY <2>2 DEF WorstCaseJobLifetime
  <2> QED BY <1>1, <2>1, <2>3, <2>4, <2>5
<1> QED BY <1>1, <1>3, <1>4, <1>5, <1>6, <1>7, <1>8

LEMMA RemainingShrinks ==
  ASSUME NEW a \in 0..MaxRetries + 1, NEW b \in a..MaxRetries + 1
  PROVE  Remaining(b) <= Remaining(a)
<1> DEFINE S == {k \in Nat : a + k <= MaxRetries + 1 => Remaining(a + k) <= Remaining(a)}
<1>1. MaxRetries \in Nat /\ a \in Nat /\ b - a \in Nat /\ a + (b - a) = b /\ b <= MaxRetries + 1
  BY WorkerAssumption
<1>2. 0 \in S
  <2>1. a + 0 = a /\ Remaining(a) \in Nat
    BY <1>1, Sums
  <2> QED BY <2>1
<1>3. ASSUME NEW k \in S PROVE k + 1 \in S
  <2>1. SUFFICES ASSUME a + (k + 1) <= MaxRetries + 1
                 PROVE  Remaining(a + (k + 1)) <= Remaining(a)
    OBVIOUS
  <2>2. /\ a + k \in 0..MaxRetries /\ a + (k + 1) = (a + k) + 1 /\ a + k <= MaxRetries + 1
        /\ a + (k + 1) \in 1..MaxRetries + 1 /\ a + (k + 1) \in 0..MaxRetries + 1
        /\ a + k \in 0..MaxRetries + 1
    BY <1>1, <2>1
  <2>3. Remaining(a + k) <= Remaining(a)
    BY <2>2
  <2>4. Remaining(a + k) = MaxProcessing + AfterAttempt(a + (k + 1))
    BY <2>2, Sums
  <2>5. AfterAttempt(a + (k + 1)) >= Remaining(a + (k + 1)) /\ AfterAttempt(a + (k + 1)) \in Nat
    BY <2>2, Sums
  <2>6. /\ Remaining(a + (k + 1)) \in Nat /\ Remaining(a + k) \in Nat /\ Remaining(a) \in Nat
        /\ MaxProcessing \in Nat
    BY <2>2, Sums
  <2> QED BY <2>3, <2>4, <2>5, <2>6
<1>4. S = Nat
  <2> HIDE DEF S
  <2>1. S \in SUBSET Nat
    BY DEF S
  <2> QED BY <1>2, <1>3, <2>1, InductiveSet
<1>5. b - a \in S
  BY <1>1, <1>4
<1> QED BY <1>1, <1>5

(* The whole sum covers what follows any attempt, and any backoff before it. *)
LEMMA LifetimeCovers ==
  /\ \A a \in 0..MaxRetries + 1 : Remaining(a) <= WorstCaseJobLifetime
  /\ \A a \in 1..MaxRetries + 1 : MaxProcessing + AfterAttempt(a) <= WorstCaseJobLifetime
  /\ \A k \in 1..MaxRetries : \A a \in k..MaxRetries + 1 :
       BackoffSeconds[k - 1] + Remaining(a) <= WorstCaseJobLifetime
<1>a. MaxRetries \in Nat /\ 0 \in 0..MaxRetries + 1
  BY WorkerAssumption
<1>1. \A a \in 0..MaxRetries + 1 : Remaining(a) <= WorstCaseJobLifetime
  BY <1>a, RemainingShrinks, Sums
<1>2. ASSUME NEW a \in 1..MaxRetries + 1
      PROVE  MaxProcessing + AfterAttempt(a) <= WorstCaseJobLifetime
  <2>1. a - 1 \in 0..MaxRetries /\ a - 1 \in 0..MaxRetries + 1 /\ (a - 1) + 1 = a
    BY <1>a
  <2>2. Remaining(a - 1) = MaxProcessing + AfterAttempt((a - 1) + 1)
    BY <2>1, Sums
  <2> QED BY <1>1, <2>1, <2>2
<1>3. ASSUME NEW k \in 1..MaxRetries, NEW a \in k..MaxRetries + 1
      PROVE  BackoffSeconds[k - 1] + Remaining(a) <= WorstCaseJobLifetime
  <2>1. /\ k \in 0..MaxRetries + 1 /\ a \in 0..MaxRetries + 1 /\ k \in 1..MaxRetries + 1
        /\ k - 1 \in Nat
    BY <1>a
  <2>2. Remaining(a) <= Remaining(k)
    BY <2>1, RemainingShrinks
  <2>3. AfterAttempt(k) = BackoffSeconds[k - 1] + Remaining(k)
    BY Sums
  <2>4. MaxProcessing + AfterAttempt(k) <= WorstCaseJobLifetime
    BY <1>2, <2>1
  <2>5. /\ Remaining(a) \in Nat /\ Remaining(k) \in Nat /\ BackoffSeconds[k - 1] \in Nat
        /\ MaxProcessing \in Nat /\ WorstCaseJobLifetime \in Nat
    BY <2>1, Sums, BackoffSecondsDef
  <2> QED BY <2>2, <2>3, <2>4, <2>5
<1> QED BY <1>1, <1>2, <1>3
-----------------------------------------------------------------------------
(* On the clock, too, a document has one owner: a second takes waiters off the *)
(* lists and nothing else, and what is killed drops what it had.               *)

LEMMA TickTyped == TypeOK /\ Tick => TypeOK'
<1> SUFFICES ASSUME TypeOK, Tick PROVE TypeOK'
  OBVIOUS
<1>1. slots' \in [Users -> SUBSET Docs] /\ lock' \in [Contents -> BOOLEAN]
  BY DEF TypeOK, Tick
<1>2. waiters' \in [Contents -> Seq(Docs)]
  <2>1. <<>> \in Seq(Docs)
    OBVIOUS
  <2> QED BY <2>1 DEF TypeOK, Tick
<1>3. UNCHANGED <<docs, cache, queue, request, found, at, job, attempt, popped, waiter, retries, stop>>
  BY DEF Tick, requestVars, workerVars, localVars
<1> QED BY <1>1, <1>2, <1>3 DEF TypeOK

LEMMA TickOwned == TypeOK /\ Ownership /\ Tick => Ownership'
<1> SUFFICES ASSUME TypeOK, Ownership, Tick PROVE Ownership'
  OBVIOUS
<1>1. UNCHANGED <<docs, cache, queue, request, found, at, job, attempt, popped, retries>>
  BY DEF Tick, requestVars, workerVars, localVars
<1>2. \A c \in Contents : waiters'[c] \in {waiters[c], <<>>}
  BY DEF Tick
<1>3. \A d \in Docs : Runnable(d)' => Runnable(d)
  BY <1>1 DEF Runnable, Taken, Backing
<1> QED BY <1>1, <1>2, <1>3, RestOwned

LEMMA KillOwned ==
  ASSUME TypeOK, Ownership, NEW w \in Workers, Kill(w)
  PROVE  TypeOK' /\ Ownership'
<1>1. Dies(w) /\ UNCHANGED queue /\ UNCHANGED requestVars
  BY DEF Kill
<1>2. TypeOK'
  <2>1. WorkersTyped'
    BY <1>1, DiesTyped, TypeOKParts
  <2>2. StoresTyped' /\ RequestsTyped'
    BY <1>1, TypeOKParts DEF Dies, cacheVars, requestVars, StoresTyped, RequestsTyped
  <2> QED BY <2>1, <2>2 DEF TypeOK, StoresTyped, RequestsTyped, WorkersTyped
<1>3. Range(queue') \subseteq Range(queue)
  BY <1>1
<1> QED BY <1>1, <1>2, <1>3, DiesOwned

(* Every other step on the clock is one of Pipeline. *)
LEMMA StepsOnTheClock ==
  ASSUME [TimedNext]_timedVars
  PROVE  \/ [Next]_vars /\ (Timers \/ UNCHANGED timedVars)
         \/ \E w \in Workers : Kill(w)
         \/ Tick
<1>1. ASSUME NEW d \in Docs, TimedRequest(d) PROVE Next /\ Timers
  BY <1>1 DEF TimedRequest, Next
<1>2. ASSUME NEW w \in Workers, TimedLoop(w) \/ TimedBackoff(w) \/ TimedSupervise(w)
      PROVE  Next /\ Timers
  BY <1>2 DEF TimedLoop, TimedBackoff, TimedSupervise, Next
<1>3. CASE TimedApiCrash
  BY <1>3 DEF TimedApiCrash, Next
<1>4. CASE TimedEviction
  BY <1>4 DEF TimedEviction, Next
<1>5. CASE UNCHANGED timedVars
  BY <1>5 DEF timedVars
<1> QED BY <1>1, <1>2, <1>3, <1>4, <1>5 DEF TimedNext

LEMMA TimedOwnership == TimedSpec => [](TypeOK /\ Ownership)
<1>1. TimedInit => TypeOK /\ Ownership
  BY InitTyped, InitOwned DEF TimedInit
<1>2. TypeOK /\ Ownership /\ [TimedNext]_timedVars => (TypeOK /\ Ownership)'
  BY StepsOnTheClock, NextTyped, NextOwned, KillOwned, TickTyped, TickOwned
<1> QED BY <1>1, <1>2, PTL DEF TimedSpec
-----------------------------------------------------------------------------
(* In calm weather no worker stops, so Kill never happens. *)

LEMMA CalmMeans ==
  ASSUME Calm
  PROVE  Steady /\ NoOutage /\ Faults \cap {"mongo", "crash", "stop", "duplicate"} = {}
BY DEF Calm, Steady, NoOutage

LEMMA NobodyStops == Calm /\ TypeOK /\ Staying /\ [Next]_vars => Staying'
<1> SUFFICES ASSUME Calm, TypeOK, Staying, [Next]_vars, NEW w \in Workers
             PROVE  ~stop'[w] /\ at'[w] \notin {"drain", "stopped"}
  BY DEF Staying
<1>a. NoOutage /\ ~RedisRaises /\ "crash" \notin Faults /\ "stop" \notin Faults
  BY CalmMeans, SteadyMeans
<1>b. /\ ~stop[w] /\ at[w] \notin {"drain", "stopped"}
      /\ at \in [Workers -> Places] /\ stop \in [Workers -> BOOLEAN]
  BY DEF Staying, TypeOK
<1>1. CASE UNCHANGED <<at, stop>>
  BY <1>b, <1>1
<1>2. ASSUME NEW v \in Workers, MainLoop(v)
      PROVE  ~stop'[w] /\ at'[w] \notin {"drain", "stopped"}
  <2>a. ~stop[v] /\ at[v] # "drain" /\ at[v] # "stopped"
    BY DEF Staying
  <2>b. EndJob(v) => at' = [at EXCEPT ![v] = "poll"]
    BY <2>a DEF EndJob, Step
  <2>1. CASE \/ Poll(v) \/ CacheResult(v) \/ ReleaseWaiterSlot(v) \/ UnlockAfterFailure(v)
             \/ ReleaseJobSlot(v, "release", "cache")
             \/ ReleaseJobSlot(v, "fail_release", "fail_unlock")
             \/ TakeWaiters(v, "pop", "resolve") \/ TakeWaiters(v, "fail_pop", "promote")
    BY <1>b, <2>1 DEF Poll, CacheResult, ReleaseWaiterSlot, UnlockAfterFailure, ReleaseJobSlot,
                      TakeWaiters, Step
  <2>2. CASE Claim(v) \/ ProcessingSucceeds(v) \/ ProcessingFailsForGood(v)
    BY <1>b, <2>b, <2>2
       DEF Claim, ProcessingSucceeds, ProcessingFailsForGood, JobRaises, Step
  <2>3. CASE ProcessingFails(v) \/ FinishSuccess(v) \/ FinishFailure(v)
    BY <1>b, <2>b, <2>3 DEF ProcessingFails, FinishSuccess, FinishFailure, JobRaises
  <2>4. CASE ResolveWaiter(v) \/ PromoteWaiter(v)
    BY <1>b, <2>b, <2>4 DEF ResolveWaiter, PromoteWaiter, JobRaises, Step
  <2>5. ~LeaveLoop(v)
    BY <2>a DEF LeaveLoop
  <2> QED BY <1>2, <2>1, <2>2, <2>3, <2>4, <2>5 DEF MainLoop, Work
<1>3. ASSUME NEW v \in Workers PROVE ~Supervise(v)
  BY <1>a DEF Supervise, Drained, SigTerm, WorkerCrash, PollRaises, DequeueRaises, Restart,
              Staying
<1>4. CASE \E v \in Workers : Backoff(v)
  BY <1>1, <1>4 DEF Backoff, RetryFires
<1>5. CASE (\E d \in Docs : Request(d) \/ Redeliver(d)) \/ Expire \/ UNCHANGED vars
  BY <1>1, <1>5 DEF Request, Redeliver, Expire, vars, workerVars
<1>6. ~ApiCrash
  BY <1>a DEF ApiCrash
<1> QED BY <1>2, <1>3, <1>4, <1>5, <1>6 DEF Next

(* Only a follower's request puts an id on a waiter list. *)
LEMMA WaitersFrom ==
  ASSUME TypeOK, [Next]_vars, NEW c \in Contents, NEW d \in Docs, d \in Range(waiters'[c])
  PROVE  d \in Range(waiters[c]) \/ request[d] = "register"
<1> DEFINE Came == d \in Range(waiters[c]) \/ request[d] = "register"
<1>a. waiters \in [Contents -> Seq(Docs)] /\ Range(<<>>) = {}
  BY RangeEmpty DEF TypeOK
<1>b. waiters'[c] \in {waiters[c], <<>>} => Came
  BY <1>a
<1>1. ASSUME NEW e \in Docs, Request(e) PROVE Came
  <2>1. CASE JoinWaiters(e)
    <3>1. \/ waiters' = [waiters EXCEPT ![ContentOf[e]] = Append(@, e)]
          \/ waiters' = waiters
      BY <2>1 DEF JoinWaiters, RegisterWaiter
    <3>2. waiters'[c] = waiters[c] \/ waiters'[c] = Append(waiters[c], e)
      BY <1>a, <3>1
    <3>3. Range(Append(waiters[c], e)) = Range(waiters[c]) \cup {e}
      BY <1>a, RangeAppend
    <3> QED BY <2>1, <3>2, <3>3 DEF JoinWaiters
  <2>2. CASE ~JoinWaiters(e)
    BY <1>1, <1>b, <2>2 DEF Request, Submit, LookUpCache, InsertCached, AcquireSlot,
       InsertQueued, ElectLeader, RecheckCache, CompleteFromCache, ReleaseOwnSlot,
       ReleaseOwnLock, EnqueueJob, ReadCache, CacheGet, TryAcquireProcessingLock,
       ReleaseProcessingLock, cacheVars
  <2> QED BY <2>1, <2>2
<1>2. ASSUME NEW w \in Workers, MainLoop(w) PROVE Came
  <2>1. CASE TakeWaiters(w, "pop", "resolve") \/ TakeWaiters(w, "fail_pop", "promote")
    <3>1. waiters' \in {waiters, [waiters EXCEPT ![ContentOf[job[w]]] = <<>>]}
      BY <2>1 DEF TakeWaiters, PopWaiters
    <3> QED BY <1>a, <1>b, <3>1
  <2>2. CASE \/ Poll(w) \/ LeaveLoop(w) \/ Claim(w) \/ ProcessingSucceeds(w) \/ ProcessingFails(w)
             \/ ProcessingFailsForGood(w) \/ CacheResult(w) \/ ResolveWaiter(w)
    BY <1>b, <2>2 DEF Poll, LeaveLoop, Claim, ProcessingSucceeds, ProcessingFails,
                ProcessingFailsForGood, CacheResult, CacheSet, ResolveWaiter, cacheVars
  <2>3. CASE \/ ReleaseJobSlot(w, "release", "cache")
             \/ ReleaseJobSlot(w, "fail_release", "fail_unlock")
             \/ ReleaseWaiterSlot(w) \/ FinishSuccess(w) \/ UnlockAfterFailure(w)
             \/ PromoteWaiter(w) \/ FinishFailure(w)
    BY <1>b, <2>3 DEF ReleaseJobSlot, ReleaseWaiterSlot, FinishSuccess, UnlockAfterFailure,
                ReleaseProcessingLock, PromoteWaiter, FinishFailure, cacheVars
  <2> QED BY <1>2, <2>1, <2>2, <2>3 DEF MainLoop, Work
<1>3. ASSUME NEW w \in Workers, Backoff(w) \/ Supervise(w) PROVE UNCHANGED waiters
  BY <1>3 DEF Backoff, Supervise, RetryFires, Drained, SigTerm, WorkerCrash, PollRaises,
              Dies, Restart, cacheVars
<1>4. CASE Expire
  BY <1>a, <1>b, <1>4 DEF Expire, ExpireCache, ExpireLock, ExpireWaiters, cacheVars
<1>5. CASE ApiCrash \/ (\E e \in Docs : Redeliver(e)) \/ UNCHANGED vars
  BY <1>b, <1>5 DEF ApiCrash, Redeliver, vars, storeVars, cacheVars
<1> QED BY <1>b, <1>1, <1>2, <1>3, <1>4, <1>5 DEF Next

(* A worker pops what waited for its text. *)
LEMMA PoppedFrom ==
  ASSUME NoOutage, TypeOK, Ownership, Ownership', [Next]_vars, NEW d \in Docs, Popped(d)'
  PROVE  Popped(d) \/ Waiting(d)
<1>1. PICK w \in Workers : d \in Range(popped'[w])
  BY DEF Popped
<1>2. popped'[w] # <<>> /\ at'[w] \in {"resolve", "release_waiter", "promote"}
  BY <1>1, RangeEmpty DEF Ownership, WorkerOwnership
<1>3. Advance(w)
  BY Advances
<1>4. \/ popped'[w] = popped[w]
      \/ popped[w] # <<>> /\ popped'[w] = Tail(popped[w])
      \/ popped'[w] = waiters[ContentOf[job[w]]] /\ at[w] \in {"pop", "fail_pop"}
  BY <1>2, <1>3 DEF Advance, LoopStep, SuccessStep, FailureStep, Keeps, Idle
<1>5. popped[w] # <<>> => Range(Tail(popped[w])) \subseteq Range(popped[w])
  BY WorkerTypes, RangeHeadTail
<1>6. at[w] \in {"pop", "fail_pop"} => ContentOf[job[w]] \in Contents
  BY WorkerTypes DEF Loop
<1>7. \A c \in Contents : d \in Range(waiters[c]) => Waiting(d)
  BY DEF Ownership, WaiterOwnership, Waiting
<1> QED BY <1>1, <1>4, <1>5, <1>6, <1>7 DEF Popped

LEMMA LeadersStillLead ==
  ASSUME Calm, TypeOK, Ownership, Ownership', LeadersLead, [Next]_vars
  PROVE  LeadersLead'
<1> SUFFICES ASSUME NEW d \in Docs, request'[d] = "led"
             PROVE  ~Waiting(d)' /\ ~Popped(d)'
  BY DEF LeadersLead
<1>1. request[d] \in {"led", "enqueue"} /\ request[d] # "register"
  BY PlaceSteps DEF PlaceStep
<1>2. ~Waiting(d) /\ ~Popped(d)
  BY <1>1 DEF LeadersLead, Ownership, RequestOwnership, Stored
<1>3. ~Waiting(d)'
  <2>1. ContentOf[d] \in Contents
    BY EnvironmentAssumption
  <2> QED BY <1>1, <1>2, <2>1, WaitersFrom DEF Waiting
<1> QED BY <1>2, <1>3, PoppedFrom, CalmMeans, SteadyMeans
-----------------------------------------------------------------------------
(* How the timers run while no time passes. *)

(* A scheduled retry starts with its backoff, and only a failed attempt schedules one. *)
LEMMA BackingFrom ==
  ASSUME TypeOK, Ownership, SleepsBounded, [Next]_vars, NEW d \in Docs, Backing(d)', ~Backing(d)
  PROVE  /\ Status(d) = "processing"
         /\ docs[d].attempts \in 1..MaxRetries
         /\ \E w \in Workers : at[w] = "process" /\ job[w] = d
<1>1. PICK w \in Workers : \E t \in retries'[w] : t[1] = d
  BY DEF Backing
<1>2. PICK t \in retries'[w] : t[1] = d
  BY <1>1
<1>3. t \notin retries[w]
  BY <1>2 DEF Backing
<1>4. at[w] = "process" /\ job[w] = d /\ attempt[w] <= MaxRetries
  BY <1>2, <1>3, RetriesFrom
<1>5. Status(d) = "processing" /\ docs[d].attempts = attempt[w]
  BY <1>4 DEF Ownership, ExclusiveClaim
<1>6. docs[d].attempts \in Nat /\ docs[d].attempts > 0
  BY <1>5, DocumentFields DEF TypeOK, SleepsBounded
<1> QED BY <1>4, <1>5, <1>6, WorkerAssumption

LEMMA BackoffStep ==
  ASSUME TypeOK, Ownership, SleepsBounded, [Next]_vars, Timers, NEW d \in Docs
  PROVE  /\ ~Backing(d)' => due'[d] = 0
         /\ Backing(d)' /\ Backing(d) => due'[d] = due[d]
         /\ Backing(d)' /\ ~Backing(d) => due'[d] = BackoffSeconds[docs[d].attempts - 1]
BY DEF Timers, BackoffTimers, Timer

LEMMA WakeStep ==
  ASSUME TimersTyped, Timers, NEW w \in Workers
  PROVE  /\ wake'[w] \in Nat
         /\ at'[w] = "process" /\ at[w] = "process" => wake'[w] = wake[w]
         /\ at'[w] = "process" /\ at[w] # "process" => wake'[w] <= MaxProcessing
<1>1. PICK seconds \in MinProcessing..MaxProcessing :
        wake' = [v \in Workers |->
                   Timer(at'[v] = "process", at[v] # "process", seconds, wake[v])]
  BY DEF Timers, ProcessingTimers
<1>2. seconds \in Nat /\ seconds <= MaxProcessing /\ wake[w] \in Nat
  BY JobTimesAssumption DEF TimersTyped
<1>3. wake'[w] = Timer(at'[w] = "process", at[w] # "process", seconds, wake[w])
  BY <1>1
<1> QED BY <1>2, <1>3 DEF Timer

(* A key that is there was renewed, or goes on as it was. *)
LEMMA KeySteps ==
  ASSUME Timers, NEW d \in Docs, UserOf[d] \in Users, ContentOf[d] \in Contents
  PROVE  /\ d \in slots'[UserOf[d]] =>
              \/ slotTTL'[UserOf[d]] = WorstCaseJobLifetime
              \/ d \in slots[UserOf[d]] /\ slotTTL'[UserOf[d]] = slotTTL[UserOf[d]]
         /\ lock'[ContentOf[d]] =>
              \/ lockTTL'[ContentOf[d]] = WorstCaseJobLifetime
              \/ lock[ContentOf[d]] /\ lockTTL'[ContentOf[d]] = lockTTL[ContentOf[d]]
<1>1. slotTTL'[UserOf[d]] =
        Timer(slots'[UserOf[d]] # {}, slots'[UserOf[d]] \ slots[UserOf[d]] # {},
              WorstCaseJobLifetime, slotTTL[UserOf[d]])
  BY DEF Timers, SlotTimers
<1>2. lockTTL'[ContentOf[d]] =
        Timer(lock'[ContentOf[d]], ~lock[ContentOf[d]], WorstCaseJobLifetime,
              lockTTL[ContentOf[d]])
  BY DEF Timers, LockTimers
<1>3. d \in slots'[UserOf[d]] =>
        \/ slotTTL'[UserOf[d]] = WorstCaseJobLifetime
        \/ d \in slots[UserOf[d]] /\ slotTTL'[UserOf[d]] = slotTTL[UserOf[d]]
  BY <1>1 DEF Timer
<1>4. lock'[ContentOf[d]] =>
        \/ lockTTL'[ContentOf[d]] = WorstCaseJobLifetime
        \/ lock[ContentOf[d]] /\ lockTTL'[ContentOf[d]] = lockTTL[ContentOf[d]]
  BY <1>2 DEF Timer
<1> QED BY <1>3, <1>4

LEMMA StepTimersTyped ==
  ASSUME TypeOK, Ownership, SleepsBounded, TimersTyped, [Next]_vars, Timers
  PROVE  TimersTyped'
<1>a. WorstCaseJobLifetime \in Nat /\ \A n \in Nat : BackoffSeconds[n] \in Nat
  BY Sums, BackoffSecondsDef
<1>1. slotTTL' \in [Users -> Nat]
  BY <1>a DEF Timers, SlotTimers, Timer, TimersTyped
<1>2. lockTTL' \in [Contents -> Nat]
  BY <1>a DEF Timers, LockTimers, Timer, TimersTyped
<1>3. wake' \in [Workers -> Nat]
  <2>1. \E f : wake' = [w \in Workers |-> f[w]]
    <3>1. PICK seconds : wake' = [w \in Workers |->
                   Timer(at'[w] = "process", at[w] # "process", seconds, wake[w])]
      BY DEF Timers, ProcessingTimers
    <3>2. wake' = [w \in Workers |-> wake'[w]]
      BY <3>1
    <3> QED BY <3>2
  <2>2. \A w \in Workers : wake'[w] \in Nat
    BY WakeStep
  <2> QED BY <2>1, <2>2
<1>4. due' \in [Docs -> Nat]
  <2>1. due' = [d \in Docs |-> due'[d]]
    BY DEF Timers, BackoffTimers
  <2>2. ASSUME NEW d \in Docs PROVE due'[d] \in Nat
    <3>1. Backing(d)' /\ ~Backing(d) => docs[d].attempts - 1 \in Nat
      BY BackingFrom, WorkerAssumption
    <3>2. due[d] \in Nat
      BY DEF TimersTyped
    <3> QED BY <1>a, <3>1, <3>2, BackoffStep
  <2> QED BY <2>1, <2>2
<1> QED BY <1>1, <1>2, <1>3, <1>4 DEF TimersTyped

LEMMA StepSleepsBounded ==
  ASSUME TypeOK, Ownership, SleepsBounded, TimersTyped, [Next]_vars, Timers
  PROVE  SleepsBounded'
<1>a. \A d \in Docs : docs[d].attempts \in Nat
  BY DocumentFields DEF TypeOK
<1>1. ASSUME NEW d \in Docs, docs'[d].status = "processing" PROVE docs'[d].attempts > 0
  <2>1. Status(d) = "processing" => Started(d)
    BY DEF SleepsBounded, Started
  <2>2. Started(d)'
    BY <1>1, <2>1, AttemptsGrow
  <2> QED BY <2>2 DEF Started
<1>2. ASSUME NEW w \in Workers, at'[w] = "process" PROVE wake'[w] <= MaxProcessing
  BY <1>2, WakeStep DEF SleepsBounded
<1>3. ASSUME NEW d \in Docs, Backing(d)'
      PROVE  \E k \in 1..MaxRetries : k <= docs'[d].attempts /\ due'[d] <= BackoffSeconds[k - 1]
  <2>1. docs'[d].attempts \in {docs[d].attempts, docs[d].attempts + 1}
    BY AttemptSteps DEF AttemptStep
  <2>2. CASE Backing(d)
    <3>1. PICK k \in 1..MaxRetries : k <= docs[d].attempts /\ due[d] <= BackoffSeconds[k - 1]
      BY <2>2 DEF SleepsBounded
    <3>2. due'[d] = due[d] /\ k <= docs'[d].attempts
      BY <1>3, <1>a, <2>1, <2>2, <3>1, BackoffStep
    <3> QED BY <3>1, <3>2
  <2>3. CASE ~Backing(d)
    <3>1. docs[d].attempts \in 1..MaxRetries /\ due'[d] = BackoffSeconds[docs[d].attempts - 1]
      BY <1>3, <2>3, BackingFrom, BackoffStep
    <3>2. due'[d] <= BackoffSeconds[docs[d].attempts - 1]
      <4>1. docs[d].attempts - 1 \in Nat
        BY <3>1, WorkerAssumption
      <4>2. BackoffSeconds[docs[d].attempts - 1] \in Nat
        BY <4>1, BackoffSecondsDef
      <4> QED BY <3>1, <4>2
    <3>3. docs[d].attempts <= docs'[d].attempts
      BY <1>a, <2>1
    <3> QED BY <3>1, <3>2, <3>3
  <2> QED BY <2>2, <2>3
<1> QED BY <1>1, <1>2, <1>3 DEF SleepsBounded, Status
-----------------------------------------------------------------------------
(* While no time passes: the keys of a request are fresh, and what was enough for *)
(* the job of a leader still is.                                                  *)

LEMMA StepKeysFresh ==
  ASSUME Calm, TypeOK, TimersTyped, KeysFresh, [Next]_vars, Timers
  PROVE  KeysFresh'
<1> SUFFICES ASSUME NEW d \in Docs
             PROVE  /\ request'[d] \in {"new", "acquire"} => d \notin slots'[UserOf[d]]
                    /\ request'[d] \in {"insert", "elect", "recheck", "enqueue"}
                         /\ d \in slots'[UserOf[d]] =>
                         slotTTL'[UserOf[d]] >= WorstCaseJobLifetime
                    /\ request'[d] \in {"recheck", "enqueue"} /\ lock'[ContentOf[d]] =>
                         lockTTL'[ContentOf[d]] >= WorstCaseJobLifetime
  BY DEF KeysFresh
<1>a. UserOf[d] \in Users /\ ContentOf[d] \in Contents /\ WorstCaseJobLifetime \in Nat
  BY EnvironmentAssumption, Sums
<1>b. PlaceStep(d) /\ SlotStep(UserOf[d], d)
  BY <1>a, PlaceSteps, SlotSteps
<1>c. Steady
  BY CalmMeans
<1>1. request'[d] \in {"new", "acquire"} => d \notin slots'[UserOf[d]]
  <2>1. request'[d] \in {"new", "acquire"} => request[d] \in {"new", "acquire"}
    BY <1>b DEF PlaceStep
  <2> QED BY <1>b, <2>1 DEF KeysFresh, SlotStep
<1>2. ASSUME request'[d] \in {"insert", "elect", "recheck", "enqueue"}, d \in slots'[UserOf[d]]
      PROVE  slotTTL'[UserOf[d]] >= WorstCaseJobLifetime
  <2>1. CASE slotTTL'[UserOf[d]] = WorstCaseJobLifetime
    BY <1>a, <2>1
  <2>2. CASE d \in slots[UserOf[d]] /\ slotTTL'[UserOf[d]] = slotTTL[UserOf[d]]
    <3>1. request[d] \in {"acquire", "insert", "elect", "recheck", "enqueue"}
      BY <1>b, <1>2 DEF PlaceStep
    <3> QED BY <2>2, <3>1 DEF KeysFresh
  <2> QED BY <1>a, <1>2, <2>1, <2>2, KeySteps
<1>3. ASSUME request'[d] \in {"recheck", "enqueue"}, lock'[ContentOf[d]]
      PROVE  lockTTL'[ContentOf[d]] >= WorstCaseJobLifetime
  <2>1. CASE lockTTL'[ContentOf[d]] = WorstCaseJobLifetime
    BY <1>a, <2>1
  <2>2. CASE lock[ContentOf[d]] /\ lockTTL'[ContentOf[d]] = lockTTL[ContentOf[d]]
    <3>1. request[d] \in {"elect", "recheck", "enqueue"}
      BY <1>b, <1>3 DEF PlaceStep
    <3>2. request[d] # "elect"
      BY <1>b, <1>c, <1>3, <2>2, LockWon DEF PlaceStep
    <3> QED BY <2>2, <3>1, <3>2 DEF KeysFresh
  <2> QED BY <1>a, <1>3, <2>1, <2>2, KeySteps
<1> QED BY <1>1, <1>2, <1>3

(* Seconds that will be enough for the job of d after the step. *)
EnoughAfter(seconds, d) ==
  /\ d \in Range(queue') \/ Taken(d)' => seconds >= Remaining(docs'[d].attempts)
  /\ \A w \in Workers :
       at'[w] = "process" /\ job'[w] = d => seconds >= wake'[w] + AfterAttempt(docs'[d].attempts)
  /\ Backing(d)' => seconds >= due'[d] + Remaining(docs'[d].attempts)

LEMMA LifetimeIsEnough ==
  ASSUME TypeOK', Ownership', TimersTyped', SleepsBounded', NEW d \in Docs,
         NEW seconds \in Nat, seconds >= WorstCaseJobLifetime
  PROVE  EnoughAfter(seconds, d)
<1> DEFINE a == docs'[d].attempts
<1>1. a \in 0..MaxRetries + 1
  <2>1. a \in Nat
    BY DEF TypeOK, DocumentInDB
  <2> QED BY <2>1, WorkerAssumption DEF Ownership, AttemptsBounded
<1>2. Remaining(a) \in Nat /\ Remaining(a) <= WorstCaseJobLifetime /\ WorstCaseJobLifetime \in Nat
  BY <1>1, Sums, LifetimeCovers
<1>3. ASSUME NEW w \in Workers, at'[w] = "process", job'[w] = d
      PROVE  seconds >= wake'[w] + AfterAttempt(a)
  <2>1. docs'[d].status = "processing"
    BY <1>3 DEF Ownership, ExclusiveClaim, Status
  <2>2. a \in 1..MaxRetries + 1
    BY <1>1, <2>1, WorkerAssumption DEF SleepsBounded, Status
  <2>3. MaxProcessing + AfterAttempt(a) <= WorstCaseJobLifetime /\ AfterAttempt(a) \in Nat
    BY <2>2, Sums, LifetimeCovers
  <2>4. wake'[w] \in Nat /\ wake'[w] <= MaxProcessing /\ MaxProcessing \in Nat
    BY <1>3, Sums DEF TimersTyped, SleepsBounded
  <2> QED BY <1>2, <2>3, <2>4
<1>4. ASSUME Backing(d)' PROVE seconds >= due'[d] + Remaining(a)
  <2>1. PICK k \in 1..MaxRetries : k <= a /\ due'[d] <= BackoffSeconds[k - 1]
    BY <1>4 DEF SleepsBounded
  <2>2. a \in k..MaxRetries + 1 /\ k - 1 \in Nat
    BY <1>1, <2>1, WorkerAssumption
  <2>3. BackoffSeconds[k - 1] + Remaining(a) <= WorstCaseJobLifetime
    BY <2>2, LifetimeCovers
  <2>4. due'[d] \in Nat /\ BackoffSeconds[k - 1] \in Nat
    BY <2>2, BackoffSecondsDef DEF TimersTyped
  <2> QED BY <1>2, <2>1, <2>3, <2>4
<1> QED BY <1>2, <1>3, <1>4 DEF EnoughAfter

LEMMA EnoughKept ==
  ASSUME Calm, TypeOK, TypeOK', Ownership, Ownership', TimersTyped, TimersTyped',
         SleepsBounded, SleepsBounded', [Next]_vars, Timers,
         NEW d \in Docs, request[d] # "enqueue", ~Promoting(d),
         NEW seconds \in Nat, Enough(seconds, d)
  PROVE  EnoughAfter(seconds, d)
<1> DEFINE a == docs[d].attempts
           b == docs'[d].attempts
<1>a. NoOutage /\ "duplicate" \notin Faults
  BY CalmMeans, SteadyMeans
<1>b. /\ AttemptStep(d)
      /\ \A w \in Workers : at[w] = "process" /\ job[w] = d => Status(d) = "processing"
  BY AttemptSteps DEF Ownership, ExclusiveClaim
<1>c. a \in 0..MaxRetries + 1 /\ b \in a..MaxRetries + 1 /\ b \in {a, a + 1}
  <2>1. a \in Nat /\ b \in Nat
    BY DEF TypeOK, DocumentInDB
  <2> QED BY <1>b, <2>1, WorkerAssumption DEF Ownership, AttemptsBounded, AttemptStep
<1>d. Status(d) = "processing" => b = a /\ a \in 1..MaxRetries + 1
  BY <1>b, <1>c, WorkerAssumption DEF AttemptStep, SleepsBounded
<1>e. /\ Remaining(a) \in Nat /\ Remaining(b) \in Nat /\ Remaining(b) <= Remaining(a)
      /\ due[d] \in Nat /\ \A w \in Workers : wake[w] \in Nat
  <2>1. b \in 0..MaxRetries + 1
    BY <1>c, WorkerAssumption
  <2> QED BY <1>c, <2>1, Sums, RemainingShrinks DEF TimersTyped
<1>f. Runnable(d) => seconds >= Remaining(a)
  BY <1>e DEF Enough, Runnable
<1>1. ASSUME d \in Range(queue') \/ Taken(d)' PROVE seconds >= Remaining(b)
  <2>1. Runnable(d)
    <3>1. CASE d \in Range(queue')
      BY <1>a, <3>1, QueueFrom DEF Runnable
    <3>2. CASE Taken(d)'
      <4>1. PICK w \in Workers : at'[w] = "claim" /\ job'[w] = d
        BY <3>2 DEF Taken
      <4>2. Advance(w)
        BY <1>a, Advances
      <4>3. \/ at[w] = "claim" /\ job[w] = d
            \/ queue # <<>> /\ d = Head(queue)
        BY <4>1, <4>2 DEF Advance, LoopStep, SuccessStep, FailureStep, Keeps, Idle
      <4>4. queue # <<>> => Head(queue) \in Range(queue)
        BY RangeHeadTail DEF TypeOK
      <4> QED BY <4>3, <4>4 DEF Runnable, Taken
    <3> QED BY <1>1, <3>1, <3>2
  <2> QED BY <1>e, <1>f, <2>1
<1>2. ASSUME NEW w \in Workers, at'[w] = "process", job'[w] = d
      PROVE  seconds >= wake'[w] + AfterAttempt(b)
  <2>1. \/ at[w] = "process" /\ job[w] = d
        \/ at[w] = "claim" /\ job[w] = d /\ Status(d) = "queued"
    <3>1. Advance(w)
      BY <1>a, Advances
    <3> QED BY <1>2, <3>1 DEF Advance, LoopStep, SuccessStep, FailureStep, Keeps, Idle
  <2>2. CASE at[w] = "process" /\ job[w] = d
    <3>1. wake'[w] = wake[w] /\ b = a
      BY <1>2, <1>b, <1>d, <2>2, WakeStep
    <3> QED BY <2>2, <3>1 DEF Enough
  <2>3. CASE at[w] = "claim" /\ job[w] = d /\ Status(d) = "queued"
    <3>1. seconds >= Remaining(a)
      BY <2>3 DEF Enough, Taken
    <3>2. docs'[d].status = "processing"
      BY <1>2 DEF Ownership, ExclusiveClaim, Status
    <3>3. b = a + 1 /\ a \in 0..MaxRetries /\ b \in 1..MaxRetries + 1
      BY <1>b, <1>c, <2>3, <3>2, WorkerAssumption DEF AttemptStep
    <3>4. Remaining(a) = MaxProcessing + AfterAttempt(b) /\ AfterAttempt(b) \in Nat
      BY <3>3, Sums
    <3>5. wake'[w] \in Nat /\ wake'[w] <= MaxProcessing /\ MaxProcessing \in Nat
      BY <1>2, <2>3, WakeStep, Sums
    <3> QED BY <3>1, <3>4, <3>5
  <2> QED BY <2>1, <2>2, <2>3
<1>3. ASSUME Backing(d)' PROVE seconds >= due'[d] + Remaining(b)
  <2>1. CASE Backing(d)
    <3>1. due'[d] = due[d] /\ seconds >= due[d] + Remaining(a)
      BY <1>3, <2>1, BackoffStep DEF Enough
    <3> QED BY <1>e, <3>1
  <2>2. CASE ~Backing(d)
    <3>1. PICK w \in Workers : at[w] = "process" /\ job[w] = d
      BY <1>3, <2>2, BackingFrom
    <3>2. b = a /\ a \in 1..MaxRetries /\ due'[d] = BackoffSeconds[a - 1]
      BY <1>3, <1>d, <2>2, BackingFrom, BackoffStep
    <3>3. seconds >= wake[w] + AfterAttempt(a)
      BY <3>1 DEF Enough
    <3>4. AfterAttempt(a) = BackoffSeconds[a - 1] + Remaining(a)
      BY <3>2, Sums
    <3>5. BackoffSeconds[a - 1] \in Nat
      BY <3>2, BackoffSecondsDef, WorkerAssumption
    <3> QED BY <1>e, <3>2, <3>3, <3>4, <3>5
  <2> QED BY <2>1, <2>2
<1> QED BY <1>1, <1>2, <1>3 DEF EnoughAfter

LEMMA KeysLastAfter ==
  ASSUME \A d \in Docs : request'[d] = "led" =>
           /\ d \in slots'[UserOf[d]] => EnoughAfter(slotTTL'[UserOf[d]], d)
           /\ lock'[ContentOf[d]] => EnoughAfter(lockTTL'[ContentOf[d]], d)
  PROVE  KeysLast'
BY DEF KeysLast, Enough, EnoughAfter

LEMMA StepKeysLast ==
  ASSUME Calm, TypeOK, TypeOK', Ownership, Ownership', TimersTyped, TimersTyped',
         SleepsBounded, SleepsBounded', LeadersLead, KeysFresh, KeysLast, [Next]_vars, Timers
  PROVE  KeysLast'
<1> SUFFICES ASSUME NEW d \in Docs, request'[d] = "led"
             PROVE  /\ d \in slots'[UserOf[d]] => EnoughAfter(slotTTL'[UserOf[d]], d)
                    /\ lock'[ContentOf[d]] => EnoughAfter(lockTTL'[ContentOf[d]], d)
  BY KeysLastAfter
<1>a. /\ UserOf[d] \in Users /\ ContentOf[d] \in Contents /\ WorstCaseJobLifetime \in Nat
      /\ WorstCaseJobLifetime >= WorstCaseJobLifetime
  BY EnvironmentAssumption, Sums
<1>b. /\ slotTTL[UserOf[d]] \in Nat /\ slotTTL'[UserOf[d]] \in Nat
      /\ lockTTL[ContentOf[d]] \in Nat /\ lockTTL'[ContentOf[d]] \in Nat
  BY <1>a DEF TimersTyped
<1>c. EnoughAfter(WorstCaseJobLifetime, d)
  BY <1>a, LifetimeIsEnough
<1>d. request[d] \in {"led", "enqueue"}
  BY PlaceSteps DEF PlaceStep
<1>1. CASE request[d] = "enqueue"
  <2>1. d \in slots'[UserOf[d]] => slotTTL'[UserOf[d]] >= WorstCaseJobLifetime
    BY <1>1, <1>a, KeySteps DEF KeysFresh
  <2>2. lock'[ContentOf[d]] => lockTTL'[ContentOf[d]] >= WorstCaseJobLifetime
    BY <1>1, <1>a, KeySteps DEF KeysFresh
  <2> QED BY <1>b, <2>1, <2>2, LifetimeIsEnough
<1>2. CASE request[d] = "led"
  <2>1. ~Promoting(d)
    BY <1>2 DEF LeadersLead, Promoting, Popped
  <2>2. ASSUME NEW seconds \in Nat, Enough(seconds, d) PROVE EnoughAfter(seconds, d)
    BY <1>2, <2>1, <2>2, EnoughKept
  <2>3. d \in slots'[UserOf[d]] => EnoughAfter(slotTTL'[UserOf[d]], d)
    BY <1>2, <1>a, <1>b, <1>c, <2>2, KeySteps DEF KeysLast
  <2>4. lock'[ContentOf[d]] => EnoughAfter(lockTTL'[ContentOf[d]], d)
    BY <1>2, <1>a, <1>b, <1>c, <2>2, KeySteps DEF KeysLast
  <2> QED BY <2>3, <2>4
<1> QED BY <1>1, <1>2, <1>d
-----------------------------------------------------------------------------
(* A second passes when everybody sleeps or waits.  If a job is still in the queue *)
(* then, no worker waits: each processes a document of its own, and with as many   *)
(* workers as documents that is every document.                                    *)

LEMMA EverybodyBusy ==
  ASSUME TypeOK, Ownership, Staying, \A w \in Workers : Rests(w), queue # <<>>,
         IsFiniteSet(Workers), Cardinality(Docs) <= Cardinality(Workers), NEW d \in Docs
  PROVE  \E w \in Workers : at[w] = "process" /\ job[w] = d
<1> DEFINE f == [w \in Workers |-> job[w]]
<1>1. \A w \in Workers : at[w] = "process"
  BY DEF Rests, Staying
<1>2. \A w \in Workers : job[w] \in Docs
  BY <1>1, WorkerTypes DEF Loop
<1>3. f \in Injection(Workers, Docs)
  <2>1. \A v, w \in Workers : job[v] = job[w] => v = w
    BY <1>1 DEF Ownership, ExclusiveClaim
  <2> QED BY <1>2, <2>1 DEF Injection, IsInjective
<1>4. IsFiniteSet(Docs) /\ Cardinality(Docs) \in Nat /\ Cardinality(Workers) \in Nat
  BY EnvironmentAssumption, FS_CardinalityType
<1>5. f \in Surjection(Workers, Docs)
  <2>1. /\ Cardinality(Workers) <= Cardinality(Docs)
        /\ Cardinality(Workers) = Cardinality(Docs) <=> f \in Surjection(Workers, Docs)
    <3> HIDE DEF f
    <3> QED BY <1>3, <1>4, FS_Injection
  <2> QED BY <1>4, <2>1
<1>6. PICK w \in Workers : f[w] = d
  BY <1>5 DEF Surjection
<1> QED BY <1>1, <1>6

LEMMA TickSteps ==
  ASSUME TypeOK, Staying, TimersTyped, Tick
  PROVE  /\ UNCHANGED <<docs, queue, request, at, job, retries, stop>>
         /\ \A w \in Workers : Rests(w) /\ at[w] # "claim"
         /\ \A w \in Workers : at[w] = "process" => wake[w] > 0 /\ wake'[w] = wake[w] - 1
         /\ \A d \in Docs : Backing(d) => due[d] > 0 /\ due'[d] = due[d] - 1
         /\ TimersTyped'
<1>1. UNCHANGED <<docs, queue, request, at, job, retries, stop>>
  BY DEF Tick, requestVars, workerVars, localVars
<1>2. \A w \in Workers : Rests(w) /\ at[w] # "claim"
  BY DEF Tick, Rests
<1>3. TimersTyped'
  BY DEF Tick, Less, TimersTyped
<1>4. \A w \in Workers : at[w] = "process" => wake[w] > 0
  BY <1>2 DEF Rests
<1>5. \A d \in Docs : Backing(d) => due[d] > 0
  BY <1>2 DEF Rests, Backing
<1>6. \A w \in Workers : wake'[w] = IF wake[w] = 0 THEN 0 ELSE wake[w] - 1
  BY DEF Tick, Less, TimersTyped
<1>7. \A d \in Docs : due'[d] = IF due[d] = 0 THEN 0 ELSE due[d] - 1
  BY DEF Tick, Less, TimersTyped
<1> QED BY <1>1, <1>2, <1>3, <1>4, <1>5, <1>6, <1>7 DEF TimersTyped

(* A second less is enough for what a second later is left to do, and while the job *)
(* of a leader is alive more than one second is left.                               *)
LEMMA EnoughTicks ==
  ASSUME TypeOK, Ownership, TimersTyped, Staying, SleepsBounded, Tick,
         IsFiniteSet(Workers), Cardinality(Docs) <= Cardinality(Workers),
         NEW d \in Docs, NEW seconds \in Nat, Enough(seconds, d)
  PROVE  /\ seconds > 0 => EnoughAfter(seconds - 1, d)
         /\ seconds = 0 => EnoughAfter(0, d)
         /\ Buffer # 0 /\ (Runnable(d) \/ Claimed(d)) => seconds > 1
<1> DEFINE a == docs[d].attempts
<1>a. Buffer \in Nat /\ a \in 0..MaxRetries + 1 /\ Remaining(a) \in Nat /\ Remaining(a) >= Buffer
  <2>1. a \in Nat
    BY DEF TypeOK, DocumentInDB
  <2>2. a \in 0..MaxRetries + 1
    BY <2>1, WorkerAssumption DEF Ownership, AttemptsBounded
  <2> QED BY <2>2, Sums
<1>b. ~Taken(d) /\ due[d] \in Nat /\ \A w \in Workers : wake[w] \in Nat
  BY TickSteps DEF Taken, TimersTyped
<1>1. ASSUME NEW w \in Workers, at[w] = "process", job[w] = d
      PROVE  /\ AfterAttempt(a) \in Nat /\ AfterAttempt(a) >= Remaining(a)
             /\ wake[w] > 0 /\ wake'[w] = wake[w] - 1
             /\ seconds >= wake[w] + AfterAttempt(a)
  <2>1. Status(d) = "processing"
    BY <1>1 DEF Ownership, ExclusiveClaim
  <2>2. a \in 1..MaxRetries + 1
    BY <1>a, <2>1, WorkerAssumption DEF SleepsBounded
  <2>3. AfterAttempt(a) \in Nat /\ AfterAttempt(a) >= Remaining(a)
    BY <2>2, Sums
  <2>4. wake[w] > 0 /\ wake'[w] = wake[w] - 1
    BY <1>1, TickSteps
  <2> QED BY <1>1, <2>3, <2>4 DEF Enough
<1>2. ASSUME Claimed(d) PROVE seconds >= 1 + Remaining(a)
  <2>1. PICK w \in Workers : at[w] = "process" /\ job[w] = d
    BY <1>2 DEF Claimed
  <2> QED BY <1>a, <1>b, <1>1, <2>1
<1>3. ASSUME d \in Range(queue) PROVE seconds >= 1 + Remaining(a)
  <2>1. queue # <<>>
    BY <1>3, RangeEmpty
  <2>2. Claimed(d)
    BY <2>1, TickSteps, EverybodyBusy DEF Claimed
  <2> QED BY <1>2, <2>2
<1>4. ASSUME Backing(d)
      PROVE  due[d] > 0 /\ due'[d] = due[d] - 1 /\ seconds >= due[d] + Remaining(a)
  BY <1>4, TickSteps DEF Enough
<1>5. seconds > 1 \/ Buffer = 0 \/ ~(Runnable(d) \/ Claimed(d))
  BY <1>a, <1>b, <1>2, <1>3, <1>4 DEF Runnable
<1>6. ASSUME NEW left \in Nat, seconds > 0 => left = seconds - 1, seconds = 0 => left = 0
      PROVE  EnoughAfter(left, d)
  <2>1. /\ docs'[d].attempts = a /\ queue' = queue
        /\ at' = at /\ job' = job /\ retries' = retries
    BY TickSteps
  <2>2. d \in Range(queue') \/ Taken(d)' => left >= Remaining(a)
    BY <1>a, <1>b, <1>3, <1>6, <2>1 DEF Taken
  <2>3. ASSUME NEW w \in Workers, at'[w] = "process", job'[w] = d
        PROVE  left >= wake'[w] + AfterAttempt(a)
    <3>1. at[w] = "process" /\ job[w] = d
      BY <2>1, <2>3
    <3> QED BY <1>b, <1>1, <1>6, <3>1
  <2>4. ASSUME Backing(d)' PROVE left >= due'[d] + Remaining(a)
    <3>1. Backing(d)
      BY <2>1, <2>4 DEF Backing
    <3> QED BY <1>a, <1>b, <1>4, <1>6, <3>1
  <2> QED BY <2>1, <2>2, <2>3, <2>4 DEF EnoughAfter
<1> QED BY <1>5, <1>6

LEMMA TickKeepsTimes ==
  ASSUME TypeOK, Ownership, TimesInv, Tick,
         IsFiniteSet(Workers), Cardinality(Docs) <= Cardinality(Workers)
  PROVE  TimesInv'
<1>a. TimersTyped /\ Staying /\ SleepsBounded /\ LeadersLead /\ KeysFresh /\ KeysLast
  BY DEF TimesInv
<1>b. /\ UNCHANGED <<docs, queue, request, at, job, retries, stop>>
      /\ UNCHANGED popped
  BY <1>a, TickSteps DEF Tick, workerVars, localVars
<1>c. /\ \A d \in Docs : UserOf[d] \in Users /\ ContentOf[d] \in Contents
      /\ \A u \in Users : slots'[u] \in {slots[u], {}}
      /\ \A c \in Contents : waiters'[c] \in {waiters[c], <<>>} /\ (lock'[c] => lock[c])
  BY EnvironmentAssumption DEF Tick
<1>d. /\ \A u \in Users : slotTTL[u] \in Nat /\ slotTTL'[u] \in Nat
      /\ \A u \in Users : slotTTL'[u] = IF slotTTL[u] = 0 THEN 0 ELSE slotTTL[u] - 1
      /\ \A c \in Contents : lockTTL[c] \in Nat /\ lockTTL'[c] \in Nat
      /\ \A c \in Contents : lockTTL'[c] = IF lockTTL[c] = 0 THEN 0 ELSE lockTTL[c] - 1
  BY <1>a, TickSteps DEF Tick, Less, TimersTyped
<1>1. TimersTyped'
  BY <1>a, TickSteps
<1>2. Staying'
  BY <1>a, <1>b DEF Staying
<1>3. SleepsBounded'
  <2>1. \A w \in Workers : at'[w] = "process" => wake'[w] <= MaxProcessing
    <3>1. \A w \in Workers : wake[w] \in Nat
      BY <1>a DEF TimersTyped
    <3> QED BY <1>a, <1>b, <3>1, TickSteps, Sums DEF SleepsBounded
  <2>2. ASSUME NEW d \in Docs, Backing(d)'
        PROVE  \E k \in 1..MaxRetries : k <= docs'[d].attempts /\ due'[d] <= BackoffSeconds[k - 1]
    <3>1. Backing(d)
      BY <1>b, <2>2 DEF Backing
    <3>2. PICK k \in 1..MaxRetries : k <= docs[d].attempts /\ due[d] <= BackoffSeconds[k - 1]
      BY <1>a, <3>1 DEF SleepsBounded
    <3>3. due'[d] = due[d] - 1 /\ due[d] \in Nat /\ BackoffSeconds[k - 1] \in Nat
      <4>1. k - 1 \in Nat
        BY WorkerAssumption
      <4> QED BY <1>a, <3>1, <4>1, TickSteps, BackoffSecondsDef DEF TimersTyped
    <3> QED BY <1>b, <3>2, <3>3
  <2> QED BY <1>a, <1>b, <2>1, <2>2 DEF SleepsBounded, Status
<1>4. LeadersLead'
  BY <1>a, <1>b, <1>c, RangeEmpty DEF LeadersLead, Waiting, Popped
<1>5. KeysFresh'
  <2>1. \A d \in Docs : request[d] \notin InProgress
    BY DEF Tick
  <2> QED BY <1>a, <1>b, <1>c, <2>1 DEF KeysFresh, InProgress, Unstored, Stored, Settling
<1>6. KeysLast'
  <2>1. ASSUME NEW d \in Docs, request'[d] = "led"
        PROVE  /\ d \in slots'[UserOf[d]] => EnoughAfter(slotTTL'[UserOf[d]], d)
               /\ lock'[ContentOf[d]] => EnoughAfter(lockTTL'[ContentOf[d]], d)
    <3>1. request[d] = "led" /\ UserOf[d] \in Users /\ ContentOf[d] \in Contents
      BY <1>b, <1>c, <2>1
    <3>2. ASSUME d \in slots'[UserOf[d]] PROVE EnoughAfter(slotTTL'[UserOf[d]], d)
      <4>1. Enough(slotTTL[UserOf[d]], d) /\ slotTTL[UserOf[d]] \in Nat
        BY <1>a, <1>c, <1>d, <3>1, <3>2 DEF KeysLast
      <4> QED BY <1>a, <1>d, <3>1, <4>1, EnoughTicks
    <3>3. ASSUME lock'[ContentOf[d]] PROVE EnoughAfter(lockTTL'[ContentOf[d]], d)
      <4>1. Enough(lockTTL[ContentOf[d]], d) /\ lockTTL[ContentOf[d]] \in Nat
        BY <1>a, <1>c, <1>d, <3>1, <3>3 DEF KeysLast
      <4> QED BY <1>a, <1>d, <3>1, <4>1, EnoughTicks
    <3> QED BY <3>2, <3>3
  <2> QED BY <2>1, KeysLastAfter
<1> QED BY <1>1, <1>2, <1>3, <1>4, <1>5, <1>6 DEF TimesInv

LEMMA StepKeepsTimes ==
  ASSUME Calm, TypeOK, TypeOK', Ownership, Ownership', TimesInv, [Next]_vars, Timers
  PROVE  TimesInv'
<1>1. TimersTyped' /\ Staying' /\ SleepsBounded' /\ LeadersLead' /\ KeysFresh'
  BY StepTimersTyped, NobodyStops, StepSleepsBounded, LeadersStillLead, StepKeysFresh DEF TimesInv
<1>2. KeysLast'
  BY <1>1, StepKeysLast DEF TimesInv
<1> QED BY <1>1, <1>2 DEF TimesInv

LEMMA StutterKeepsTimes == TimesInv /\ UNCHANGED timedVars => TimesInv'
<1> SUFFICES ASSUME TimesInv, UNCHANGED timedVars PROVE TimesInv'
  OBVIOUS
<1>1. UNCHANGED <<docs, slots, lock, waiters, queue, request, at, job, popped, retries, stop,
                  slotTTL, lockTTL, wake, due>>
  BY DEF timedVars, vars, storeVars, cacheVars, requestVars, workerVars, localVars, timers, ttlVars
<1>2. TimersTyped' /\ Staying' /\ SleepsBounded' /\ LeadersLead'
  BY <1>1 DEF TimesInv, TimersTyped, Staying, SleepsBounded, LeadersLead,
              Status, Backing, Waiting, Popped
<1>3. KeysFresh' /\ KeysLast'
  BY <1>1 DEF TimesInv, KeysFresh, KeysLast, Enough, Taken, Backing
<1> QED BY <1>2, <1>3 DEF TimesInv

LEMMA TimedInitTimes == TimedInit => TimesInv
<1> SUFFICES ASSUME TimedInit PROVE TimesInv
  OBVIOUS
<1>1. TimersTyped
  BY DEF TimedInit, TimersTyped
<1>2. Staying
  BY DEF TimedInit, Init, WorkerInit, Staying
<1>3. SleepsBounded
  BY DEF TimedInit, Init, WorkerInit, RepositoryInit, NoDocument,
              SleepsBounded, Status, Backing
<1>4. LeadersLead /\ KeysLast
  BY DEF TimedInit, Init, ServiceInit, LeadersLead, KeysLast
<1>5. KeysFresh
  BY EnvironmentAssumption DEF TimedInit, Init, ServiceInit, RateLimiterInit, KeysFresh
<1> QED BY <1>1, <1>2, <1>3, <1>4, <1>5 DEF TimesInv

LEMMA KeysOutlastLeaders ==
  ASSUME Calm, IsFiniteSet(Workers), Cardinality(Docs) <= Cardinality(Workers)
  PROVE  TimedSpec => []TimesInv
<1>1. TypeOK /\ TypeOK' /\ Ownership /\ Ownership' /\ TimesInv /\ [TimedNext]_timedVars => TimesInv'
  <2> SUFFICES ASSUME TypeOK, TypeOK', Ownership, Ownership', TimesInv, [TimedNext]_timedVars
               PROVE  TimesInv'
    OBVIOUS
  <2>1. ASSUME NEW w \in Workers PROVE ~Kill(w)
    BY DEF TimesInv, Staying, Kill
  <2> QED BY <2>1, StepsOnTheClock, StepKeepsTimes, StutterKeepsTimes, TickKeepsTimes
<1> QED BY <1>1, TimedInitTimes, TimedOwnership, PTL DEF TimedSpec

(* No second takes a key of a leader whose job is alive. *)
LEMMA TickSparesLeaders ==
  ASSUME Buffer # 0, IsFiniteSet(Workers), Cardinality(Docs) <= Cardinality(Workers),
         TypeOK, Ownership, TimesInv, Tick, NEW d \in Docs, LiveLeader(d)
  PROVE  /\ d \in slots[UserOf[d]] => d \in slots'[UserOf[d]]
         /\ lock[ContentOf[d]] => lock'[ContentOf[d]]
         /\ lock[ContentOf[d]] /\ waiterTTL[ContentOf[d]] >= lockTTL[ContentOf[d]]
              => waiters'[ContentOf[d]] = waiters[ContentOf[d]]
<1>a. TimersTyped /\ Staying /\ SleepsBounded /\ KeysLast
  BY DEF TimesInv
<1>b. /\ request[d] = "led" /\ (Runnable(d) \/ Claimed(d))
      /\ UserOf[d] \in Users /\ ContentOf[d] \in Contents
  BY EnvironmentAssumption DEF LiveLeader
<1>c. slotTTL[UserOf[d]] \in Nat /\ lockTTL[ContentOf[d]] \in Nat
  BY <1>a, <1>b DEF TimersTyped
<1>d. ASSUME NEW seconds \in Nat, Enough(seconds, d) PROVE seconds > 1
  BY <1>a, <1>b, <1>d, EnoughTicks
<1>1. d \in slots[UserOf[d]] => slotTTL[UserOf[d]] > 1
  BY <1>a, <1>b, <1>c, <1>d DEF KeysLast
<1>2. lock[ContentOf[d]] => lockTTL[ContentOf[d]] > 1
  BY <1>a, <1>b, <1>c, <1>d DEF KeysLast
<1>3. /\ slots'[UserOf[d]] = IF slotTTL[UserOf[d]] = 1 THEN {} ELSE slots[UserOf[d]]
      /\ lock[ContentOf[d]] /\ lockTTL[ContentOf[d]] # 1 => lock'[ContentOf[d]]
      /\ waiters'[ContentOf[d]] =
           IF waiterTTL[ContentOf[d]] = 1 THEN <<>> ELSE waiters[ContentOf[d]]
  BY <1>b DEF Tick
<1>4. d \in slots[UserOf[d]] => d \in slots'[UserOf[d]]
  BY <1>c, <1>1, <1>3
<1>5. lock[ContentOf[d]] => lock'[ContentOf[d]]
  BY <1>c, <1>2, <1>3
<1>6. lock[ContentOf[d]] /\ waiterTTL[ContentOf[d]] >= lockTTL[ContentOf[d]]
        => waiterTTL[ContentOf[d]] # 1
  BY <1>c, <1>2
<1> QED BY <1>3, <1>4, <1>5, <1>6

(* LeadersKeepTheirKeys for every number of retries and all sleeps: when only    *)
(* processing may fail, and there is a worker for every document, the TTL of     *)
(* compute_worst_case_job_lifetime_seconds keeps the slot, the lock and the list *)
(* behind the lock for as long as the job of the leader is alive.  A buffer of   *)
(* at least a second is needed: the sums alone end in the second the job does.   *)
THEOREM LeadersAreInTime ==
  ASSUME Calm, Buffer # 0, IsFiniteSet(Workers), Cardinality(Docs) <= Cardinality(Workers)
  PROVE  TimedSpec => LeadersKeepTheirKeys
<1>1. TypeOK /\ Ownership /\ TimesInv =>
        [Tick => \A d \in Docs : LiveLeader(d) =>
           /\ d \in slots[UserOf[d]] => d \in slots'[UserOf[d]]
           /\ lock[ContentOf[d]] => lock'[ContentOf[d]]
           /\ lock[ContentOf[d]] /\ waiterTTL[ContentOf[d]] >= lockTTL[ContentOf[d]]
                => waiters'[ContentOf[d]] = waiters[ContentOf[d]]]_timedVars
  BY TickSparesLeaders
<1> QED BY <1>1, TimedOwnership, KeysOutlastLeaders, PTL DEF LeadersKeepTheirKeys
-----------------------------------------------------------------------------
(* The lock of a text lasts until its summary is in the cache: a job that holds it *)
(* over a second is that of a leader, whose keys no second takes.  What is needed  *)
(* of calm weather for that: no started job is dropped, and none is promoted.      *)

NothingAbandoned == \A d \in Docs : NoneFailed(ContentOf[d]) /\ Started(d) => Accounted(d)

HoldersLead ==
  \A d \in Docs :
    NoneFailed(ContentOf[d]) /\ Status(d) \in Active /\ (Runnable(d) \/ Started(d)) =>
      LiveLeader(d)

OnceOnTheClock ==
  ClaimsHeld /\ Outcomes /\ Hands /\ Once /\ NothingAbandoned /\ HoldersLead

(* What was started is active until its worker goes on to the cache. *)
LEMMA NothingDropped ==
  ASSUME Calm, TypeOK, Ownership, Hands, NothingAbandoned, [Next]_vars
  PROVE  NothingAbandoned'
<1> SUFFICES ASSUME NEW d \in Docs, NoneFailed(ContentOf[d])', Started(d)'
             PROVE  Accounted(d)'
  BY DEF NothingAbandoned
<1>a. NoneFailed(ContentOf[d]) /\ ContentOf[d] \in Contents
  BY StillNoneFailed, EnvironmentAssumption
<1>1. CASE ~Started(d)
  BY <1>1, AttemptsGrow DEF Accounted, Active, Status
<1>2. CASE Started(d)
  <2>1. Accounted(d)
    BY <1>a, <1>2 DEF NothingAbandoned
  <2>2. CASE cache[ContentOf[d]] # Null
    BY <1>a, <2>2, CalmMeans, CacheStays DEF Accounted
  <2>3. ASSUME NEW w \in Workers, job[w] = d, at[w] \in {"release", "cache"}
        PROVE  Accounted(d)'
    <3>1. \/ job'[w] = d /\ at'[w] \in {"release", "cache"}
          \/ at[w] = "cache" /\ at'[w] = "pop"
      BY <2>3, CalmMeans, Advances DEF Advance, LoopStep, SuccessStep, FailureStep, Keeps
    <3>2. at[w] = "cache" /\ at'[w] = "pop" => cache'[ContentOf[d]] # Null
      BY <2>3, CalmMeans, CacheStays
    <3> QED BY <3>1, <3>2 DEF Accounted
  <2>4. CASE Status(d) \in Active /\ docs'[d].status \notin Active
    <3>1. StatusStep(d) /\ "mongo" \notin Faults /\ docs'[d].status # "failed"
      BY CalmMeans, StatusSteps DEF NoneFailed, Status
    <3>2. request[d] # "complete" /\ ~Popped(d)
      BY <1>2, EnvironmentAssumption
         DEF Ownership, RequestOwnership, WorkerOwnership, Stored, Popped, Unstarted, Started
    <3>3. Status(d) # "absent" /\ docs'[d].status # Status(d)
      BY <2>4 DEF Active
    <3>4. PICK w \in Workers : WorkerStatusStep(d, w)
      BY <3>1, <3>2, <3>3 DEF StatusStep, Status
    <3>5. at'[w] = "release" /\ job'[w] = d
      BY <2>4, <3>1, <3>2, <3>4 DEF WorkerStatusStep, Popped, Active
    <3> QED BY <3>5 DEF Accounted
  <2> QED BY <2>1, <2>2, <2>3, <2>4 DEF Accounted, Status
<1> QED BY <1>1, <1>2

(* Without a promotion, the queue gets documents from their leaders' requests and *)
(* from retries only.                                                             *)
LEMMA HoldersStillLead ==
  ASSUME Calm, TypeOK, Ownership, Ownership', ClaimsHeld, Hands, HoldersLead, [Next]_vars
  PROVE  HoldersLead'
<1> SUFFICES ASSUME NEW d \in Docs, NoneFailed(ContentOf[d])', docs'[d].status \in Active,
                    Runnable(d)' \/ Started(d)'
             PROVE  LiveLeader(d)'
  BY DEF HoldersLead, Status
<1>a. NoneFailed(ContentOf[d])
  BY StillNoneFailed
<1>b. Steady /\ NoOutage /\ Faults \cap {"redis", "mongo", "crash"} = {}
  BY CalmMeans DEF NoOutage
<1>c. Status(d) \in Active
  BY <1>b, JustStored
<1>d. request'[d] \notin Stored
  BY DEF Ownership, RequestOwnership, Unstarted, Started
<1>1. request'[d] = "led"
  <2>1. CASE Runnable(d) \/ Started(d)
    <3>1. request[d] = "led"
      BY <1>a, <1>c, <2>1 DEF HoldersLead, LiveLeader
    <3> QED BY <1>b, <3>1, PlaceSteps DEF PlaceStep
  <2>2. CASE ~Runnable(d) /\ ~Started(d)
    <3>1. Status(d) = "queued"
      BY <1>c, <2>2 DEF Hands, Active
    <3>2. ~Started(d)'
      BY <2>2, AttemptsGrow DEF Runnable
    <3>3. ~Promoting(d) /\ ~Claimed(d)
      BY <1>a, <3>1, NotPromoting DEF Ownership, ExclusiveClaim, Claimed
    <3>4. request[d] = "enqueue"
      BY <1>b, <2>2, <3>2, <3>3, RunnableFrom
    <3> QED BY <1>b, <1>d, <3>4, PlaceSteps DEF PlaceStep, Stored
  <2> QED BY <2>1, <2>2
<1>2. Runnable(d)' \/ Claimed(d)'
  <2>1. CASE docs'[d].status = "processing"
    <3>1. ClaimsHeld'
      BY <1>b, NextClaimsHeld
    <3> QED BY <2>1, <3>1 DEF ClaimsHeld, Status
  <2>2. CASE docs'[d].status = "queued" /\ Status(d) = "queued"
    <3>1. Started(d)' => Started(d)
      BY <2>2, AttemptsGrow
    <3>2. ~Claimed(d)
      BY <2>2 DEF Ownership, ExclusiveClaim, Claimed
    <3>3. Started(d) => Runnable(d)
      BY <1>a, <1>c, <3>2 DEF HoldersLead, LiveLeader
    <3> QED BY <1>b, <2>2, <3>1, <3>3, RunnableHandedOn
  <2>3. CASE docs'[d].status = "queued" /\ Status(d) # "queued"
    BY <1>b, <1>1, <2>3, NewlyQueued
  <2> QED BY <2>1, <2>2, <2>3 DEF Active
<1> QED BY <1>1, <1>2 DEF LiveLeader

LEMMA StepKeepsOnce ==
  ASSUME Calm, TypeOK, TypeOK', Ownership, Ownership', OnceOnTheClock, [Next]_vars
  PROVE  OnceOnTheClock'
<1> USE DEF OnceOnTheClock
<1>1. ClaimsHeld' /\ Outcomes' /\ Hands'
  BY CalmMeans, NextClaimsHeld, NextOutcomes, NextHands
<1>2. Once'
  BY CalmMeans, NextOnce DEF OnceInvariants
<1>3. NothingAbandoned' /\ HoldersLead'
  BY NothingDropped, HoldersStillLead
<1> QED BY <1>1, <1>2, <1>3

LEMMA TickKeepsOnce ==
  ASSUME Buffer # 0, IsFiniteSet(Workers), Cardinality(Docs) <= Cardinality(Workers),
         TypeOK, Ownership, TimesInv, OnceOnTheClock, Tick
  PROVE  OnceOnTheClock'
<1> USE DEF OnceOnTheClock
<1>1. /\ UNCHANGED <<docs, cache, queue, request, at, job, popped, waiter, retries>>
      /\ \A d \in Docs : request[d] \notin InProgress
      /\ \A w \in Workers : at[w] \notin Success
      /\ \A u \in Users : slots'[u] \subseteq slots[u]
  BY DEF Tick, requestVars, workerVars, localVars, Rests, Success
<1>2. ClaimsHeld'
  BY <1>1 DEF ClaimsHeld, Claimed, Status
<1>3. Outcomes'
  BY <1>1 DEF Outcomes, Status
<1>4. Hands'
  BY <1>1 DEF Hands, Status, Started
<1>5. NothingAbandoned'
  BY <1>1 DEF NothingAbandoned, NoneFailed, Started, Accounted, Status
<1>6. HoldersLead'
  BY <1>1 DEF HoldersLead, LiveLeader, NoneFailed, Started, Status, Runnable, Taken, Backing, Claimed
<1>7. Once'
  <2> SUFFICES ASSUME NEW c \in Contents, NoneFailed(c)' PROVE OneLeaderOf(c)'
    BY DEF Once
  <2>1. NoneFailed(c) /\ OneLeaderOf(c)
    BY <1>1 DEF NoneFailed, Status, Once
  <2>2. \A d \in Docs : /\ Holder(d)' => Holder(d)
                        /\ Started(d)' => Started(d)
                        /\ ToStart(d)' => ToStart(d)
    BY <1>1 DEF Holder, Started, ToStart, Status, Runnable, Taken, Backing
  <2>3. ASSUME NEW d \in Docs, ContentOf[d] = c, Holder(d)' PROVE lock'[c]
    <3>1. lock[c]
      BY <2>1, <2>2, <2>3 DEF OneLeaderOf
    <3>2. Status(d) \in Active /\ (Runnable(d) \/ Started(d))
      BY <1>1, <2>2, <2>3 DEF Holder, InProgress, Stored, Settling
    <3>3. LiveLeader(d)
      BY <2>1, <2>3, <3>2 DEF HoldersLead
    <3> QED BY <2>3, <3>1, <3>3, TickSparesLeaders
  <2>4. ASSUME NEW d \in Docs, ContentOf[d] = c, Started(d)' PROVE Accounted(d)'
    BY <1>5, <2>4 DEF NothingAbandoned
  <2> QED BY <2>1, <2>2, <2>3, <2>4 DEF OneLeaderOf
<1> QED BY <1>2, <1>3, <1>4, <1>5, <1>6, <1>7

LEMMA TimedInitOnce == TimedInit => OnceOnTheClock
<1> SUFFICES ASSUME TimedInit PROVE OnceOnTheClock
  OBVIOUS
<1>1. Init
  BY DEF TimedInit
<1>2. \A d \in Docs : docs[d].attempts = 0 /\ Status(d) = "absent"
  BY <1>1 DEF Init, RepositoryInit, Status, NoDocument
<1>3. ClaimsHeld /\ NothingAbandoned /\ HoldersLead
  BY <1>2 DEF ClaimsHeld, NothingAbandoned, HoldersLead, Started, Active
<1> QED BY <1>1, <1>3, InitOutcomes, InitHandsOnce DEF OnceOnTheClock

(* On the clock as well, for any number of identical submissions, any sleeps and any *)
(* number of retries: when only processing may fail and there is a worker for every  *)
(* document, the lock lives long enough for a text to be processed for a second      *)
(* document only after the job of one failed for good.                               *)
THEOREM ProcessedOnceInTime ==
  ASSUME Calm, Buffer # 0, IsFiniteSet(Workers), Cardinality(Docs) <= Cardinality(Workers)
  PROVE  TimedSpec => []NoRedundantProcessing
<1>1. /\ TypeOK /\ TypeOK' /\ Ownership /\ Ownership' /\ TimesInv /\ OnceOnTheClock
      /\ [TimedNext]_timedVars
      => OnceOnTheClock'
  <2> SUFFICES ASSUME TypeOK, TypeOK', Ownership, Ownership', TimesInv, OnceOnTheClock,
                      [TimedNext]_timedVars
               PROVE  OnceOnTheClock'
    OBVIOUS
  <2>1. ASSUME NEW w \in Workers PROVE ~Kill(w)
    BY DEF TimesInv, Staying, Kill
  <2> QED BY <2>1, StepsOnTheClock, StepKeepsOnce, TickKeepsOnce
<1>2. OnceOnTheClock => NoRedundantProcessing
  BY OnceMeansOne DEF OnceOnTheClock
<1> QED BY <1>1, <1>2, TimedInitOnce, TimedOwnership, KeysOutlastLeaders, PTL DEF TimedSpec
-----------------------------------------------------------------------------
(* What keeps others out runs out, whatever fails. *)

KeysRun ==
  /\ slotTTL \in [Users -> 0..WorstCaseJobLifetime]
  /\ lockTTL \in [Contents -> 0..WorstCaseJobLifetime]
  /\ \A u \in Users : slots[u] # {} => slotTTL[u] # 0
  /\ \A c \in Contents : lock[c] => lockTTL[c] # 0

LEMMA TimersKeepKeys ==
  ASSUME WorstCaseJobLifetime # 0, KeysRun, Timers
  PROVE  KeysRun'
<1>a. WorstCaseJobLifetime \in Nat
  BY Sums
<1>1. slotTTL' = [u \in Users |->
        Timer(slots'[u] # {}, slots'[u] \ slots[u] # {}, WorstCaseJobLifetime, slotTTL[u])]
  BY DEF Timers, SlotTimers
<1>2. lockTTL' = [c \in Contents |->
        Timer(lock'[c], ~lock[c], WorstCaseJobLifetime, lockTTL[c])]
  BY DEF Timers, LockTimers
<1>3. ASSUME NEW u \in Users
      PROVE  slotTTL'[u] \in 0..WorstCaseJobLifetime /\ (slots'[u] # {} => slotTTL'[u] # 0)
  BY <1>a, <1>1 DEF KeysRun, Timer
<1>4. ASSUME NEW c \in Contents
      PROVE  lockTTL'[c] \in 0..WorstCaseJobLifetime /\ (lock'[c] => lockTTL'[c] # 0)
  BY <1>a, <1>2 DEF KeysRun, Timer
<1> QED BY <1>1, <1>2, <1>3, <1>4 DEF KeysRun

LEMMA TickLessens ==
  ASSUME KeysRun, Tick
  PROVE  /\ KeysRun'
         /\ \A u \in Users : slots'[u] # {} => slotTTL'[u] < slotTTL[u]
         /\ \A c \in Contents : lock'[c] => lockTTL'[c] < lockTTL[c]
<1>a. WorstCaseJobLifetime \in Nat
  BY Sums
<1>1. /\ slotTTL' = [u \in Users |-> IF slotTTL[u] = 0 THEN 0 ELSE slotTTL[u] - 1]
      /\ lockTTL' = [c \in Contents |-> IF lockTTL[c] = 0 THEN 0 ELSE lockTTL[c] - 1]
  BY DEF Tick, Less, KeysRun
<1>2. /\ \A u \in Users : slots'[u] # {} => slots[u] # {} /\ slotTTL[u] # 1
      /\ \A c \in Contents : lock'[c] => lock[c] /\ lockTTL[c] # 1
  BY DEF Tick
<1> QED BY <1>a, <1>1, <1>2 DEF KeysRun

(* The script admits nobody at the limit, and SET NX sets no lock that is held. *)
LEMMA NothingRenewed ==
  ASSUME TypeOK, KeysRun, Timers, [Next]_vars \/ \E w \in Workers : Kill(w)
  PROVE  /\ \A u \in Users : AtLimit(u) /\ slots'[u] # {} => slotTTL'[u] = slotTTL[u]
         /\ \A c \in Contents : lock[c] /\ lock'[c] => lockTTL'[c] = lockTTL[c]
<1>1. ASSUME NEW u \in Users, AtLimit(u), slots'[u] # {} PROVE slotTTL'[u] = slotTTL[u]
  <2>1. CASE \E w \in Workers : Kill(w)
    <3>1. slots' = slots
      BY <2>1 DEF Kill, Dies
    <3> QED BY <1>1, <3>1 DEF Timers, SlotTimers, Timer
  <2>2. CASE [Next]_vars
    <3>1. Cardinality(slots[u]) \in Nat /\ MaxActive \in Nat
      BY SlotsFinite, MaxActiveAssumption
    <3>2. slots'[u] \ slots[u] = {}
      BY <1>1, <2>2, <3>1, SlotsGrow DEF AtLimit
    <3> QED BY <1>1, <3>2 DEF Timers, SlotTimers, Timer
  <2> QED BY <2>1, <2>2
<1>2. ASSUME NEW c \in Contents, lock[c], lock'[c] PROVE lockTTL'[c] = lockTTL[c]
  BY <1>2 DEF Timers, LockTimers, Timer
<1> QED BY <1>1, <1>2

LEMMA KeysAlwaysRun ==
  ASSUME WorstCaseJobLifetime # 0
  PROVE  TimedSpec => []KeysRun
<1>1. TimedInit => KeysRun
  BY Sums DEF TimedInit, Init, RateLimiterInit, CacheInit, KeysRun
<1>2. KeysRun /\ [TimedNext]_timedVars => KeysRun'
  <2>1. UNCHANGED timedVars /\ KeysRun => KeysRun'
    BY DEF timedVars, vars, storeVars, cacheVars, timers, ttlVars, KeysRun
  <2>2. ASSUME NEW w \in Workers, Kill(w) PROVE Timers
    BY <2>2 DEF Kill
  <2> QED BY <2>1, <2>2, StepsOnTheClock, TimersKeepKeys, TickLessens
<1> QED BY <1>1, <1>2, PTL DEF TimedSpec

(* Under every fault the clock has, for any limit and any settings that make a TTL   *)
(* at all: a user at the limit and a text with a held lock are barred for            *)
(* WorstCaseJobLifetime seconds at most, since neither a refused submission nor a    *)
(* lost election renews the key, and nothing but time is needed to be rid of it.     *)
THEOREM NobodyIsBarredForLong ==
  ASSUME WorstCaseJobLifetime # 0
  PROVE  TimedSpec => BarsRunOut
<1>1. ASSUME TypeOK, KeysRun, [TimedNext]_timedVars, ~UNCHANGED timedVars
      PROVE  /\ \A u \in Users : AtLimit(u) /\ AtLimit(u)' => RunsOut(slotTTL[u], slotTTL'[u])
             /\ \A c \in Contents : lock[c] /\ lock'[c] => RunsOut(lockTTL[c], lockTTL'[c])
  <2>a. /\ WorstCaseJobLifetime \in Nat
        /\ \A u \in Users : AtLimit(u) => slotTTL[u] \in 1..WorstCaseJobLifetime
        /\ \A u \in Users : AtLimit(u)' => slots'[u] # {}
        /\ \A c \in Contents : lock[c] => lockTTL[c] \in 1..WorstCaseJobLifetime
    BY <1>1, Sums DEF KeysRun, AtLimit
  <2>1. CASE Tick
    BY <1>1, <2>a, <2>1, TickLessens DEF RunsOut, KeysRun
  <2>2. CASE ~Tick
    <3>1. Timers /\ ([Next]_vars \/ \E w \in Workers : Kill(w))
      BY <1>1, <2>2, StepsOnTheClock DEF Kill
    <3> QED BY <1>1, <2>a, <2>2, <3>1, NothingRenewed DEF RunsOut
  <2> QED BY <2>1, <2>2
<1>2. TypeOK /\ KeysRun /\ [TimedNext]_timedVars =>
        [/\ \A u \in Users : AtLimit(u) /\ AtLimit(u)' => RunsOut(slotTTL[u], slotTTL'[u])
         /\ \A c \in Contents : lock[c] /\ lock'[c] => RunsOut(lockTTL[c], lockTTL'[c])]_timedVars
  BY <1>1
<1> QED BY <1>2, TimedOwnership, KeysAlwaysRun, PTL DEF TimedSpec, BarsRunOut
=============================================================================
