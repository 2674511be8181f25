-------------------------- MODULE DeploymentProofs --------------------------
(***************************************************************************)
(* What startup and the health probe promise, however often the processes  *)
(* are stopped or killed: the bound MaxKills is a parameter here.          *)
(***************************************************************************)
EXTENDS Deployment, TLAPS

Phases == {"down", "starting", "running"}

(* Startup: indexes are only ever added. *)
StartupInv ==
  /\ phase \in [Processes -> Phases]
  /\ indexes \in SUBSET Indexes
  /\ IndexedBeforeUse

(* The probe: what has been pinged so far, and how, was seen so since it began. *)
SeenSinceBegin ==
  probe # "none" => up \subseteq seen.was /\ Dependencies \ up \subseteq seen.wasNot

Unreachable ==
  /\ probe = "mongodb" => healthy = {}
  /\ probe = "redis" => {"mongodb"} \ healthy \subseteq seen.wasNot
  /\ probe = "answer" => Dependencies \ healthy \subseteq seen.wasNot

ProbeInv ==
  /\ up \in SUBSET Dependencies
  /\ probe \in {"none", "mongodb", "redis", "answer"}
  /\ healthy \in SUBSET Dependencies
  /\ seen \in [was : SUBSET Dependencies, wasNot : SUBSET Dependencies]
  /\ healthy \subseteq seen.was
  /\ SeenSinceBegin
  /\ Unreachable
-----------------------------------------------------------------------------
LEMMA StartupInit == Init => StartupInv
BY DEF Init, StartupInv, IndexedBeforeUse, Phases

LEMMA StartupStep == StartupInv /\ [Next]_vars => StartupInv'
<1> SUFFICES ASSUME StartupInv, [Next]_vars PROVE StartupInv'
  OBVIOUS
<1> USE DEF StartupInv, IndexedBeforeUse, Phases
(* Ending or entering another phase than "running" asks nothing of the indexes. *)
<1>1. ASSUME NEW p \in Processes, Enter(p, "down") \/ Enter(p, "starting"),
             indexes' = indexes
      PROVE  StartupInv'
  BY <1>1 DEF Enter
<1>2. ASSUME NEW d \in Dependencies, Change(d) PROVE StartupInv'
  BY <1>2 DEF Change
<1>3. ASSUME NEW p \in Processes, Start(p) PROVE StartupInv'
  BY <1>3, <1>1 DEF Start
<1>4. ASSUME NEW p \in Processes, CreateIndexes(p) PROVE StartupInv'
  <2>1. CASE "mongodb" \notin up
    BY <1>4, <2>1, <1>1 DEF CreateIndexes, Exit
  <2>2. CASE "user_status_idx" \notin indexes /\ "mongodb" \in up
    BY <1>4, <2>2 DEF CreateIndexes, Indexes
  <2>3. CASE "user_status_idx" \in indexes /\ "mongodb" \in up
    BY <1>4, <2>3 DEF CreateIndexes, Enter
  <2> QED BY <2>1, <2>2, <2>3
<1>5. ASSUME NEW p \in Processes, Stop(p) PROVE StartupInv'
  BY <1>5, <1>1 DEF Stop, Exit
<1>6. CASE PollRaises
  <2>1. "worker" \in Processes
    BY DEF Processes
  <2> QED BY <1>6, <2>1, <1>1 DEF PollRaises, Exit
<1>7. CASE HealthCheck
  BY <1>7 DEF HealthCheck, BeginProbe, PingMongo, PingRedis, Answer
<1>8. CASE UNCHANGED vars
  BY <1>8 DEF vars
<1> QED BY <1>2, <1>3, <1>4, <1>5, <1>6, <1>7, <1>8 DEF Next

(* A process that serves or works has created all the indexes, or found them:  *)
(* create_indexes is awaited before the first request and the first job, and   *)
(* no restart drops an index.                                                  *)
THEOREM RunningIsIndexed == Spec => []IndexedBeforeUse
<1>1. StartupInv => IndexedBeforeUse
  BY DEF StartupInv
<1> QED BY <1>1, StartupInit, StartupStep, PTL DEF Spec
-----------------------------------------------------------------------------
LEMMA ProbeInit == Init => ProbeInv
BY DEF Init, ProbeInv, SeenSinceBegin, Unreachable

(* A probe that ends leaves nothing to be honest about. *)
LEMMA EndedProbe ==
  ASSUME ProbeInv, EndProbe, up' = up
  PROVE  ProbeInv'
BY DEF ProbeInv, SeenSinceBegin, Unreachable, EndProbe

LEMMA ProbeUntouched ==
  ASSUME ProbeInv, UNCHANGED <<up, probeVars>>
  PROVE  ProbeInv'
BY DEF ProbeInv, SeenSinceBegin, Unreachable, probeVars

LEMMA ExitKeepsProbe ==
  ASSUME ProbeInv, NEW p, Exit(p), up' = up
  PROVE  ProbeInv'
BY EndedProbe, ProbeUntouched DEF Exit

LEMMA ProbeStep == ProbeInv /\ [Next]_vars => ProbeInv'
<1> SUFFICES ASSUME ProbeInv, [Next]_vars PROVE ProbeInv'
  OBVIOUS
<1>1. ASSUME NEW d \in Dependencies, Change(d) PROVE ProbeInv'
  <2>1. up' \in SUBSET Dependencies /\ probe' = probe /\ healthy' = healthy
    BY <1>1 DEF Change, ProbeInv
  <2>2. CASE probe = "none"
    BY <1>1, <2>1, <2>2 DEF Change, ProbeInv, SeenSinceBegin, Unreachable
  <2>3. CASE probe # "none"
    <3>1. seen' = Glimpse
      BY <1>1, <2>3 DEF Change
    <3>2. /\ seen' \in [was : SUBSET Dependencies, wasNot : SUBSET Dependencies]
          /\ seen'.was = seen.was \cup up'
          /\ seen'.wasNot = seen.wasNot \cup (Dependencies \ up')
      BY <2>1, <3>1 DEF Glimpse, ProbeInv
    <3> QED BY <2>1, <3>2 DEF ProbeInv, SeenSinceBegin, Unreachable
  <2> QED BY <2>2, <2>3
<1>2. ASSUME NEW p \in Processes, Start(p) PROVE ProbeInv'
  BY <1>2, ProbeUntouched DEF Start
<1>3. ASSUME NEW p \in Processes, CreateIndexes(p) PROVE ProbeInv'
  BY <1>3, ProbeUntouched, ExitKeepsProbe DEF CreateIndexes
<1>4. ASSUME NEW p \in Processes, Stop(p) PROVE ProbeInv'
  BY <1>4, ExitKeepsProbe DEF Stop
<1>5. CASE PollRaises
  BY <1>5, ExitKeepsProbe DEF PollRaises
<1>6. CASE BeginProbe
  BY <1>6 DEF BeginProbe, ProbeInv, SeenSinceBegin, Unreachable
<1>7. CASE PingMongo
  BY <1>7 DEF PingMongo, Ping, ProbeInv, SeenSinceBegin, Unreachable, Dependencies
<1>8. CASE PingRedis
  BY <1>8 DEF PingRedis, Ping, ProbeInv, SeenSinceBegin, Unreachable, Dependencies
<1>9. CASE Answer
  BY <1>9, EndedProbe DEF Answer
<1>10. CASE UNCHANGED vars
  BY <1>10, ProbeUntouched DEF vars
<1> QED BY <1>1, <1>2, <1>3, <1>4, <1>5, <1>6, <1>7, <1>8, <1>9, <1>10 DEF Next, HealthCheck

(* Every answer of GET /health is true of its own time: what it calls ok       *)
(* answered at some moment of the probe, and what it calls unreachable failed  *)
(* to at some moment of it, however the dependencies came and went meanwhile.  *)
THEOREM HealthIsHonest == Spec => ProbeIsHonest
<1>1. ProbeInv /\ [Next]_vars =>
        [Answer => answer' \subseteq seen.was /\ Dependencies \ answer' \subseteq seen.wasNot]_vars
  BY DEF ProbeInv, Unreachable, Answer
<1> QED BY <1>1, ProbeInit, ProbeStep, PTL DEF Spec, ProbeIsHonest
=============================================================================
