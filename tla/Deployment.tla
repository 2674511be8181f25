----------------------------- MODULE Deployment -----------------------------
(***************************************************************************)
(* The processes around the pipeline: the API and a worker start, create   *)
(* the indexes, serve or work, and end; Mongo and Redis come and go; the   *)
(* container runtime restarts what exited and polls GET /health.           *)
(***************************************************************************)
EXTENDS Naturals, FiniteSets

CONSTANT MaxKills   \* bound: how often the processes are stopped or killed
ASSUME DeploymentAssumption == MaxKills \in Nat

Dependencies == {"mongodb", "redis"}
Processes == {"api", "worker"}
Indexes == {"user_status_idx", "content_hash_idx"}

VARIABLES up,        \* the dependencies that answer
          phase,     \* of each process: "down", "starting" or "running"
          indexes,   \* what the collection is indexed by; survives restarts
          probe,     \* where the probe under way stands: the next dependency to ping
          healthy,   \* the pings it has got an answer from
          seen,      \* the dependencies that were up, and those that were down,
                     \* at some time since it began
          answer,    \* the last answer: a set of dependencies, all of them "ok"
          kills

probeVars == <<probe, healthy, seen>>
vars == <<up, phase, indexes, probeVars, answer, kills>>

Init ==
  /\ up \in SUBSET Dependencies
  /\ phase = [p \in Processes |-> "down"]
  /\ indexes = {}
  /\ probe = "none" /\ healthy = {} /\ seen = [was |-> {}, wasNot |-> {}]
  /\ answer = {} /\ kills = 0

Enter(p, next) == phase' = [phase EXCEPT ![p] = next]

(* A probe ends without an answer when its process does. *)
EndProbe == probe' = "none" /\ healthy' = {} /\ seen' = [was |-> {}, wasNot |-> {}]

Exit(p) ==
  /\ Enter(p, "down")
  /\ IF p = "api" THEN EndProbe ELSE UNCHANGED probeVars

Glimpse == [was |-> seen.was \cup up', wasNot |-> seen.wasNot \cup (Dependencies \ up')]

Change(d) ==
  /\ up' = IF d \in up THEN up \ {d} ELSE up \cup {d}
  /\ seen' = IF probe = "none" THEN seen ELSE Glimpse
  /\ UNCHANGED <<phase, indexes, probe, healthy, answer, kills>>

(* restart: unless-stopped.  Creating the clients connects to nothing. *)
Start(p) ==
  /\ phase[p] = "down"
  /\ Enter(p, "starting")
  /\ UNCHANGED <<up, indexes, probeVars, answer, kills>>

(* Mutant: the lifespan yields without awaiting create_indexes. *)
SkipIndexes(p) ==
  /\ phase[p] = "starting"
  /\ Enter(p, "running")
  /\ UNCHANGED <<up, indexes, probeVars, answer, kills>>

(* Mutant: startup pings Redis too and gives up without it. *)
DemandRedis(p) ==
  /\ phase[p] = "starting"
  /\ \/ Dependencies \subseteq up /\ indexes' = Indexes /\ Enter(p, "running")
        /\ UNCHANGED probeVars
     \/ ~(Dependencies \subseteq up) /\ Exit(p) /\ UNCHANGED indexes
  /\ UNCHANGED <<up, answer, kills>>

(* create_indexes, one await per index; what it raises ends the process.  *)
(* An index that exists already is created again without effect.          *)
CreateIndexes(p) ==
  /\ phase[p] = "starting"
  /\ \/ /\ "mongodb" \in up
        /\ \/ "user_status_idx" \notin indexes
              /\ indexes' = indexes \cup {"user_status_idx"} /\ UNCHANGED phase
           \/ "user_status_idx" \in indexes
              /\ indexes' = Indexes /\ Enter(p, "running")
        /\ UNCHANGED probeVars
     \/ "mongodb" \notin up /\ Exit(p) /\ UNCHANGED indexes
  /\ UNCHANGED <<up, answer, kills>>

(* BLPOP raises out of run(), and main closes the clients and ends.  (A worker *)
(* between jobs; what becomes of a job is in SummarizerWorker.)                *)
PollRaises ==
  /\ phase["worker"] = "running"
  /\ "redis" \notin up
  /\ Exit("worker")
  /\ UNCHANGED <<up, indexes, answer, kills>>

(* A process is stopped, or killed: the lifespan's or main's finally is the end of it. *)
Stop(p) ==
  /\ phase[p] # "down" /\ kills < MaxKills
  /\ kills' = kills + 1
  /\ Exit(p)
  /\ UNCHANGED <<up, indexes, answer>>

BeginProbe ==
  /\ phase["api"] = "running" /\ probe = "none"
  /\ probe' = "mongodb" /\ healthy' = {}
  /\ seen' = [was |-> up, wasNot |-> Dependencies \ up]
  /\ UNCHANGED <<up, phase, indexes, answer, kills>>

(* ping answers and never raises. *)
Ping(d) == healthy' = IF d \in up THEN healthy \cup {d} ELSE healthy

PingMongo ==
  /\ probe = "mongodb"
  /\ Ping("mongodb")
  /\ probe' = "redis"
  /\ UNCHANGED <<up, phase, indexes, seen, answer, kills>>

(* Mutant: the second ping is skipped when the first one failed. *)
PingRedisIfMongo ==
  /\ probe = "redis"
  /\ IF healthy = {} THEN UNCHANGED healthy ELSE Ping("redis")
  /\ probe' = "answer"
  /\ UNCHANGED <<up, phase, indexes, seen, answer, kills>>

(* Mutant: a ping raises when the dependency does not answer. *)
PingRedisRaising ==
  /\ probe = "redis"
  /\ \/ "redis" \in up /\ Ping("redis") /\ probe' = "answer" /\ UNCHANGED seen
     \/ "redis" \notin up /\ EndProbe
  /\ UNCHANGED <<up, phase, indexes, answer, kills>>

PingRedis ==
  /\ probe = "redis"
  /\ Ping("redis")
  /\ probe' = "answer"
  /\ UNCHANGED <<up, phase, indexes, seen, answer, kills>>

(* 200 ok when answer' is all of Dependencies, 503 degraded otherwise. *)
Answer ==
  /\ probe = "answer"
  /\ answer' = healthy
  /\ EndProbe
  /\ UNCHANGED <<up, phase, indexes, kills>>

HealthCheck == BeginProbe \/ PingMongo \/ PingRedis \/ Answer

Next ==
  \/ \E d \in Dependencies : Change(d)
  \/ \E p \in Processes : Start(p) \/ CreateIndexes(p) \/ Stop(p)
  \/ PollRaises
  \/ HealthCheck

Spec == Init /\ [][Next]_vars

(* The runtime restarts what is down and keeps probing; what runs goes on. *)
FairSpec ==
  /\ Spec
  /\ \A p \in Processes : WF_vars(Start(p)) /\ WF_vars(CreateIndexes(p))
  /\ WF_vars(PollRaises)
  /\ WF_vars(HealthCheck)
-----------------------------------------------------------------------------
(* A request or a job never meets the collection without its indexes, whichever *)
(* process came up first and however often one died half way through.           *)
IndexedBeforeUse ==
  (\E p \in Processes : phase[p] = "running") => indexes = Indexes

(* A probe answers for its own time: every dependency it calls ok answered since *)
(* it began, and every one it calls unreachable failed to.                       *)
ProbeIsHonest ==
  [][Answer => answer' \subseteq seen.was /\ Dependencies \ answer' \subseteq seen.wasNot]_vars

(* However often the dependencies went away: with Mongo back for good the API *)
(* serves for good, Redis or no Redis, and with both the worker works.        *)
ProcessesComeBack ==
  /\ <>[]("mongodb" \in up) => <>[](phase["api"] = "running")
  /\ <>[](up = Dependencies) => <>[](phase["worker"] = "running")

(* The probe settles on the truth: once the dependencies stay as they are, with  *)
(* Mongo up, it ends up naming exactly those that are up.                        *)
ProbeSettles ==
  \A S \in SUBSET Dependencies :
    "mongodb" \in S /\ <>[](up = S) => <>[](answer = S)
=============================================================================
