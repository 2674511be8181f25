---------------------------- MODULE Environment ----------------------------
(***************************************************************************)
(* What every module of the service shares: the submissions a run makes,   *)
(* and the ways the world around the code may misbehave.  A run enables a  *)
(* set of faults; the theorems hold for every set.                         *)
(***************************************************************************)
EXTENDS Naturals, FiniteSets

CONSTANTS Docs,        \* one id per POST /documents request
          Users,
          Contents,    \* content hashes: equal texts have equal hashes
          UserOf,      \* who submits d
          ContentOf,   \* the content hash of what d submits
          Null,        \* Python's None
          Faults       \* the fault kinds a run enables

FaultKinds ==
  { "failure",     \* processing may fail: worker_failure_rate > 0
    "evict",       \* a cached summary may reach cache_ttl_seconds
    "ttl",         \* a lock, waiter list or slot set may reach its safety-net TTL
    "redis",       \* a Redis call may raise RedisError
    "mongo",       \* a Mongo call may raise
    "crash",       \* the API or a worker process may be killed
    "stop",        \* a worker may be sent SIGTERM
    "duplicate" }  \* a job already handed out may be delivered again

ASSUME EnvironmentAssumption ==
  /\ IsFiniteSet(Docs)
  /\ UserOf \in [Docs -> Users]
  /\ ContentOf \in [Docs -> Contents]
  /\ Null \notin Docs \cup Contents
  /\ Faults \subseteq FaultKinds

(* A Redis call raises RedisError.  The command may still have been executed: *)
(* each service says what its caller sees, and that the effect is optional.   *)
RedisRaises == "redis" \in Faults

(* A repository call raises, with or without its effect on the collection. *)
MongoRaises(Op, unchanged) == "mongo" \in Faults /\ (Op \/ unchanged)
=============================================================================
