---------------------------- MODULE RateLimiter ----------------------------
(***************************************************************************)
(* The per-user set of active document ids.  The acquire script tests and  *)
(* adds in one Redis step.  The service fails open: on RedisError acquire  *)
(* answers yes and release does nothing.                                   *)
(***************************************************************************)
EXTENDS Environment

CONSTANT MaxActive   \* rate_limit_max_active_jobs
ASSUME MaxActiveAssumption == MaxActive \in Nat

VARIABLE slots

RateLimiterInit == slots = [u \in Users |-> {}]

(* Mutant: the script admits one more than the limit. *)
AdmitOneMore(u, d) ==
  /\ Cardinality(slots[u]) <= MaxActive
  /\ slots' = [slots EXCEPT ![u] = @ \cup {d}]

Admit(u, d) ==
  /\ Cardinality(slots[u]) < MaxActive
  /\ slots' = [slots EXCEPT ![u] = @ \cup {d}]

Deny(u) ==
  /\ Cardinality(slots[u]) >= MaxActive
  /\ UNCHANGED slots

(* Acquire answers yes without a word from Redis; its script may have run. *)
FailOpen(u, d) ==
  /\ RedisRaises
  /\ Admit(u, d) \/ UNCHANGED slots

TryAcquire(u, d, granted) ==
  \/ granted /\ (Admit(u, d) \/ FailOpen(u, d))
  \/ ~granted /\ Deny(u)

Release(u, d) ==
  \/ slots' = [slots EXCEPT ![u] = @ \ {d}]
  \/ RedisRaises /\ UNCHANGED slots

ExpireSlots(u) ==
  /\ "ttl" \in Faults
  /\ slots[u] # {}
  /\ slots' = [slots EXCEPT ![u] = {}]
=============================================================================
