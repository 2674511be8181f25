---------------------------- MODULE CacheService ----------------------------
(***************************************************************************)
(* The summary cache and, per content hash, the processing lock and the    *)
(* list of waiters.  The lock's value names nobody (the code stores "1"),  *)
(* so whoever deletes it deletes it for everyone.                          *)
(***************************************************************************)
EXTENDS Environment, Sequences

VARIABLES cache, lock, waiters

cacheVars == <<cache, lock, waiters>>

CacheInit ==
  /\ cache = [c \in Contents |-> Null]
  /\ lock = [c \in Contents |-> FALSE]
  /\ waiters = [c \in Contents |-> <<>>]

(* Mutant: the cache key ignores the content hash. *)
CacheGetAnyKey(c, summary) ==
  /\ \E k \in Contents : summary = cache[k]
  /\ UNCHANGED cacheVars

(* What get may return: the stored summary, or a miss when Redis is out. *)
CacheGet(c, summary) ==
  /\ summary = cache[c] \/ (RedisRaises /\ summary = Null)
  /\ UNCHANGED cacheVars

CacheSet(c, summary) ==
  /\ cache' = [cache EXCEPT ![c] = summary] \/ (RedisRaises /\ UNCHANGED cache)
  /\ UNCHANGED <<lock, waiters>>

(* SET NX.  On RedisError the answer is no, and the key may be set all the same. *)
TryAcquireProcessingLock(c, won) ==
  /\ \/ won /\ ~lock[c] /\ lock' = [lock EXCEPT ![c] = TRUE]
     \/ ~won /\ lock[c] /\ UNCHANGED lock
     \/ ~won /\ RedisRaises /\ lock' \in {lock, [lock EXCEPT ![c] = TRUE]}
  /\ UNCHANGED <<cache, waiters>>

ReleaseProcessingLock(c) ==
  /\ lock' = [lock EXCEPT ![c] = FALSE] \/ (RedisRaises /\ UNCHANGED lock)
  /\ UNCHANGED <<cache, waiters>>

RegisterWaiter(c, d) ==
  /\ \/ waiters' = [waiters EXCEPT ![c] = Append(@, d)]
     \/ RedisRaises /\ UNCHANGED waiters
  /\ UNCHANGED <<cache, lock>>

(* Mutant: the list is read and not deleted. *)
ReadWaiters(c, popped) ==
  /\ popped = waiters[c]
  /\ UNCHANGED cacheVars

(* LRANGE and DEL in one transaction.  On RedisError the caller gets no ids, *)
(* and the list may be gone.                                                 *)
PopWaiters(c, popped) ==
  /\ \/ popped = waiters[c] /\ waiters' = [waiters EXCEPT ![c] = <<>>]
     \/ /\ RedisRaises
        /\ popped = <<>>
        /\ waiters' \in {waiters, [waiters EXCEPT ![c] = <<>>]}
  /\ UNCHANGED <<cache, lock>>

ExpireCache(c) ==
  /\ "evict" \in Faults
  /\ cache[c] # Null
  /\ cache' = [cache EXCEPT ![c] = Null]
  /\ UNCHANGED <<lock, waiters>>

ExpireLock(c) ==
  /\ "ttl" \in Faults
  /\ lock[c]
  /\ lock' = [lock EXCEPT ![c] = FALSE]
  /\ UNCHANGED <<cache, waiters>>

ExpireWaiters(c) ==
  /\ "ttl" \in Faults
  /\ waiters[c] # <<>>
  /\ waiters' = [waiters EXCEPT ![c] = <<>>]
  /\ UNCHANGED <<cache, lock>>
=============================================================================
