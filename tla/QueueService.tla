---------------------------- MODULE QueueService ----------------------------
(***************************************************************************)
(* The job queue: a Redis list, RPUSH at the tail, BLPOP at the head.      *)
(* Nothing here catches RedisError: the caller gets it.                    *)
(***************************************************************************)
EXTENDS Environment, Sequences

VARIABLE queue

QueueInit == queue = <<>>

Enqueue(d) == queue' = Append(queue, d)

EnqueueRaises(d) == RedisRaises /\ (Enqueue(d) \/ UNCHANGED queue)

Dequeue(d) ==
  /\ queue # <<>>
  /\ d = Head(queue)
  /\ queue' = Tail(queue)

(* The reply of a BLPOP may be lost with the job in it. *)
DequeueRaises ==
  /\ RedisRaises
  /\ UNCHANGED queue \/ \E d \in Docs : Dequeue(d)
=============================================================================
