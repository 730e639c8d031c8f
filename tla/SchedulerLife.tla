---------------------------- MODULE SchedulerLife ----------------------------
(***************************************************************************)
(* The scheduler implements RequestLife.                                   *)
(***************************************************************************)
EXTENDS Scheduler

ChunkCount(r) == Cardinality({i \in 0 .. Uncached(r) : Pending(r, i)})

(* A completed request has all its chunks behind it, although              *)
(* next_chunk_index stays at the last one.                                 *)
LifeOf(r) ==
  [phase   |-> IF Live(r) THEN "live" ELSE rs[r].lifecycle,
   done    |-> IF rs[r].lifecycle = "completed" THEN ChunkCount(r) ELSE rs[r].chunk,
   retried |-> rs[r].retries,
   marked  |-> Live(r) /\ rs[r].cancelPending]

Abstract == INSTANCE RequestLife WITH
  Chunks  <- [r \in Request |-> ChunkCount(r)],
  Retries <- [r \in Request |-> Descriptor[r].maxRetries],
  life    <- [r \in Request |-> LifeOf(r)]

(* Groups, losses, epochs, sweeps and reports that are late, repeated or   *)
(* out of order never show in the life of a request: it moves through its  *)
(* chunks one by one, goes back only by spending a retry, and ends once,   *)
(* completed only with every chunk applied and no cancellation pending.    *)
ImplementsRequestLife == Abstract!Spec
=============================================================================
