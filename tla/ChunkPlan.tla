------------------------------ MODULE ChunkPlan ------------------------------
(***************************************************************************)
(* What ChunkPlanner computes for one request, as pure operators           *)
(* (src/core/chunking.cpp).  A request is any record q with the fields     *)
(* prompt, cached, compute and memory: the prompt length in tokens, the    *)
(* length of the reusable prefix, and the two estimates.                   *)
(*                                                                         *)
(* The planner divides in long double and truncates.  Here the quotient is *)
(* the exact one; module ChunkPlanner lets it be any value the floating    *)
(* point computation can produce.                                          *)
(***************************************************************************)
EXTENDS Integers

CONSTANTS MaxTokensPerChunk,  \* SchedulerConfig::max_tokens_per_chunk
          MaxWorkPerChunk,    \* SchedulerConfig::max_work_per_chunk
          MaxMemoryPerChunk   \* SchedulerConfig::max_memory_per_chunk

ASSUME ChunkConfigAssumption ==
  /\ MaxTokensPerChunk \in Nat
  /\ MaxWorkPerChunk \in Nat
  /\ MaxMemoryPerChunk \in Nat

Lower(a, b) == IF a < b THEN a ELSE b

(* The uncached work of a request: PrefillRequest::remaining_prefill_tokens. *)
Remaining(q) == IF q.prompt <= q.cached THEN 0 ELSE q.prompt - q.cached

(* The tokens whose proportional share of an estimate stays within a cap.  *)
ShareLimit(cap, estimate, remaining) == (cap * remaining) \div estimate

(* Mutants: the memory limit is left out, or a chunk may come out empty.   *)
ChunkSizeIgnoringMemory(q, workLimit, memoryLimit) ==
  LET rem  == Remaining(q)
      base == IF q.compute > 0 THEN Lower(MaxTokensPerChunk, workLimit) ELSE MaxTokensPerChunk
  IN  IF rem = 0 THEN 0 ELSE Lower(IF base = 0 THEN 1 ELSE base, rem)

ChunkSizeMaybeZero(q, workLimit, memoryLimit) ==
  LET byWork == IF q.compute > 0 THEN Lower(MaxTokensPerChunk, workLimit) ELSE MaxTokensPerChunk
  IN  Lower(IF q.memory > 0 THEN Lower(byWork, memoryLimit) ELSE byWork, Remaining(q))

(* The chunk size once the two share limits are known.  Each limit applies *)
(* only when the request carries that estimate, and a chunk always has at  *)
(* least one token.                                                        *)
ChunkSize(q, workLimit, memoryLimit) ==
  LET rem      == Remaining(q)
      base     == IF MaxTokensPerChunk = 0 THEN 1 ELSE MaxTokensPerChunk
      byWork   == IF q.compute > 0 THEN Lower(base, Lower(workLimit, rem)) ELSE base
      byMemory == IF q.memory > 0 THEN Lower(byWork, Lower(memoryLimit, rem)) ELSE byWork
  IN  IF rem = 0 THEN 0 ELSE Lower(IF byMemory = 0 THEN 1 ELSE byMemory, rem)

EffectiveChunk(q) ==
  ChunkSize(q,
            IF q.compute > 0 THEN ShareLimit(MaxWorkPerChunk, q.compute, Remaining(q)) ELSE 0,
            IF q.memory > 0 THEN ShareLimit(MaxMemoryPerChunk, q.memory, Remaining(q)) ELSE 0)

(* The share of an estimate that n of the remaining tokens account for,    *)
(* capped at the configured maximum.                                       *)
CappedShare(n, estimate, remaining, cap) ==
  IF estimate = 0 THEN 0 ELSE Lower((n * estimate) \div remaining, cap)

(* Chunk i (counted from 0) of a plan whose chunk size is size.            *)
HasChunk(q, size, i)    == i * size < Remaining(q)
ChunkStart(size, i)     == i * size
ChunkTokens(q, size, i) == Lower(size, Remaining(q) - i * size)
ChunkMemory(q, size, i) ==
  CappedShare(ChunkTokens(q, size, i), q.memory, Remaining(q), MaxMemoryPerChunk)
ChunkCompute(q, size, i) ==
  CappedShare(ChunkTokens(q, size, i), q.compute, Remaining(q), MaxWorkPerChunk)
=============================================================================
