----------------------------- MODULE ChunkPlanner -----------------------------
(***************************************************************************)
(* The loop of ChunkPlanner::plan (src/core/chunking.cpp), one step per    *)
(* iteration.  A behaviour plans one request.  The chunk size and every    *)
(* chunk's estimates come from a long double product that is truncated to  *)
(* an integer.  Both ways in which that is not the integer quotient are    *)
(* modelled: a product that is an integer may come out just below it and   *)
(* truncate to one less, and a product of 2^64 or more has no value as a   *)
(* uint64_t.                                                               *)
(***************************************************************************)
EXTENDS ChunkPlan, Sequences, Functions

CONSTANTS Requests,   \* the requests that may be planned
          WordSize    \* values below this fit the converted integer (2^64)

(* Requests with a prompt, as PrefillRequest::validate requires.           *)
ASSUME PlannerAssumption ==
  /\ \A q \in Requests :
       q \in [prompt : Nat \ {0}, cached : Nat, compute : Nat, memory : Nat]
  /\ WordSize \in Nat \ {0}

VARIABLES q,        \* the request
          size,     \* chunk_size
          offset,   \* tokens planned so far
          chunks    \* plan.chunks

vars == <<q, size, offset, chunks>>

Chunk == [start : Nat, tokens : Nat, compute : Nat, memory : Nat]

(* What truncating the quotient a / b in floating point may give.          *)
Truncations(a, b) ==
  {a \div b} \cup {v \in {(a \div b) - 1} : v >= 0 /\ a % b = 0}

(* The values of limit: any value at all once the product does not fit.    *)
Limits(cap, estimate, remaining) ==
  IF estimate = 0 THEN {0}
  ELSE IF ShareLimit(cap, estimate, remaining) >= WordSize THEN 0 .. (WordSize - 1)
  ELSE Truncations(cap * remaining, estimate)

(* Mutant: estimates are rounded up.                                       *)
SharesRoundedUp(n, estimate, remaining, cap) ==
  IF estimate = 0 THEN {0} ELSE {Lower((n * estimate + remaining - 1) \div remaining, cap)}

(* The values of a chunk's estimate.                                       *)
Shares(n, estimate, remaining, cap) ==
  IF estimate = 0 THEN {0} ELSE {Lower(v, cap) : v \in Truncations(n * estimate, remaining)}

ChunkSizes(r) ==
  {ChunkSize(r, w, m) : w \in Limits(MaxWorkPerChunk, r.compute, Remaining(r)),
                        m \in Limits(MaxMemoryPerChunk, r.memory, Remaining(r))}

Init ==
  /\ q \in Requests
  /\ size \in ChunkSizes(q)
  /\ offset = 0
  /\ chunks = <<>>

(* Mutant: the loop stops before a chunk that is not full.                 *)
AddWholeChunk ==
  /\ offset < Remaining(q)
  /\ offset + size <= Remaining(q)
  /\ chunks' = Append(chunks, [start |-> offset, tokens |-> size, compute |-> 0, memory |-> 0])
  /\ offset' = offset + size
  /\ UNCHANGED <<q, size>>

(* One iteration of the while loop.                                        *)
AddChunk ==
  /\ offset < Remaining(q)
  /\ LET n == Lower(Remaining(q) - offset, size)
     IN  /\ \E c \in Shares(n, q.compute, Remaining(q), MaxWorkPerChunk),
               m \in Shares(n, q.memory, Remaining(q), MaxMemoryPerChunk) :
              chunks' = Append(chunks, [start |-> offset, tokens |-> n, compute |-> c, memory |-> m])
         /\ offset' = offset + n
  /\ UNCHANGED <<q, size>>

Next == AddChunk

Spec == Init /\ [][Next]_vars

(* plan() is a plain loop: it runs on.                                     *)
FairSpec == Spec /\ WF_vars(AddChunk)

Done == offset = Remaining(q)

-----------------------------------------------------------------------------

(* Sizes and offsets are natural numbers: no unsigned subtraction wraps.   *)
TypeOK ==
  /\ q \in Requests
  /\ size \in Nat
  /\ offset \in Nat
  /\ chunks \in Seq(Chunk)

(* The chunks planned so far follow one another without gap or overlap     *)
(* from the first uncached token, none is empty, none leaves the remaining *)
(* prefill (PrefillChunk::validate), and together they end at offset: when *)
(* the loop ends they partition the remaining prefill.                     *)
ChunksPartition ==
  /\ offset <= Remaining(q)
  /\ offset = IF chunks = <<>> THEN 0 ELSE chunks[Len(chunks)].start + chunks[Len(chunks)].tokens
  /\ \A i \in 1 .. Len(chunks) :
       /\ chunks[i].tokens > 0
       /\ chunks[i].start + chunks[i].tokens <= Remaining(q)
       /\ chunks[i].start = IF i = 1 THEN 0 ELSE chunks[i-1].start + chunks[i-1].tokens

(* The loop computes what module ChunkPlan states in closed form, and what *)
(* the scheduler's model uses: chunk i starts at i * size, there is a      *)
(* chunk i exactly when that start lies within the remaining prefill, and  *)
(* its memory estimate is the exact capped share or one byte less.         *)
ClosedForm ==
  /\ \A i \in 1 .. Len(chunks) :
       /\ HasChunk(q, size, i - 1)
       /\ chunks[i].start = ChunkStart(size, i - 1)
       /\ chunks[i].tokens = ChunkTokens(q, size, i - 1)
       /\ chunks[i].memory <= ChunkMemory(q, size, i - 1)
       /\ chunks[i].memory >= ChunkMemory(q, size, i - 1) - 1
  /\ Done => ~HasChunk(q, size, Len(chunks))

(* A chunk's memory estimate is what the scheduler reserves for it.  The   *)
(* cap of line 80 reports less than the proportional share only for a      *)
(* chunk that could not be made smaller: one token.                        *)
CapOnlyCutsSingleTokens ==
  \A i \in 1 .. Len(chunks) :
    chunks[i].tokens > 1 =>
      /\ chunks[i].memory \in Truncations(chunks[i].tokens * q.memory, Remaining(q))
      /\ chunks[i].compute \in Truncations(chunks[i].tokens * q.compute, Remaining(q))

Memories == [i \in 1 .. Len(chunks) |-> chunks[i].memory]
Computes == [i \in 1 .. Len(chunks) |-> chunks[i].compute]

(* Splitting never inflates a request's demand: the chunks' memory         *)
(* estimates add up to at most the request's own.                          *)
SharesWithinEstimate ==
  /\ SumFunctionOnSet(Memories, 1 .. Len(chunks)) <= q.memory
  /\ SumFunctionOnSet(Computes, 1 .. Len(chunks)) <= q.compute

(* Planning ends with every remaining token in a chunk, whatever size the  *)
(* division produced: the loop of plan neither stops early nor runs on.    *)
Terminates == <>Done
=============================================================================
