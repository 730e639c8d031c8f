--------------------------- MODULE ComponentProofs ---------------------------
(***************************************************************************)
(* The two components that the scheduler calls.  The planning loop is      *)
(* correct for every request, every configuration and every outcome of the *)
(* floating point divisions; the memory governor for every order of calls. *)
(***************************************************************************)
EXTENDS ChunkPlanner, MemoryGovernor, Sums

(* A request has a natural number of remaining tokens.                     *)
LEMMA RemainingType ==
  ASSUME NEW r \in Requests
  PROVE  Remaining(r) \in Nat
BY PlannerAssumption DEF Remaining

(* Integer division by a positive number of a natural one is natural.      *)
LEMMA DivType ==
  ASSUME NEW a \in Nat, NEW b \in Nat \ {0}
  PROVE  a \div b \in Nat
OBVIOUS

LEMMA TimesType ==
  ASSUME NEW a \in Nat, NEW b \in Nat
  PROVE  a * b \in Nat
OBVIOUS

(* Truncation yields a natural number, at most one below the quotient.     *)
LEMMA TruncationsType ==
  ASSUME NEW a \in Nat, NEW b \in Nat \ {0}, NEW v \in Truncations(a, b)
  PROVE  /\ v \in Nat
         /\ v <= a \div b
         /\ v >= (a \div b) - 1
BY DivType DEF Truncations

(* A chunk size is at most the work left, not zero while there is some,    *)
(* and within both limits unless it is a single token.                     *)
LEMMA ChunkSizeBounds ==
  ASSUME NEW r, r.compute \in Nat, r.memory \in Nat, Remaining(r) \in Nat, NEW w \in Nat, NEW m \in Nat
  PROVE  LET s == ChunkSize(r, w, m) IN
         /\ s \in Nat /\ s <= Remaining(r) /\ (Remaining(r) > 0 => s > 0)
         /\ s > 1 => (r.compute > 0 => s <= w) /\ (r.memory > 0 => s <= m)
<1> DEFINE rem      == Remaining(r)
           base     == IF MaxTokensPerChunk = 0 THEN 1 ELSE MaxTokensPerChunk
           byWork   == IF r.compute > 0 THEN Lower(base, Lower(w, rem)) ELSE base
           byMemory == IF r.memory > 0 THEN Lower(byWork, Lower(m, rem)) ELSE byWork
           top      == IF byMemory = 0 THEN 1 ELSE byMemory
           s        == ChunkSize(r, w, m)
<1>1. rem \in Nat
  OBVIOUS
<1> HIDE DEF rem
<1>2. byWork \in Nat /\ (r.compute > 0 => byWork <= w)
  BY <1>1, ChunkConfigAssumption DEF Lower
<1> HIDE DEF byWork
<1>3. byMemory \in Nat /\ byMemory <= byWork /\ (r.memory > 0 => byMemory <= m)
  BY <1>1, <1>2 DEF Lower
<1> HIDE DEF byMemory
<1>4. top \in Nat /\ top > 0 /\ (top > 1 => top = byMemory)
  BY <1>3
<1>5. s = IF rem = 0 THEN 0 ELSE Lower(top, rem)
  BY DEF ChunkSize, byWork, byMemory, rem
<1> HIDE DEF top, s
<1>6. s \in Nat /\ s <= rem /\ s <= top /\ (rem > 0 => s > 0)
  BY <1>1, <1>4, <1>5 DEF Lower
<1>7. s > 1 => (r.compute > 0 => s <= w) /\ (r.memory > 0 => s <= m)
  BY <1>2, <1>3, <1>4, <1>6
<1>8. QED BY <1>6, <1>7 DEF s, rem

(* Whatever the divisions produce, the chunk size of a request that has    *)
(* work left is at least one token and at most that work.                  *)
LEMMA SizeRange ==
  ASSUME NEW r \in Requests, NEW s \in ChunkSizes(r)
  PROVE  /\ s \in Nat
         /\ s <= Remaining(r)
         /\ Remaining(r) > 0 => s > 0
<1> DEFINE rem == Remaining(r)
<1>1. rem \in Nat
  BY RemainingType
<1>2. r.compute \in Nat /\ r.memory \in Nat
  BY PlannerAssumption
<1>3. Limits(MaxWorkPerChunk, r.compute, rem) \subseteq Nat
  <2>1. CASE r.compute = 0
    BY <2>1 DEF Limits
  <2>2. CASE r.compute > 0
    <3>1. MaxWorkPerChunk * rem \in Nat
      BY <1>1, ChunkConfigAssumption, TimesType
    <3>2. Truncations(MaxWorkPerChunk * rem, r.compute) \subseteq Nat
      BY <1>2, <2>2, <3>1, TruncationsType
    <3> HIDE DEF rem
    <3>3. QED BY <1>2, <2>2, <3>2, PlannerAssumption DEF Limits
  <2>3. QED BY <1>2, <2>1, <2>2
<1>4. Limits(MaxMemoryPerChunk, r.memory, rem) \subseteq Nat
  <2>1. CASE r.memory = 0
    BY <2>1 DEF Limits
  <2>2. CASE r.memory > 0
    <3>1. MaxMemoryPerChunk * rem \in Nat
      BY <1>1, ChunkConfigAssumption, TimesType
    <3>2. Truncations(MaxMemoryPerChunk * rem, r.memory) \subseteq Nat
      BY <1>2, <2>2, <3>1, TruncationsType
    <3> HIDE DEF rem
    <3>3. QED BY <1>2, <2>2, <3>2, PlannerAssumption DEF Limits
  <2>3. QED BY <1>2, <2>1, <2>2
<1>5. PICK w \in Limits(MaxWorkPerChunk, r.compute, rem),
           m \in Limits(MaxMemoryPerChunk, r.memory, rem) : s = ChunkSize(r, w, m)
  BY DEF ChunkSizes
<1>6. w \in Nat /\ m \in Nat
  BY <1>3, <1>4, <1>5
<1>7. QED BY <1>1, <1>2, <1>5, <1>6, ChunkSizeBounds

(* A chunk's estimate is at most its exact capped share, and at least that *)
(* share less one.                                                         *)
LEMMA SharesRange ==
  ASSUME NEW n \in Nat, NEW e \in Nat, NEW rem \in Nat \ {0}, NEW cap \in Nat,
         NEW m \in Shares(n, e, rem, cap)
  PROVE  /\ m \in Nat
         /\ m <= CappedShare(n, e, rem, cap)
         /\ m >= CappedShare(n, e, rem, cap) - 1
<1>1. CASE e = 0
  BY <1>1 DEF Shares, CappedShare
<1>2. CASE e # 0
  <2>1. n * e \in Nat
    BY TimesType
  <2>2. PICK v \in Truncations(n * e, rem) : m = Lower(v, cap)
    BY <1>2 DEF Shares
  <2>3. /\ v \in Nat /\ v <= (n * e) \div rem /\ v >= ((n * e) \div rem) - 1
        /\ (n * e) \div rem \in Nat
    BY <2>1, <2>2, TruncationsType, DivType
  <2>4. CappedShare(n, e, rem, cap) = Lower((n * e) \div rem, cap)
    BY <1>2 DEF CappedShare
  <2>5. QED BY <2>2, <2>3, <2>4 DEF Lower
<1>3. QED BY <1>1, <1>2

-----------------------------------------------------------------------------

(* The loop invariant.  ChunksPartition is not inductive by itself: that a *)
(* new chunk is not empty needs size > 0, and that it starts at a multiple *)
(* of size needs that every chunk before the last is full.                 *)
LoopInv ==
  /\ TypeOK
  /\ Remaining(q) > 0 => size > 0
  /\ size <= Remaining(q)
  /\ ChunksPartition
  /\ offset < Remaining(q) => offset = Len(chunks) * size
  /\ offset = Remaining(q) => Len(chunks) * size >= Remaining(q)
  /\ \A i \in 1 .. Len(chunks) :
       /\ HasChunk(q, size, i - 1)
       /\ chunks[i].start = ChunkStart(size, i - 1)
       /\ chunks[i].tokens = ChunkTokens(q, size, i - 1)
       /\ chunks[i].memory <= ChunkMemory(q, size, i - 1)
       /\ chunks[i].memory >= ChunkMemory(q, size, i - 1) - 1

LEMMA LoopInit == Init => LoopInv
<1> SUFFICES ASSUME Init PROVE LoopInv
  OBVIOUS
<1>1. chunks = <<>> /\ Len(chunks) = 0 /\ chunks \in Seq(Chunk) /\ offset = 0
  BY DEF Init
<1>2. q \in Requests /\ size \in ChunkSizes(q)
  BY DEF Init
<1>3. Remaining(q) \in Nat /\ size \in Nat /\ size <= Remaining(q)
      /\ (Remaining(q) > 0 => size > 0)
  BY <1>2, RemainingType, SizeRange
<1>4. QED BY <1>1, <1>2, <1>3 DEF LoopInv, TypeOK, ChunksPartition

LEMMA LoopStep == LoopInv /\ [Next]_vars => LoopInv'
<1> SUFFICES ASSUME LoopInv, [Next]_vars PROVE LoopInv'
  OBVIOUS
<1>1. CASE UNCHANGED vars
  <2>1. q' = q /\ size' = size /\ chunks' = chunks /\ offset' = offset
    BY <1>1 DEF vars
  <2>2. TypeOK'
    BY <2>1 DEF LoopInv, TypeOK
  <2>3. ChunksPartition'
    BY <2>1, Zenon DEF LoopInv, ChunksPartition
  <2>4. QED BY <2>1, <2>2, <2>3, Zenon DEF LoopInv
<1>2. CASE AddChunk
  <2> DEFINE rem == Remaining(q)
             k == Len(chunks)
             n == Lower(rem - offset, size)
  <2>1. rem \in Nat \ {0} /\ size \in Nat \ {0} /\ offset \in Nat /\ k \in Nat
        /\ offset < rem /\ offset = k * size /\ chunks \in Seq(Chunk) /\ q \in Requests
        /\ size <= rem
    BY <1>2, RemainingType DEF AddChunk, LoopInv, TypeOK
  <2>2. q.memory \in Nat /\ q.compute \in Nat
    BY <2>1, PlannerAssumption
  <2>3. q' = q /\ size' = size /\ Remaining(q') = rem
    BY <1>2 DEF AddChunk
  <2>4. n \in Nat /\ n > 0 /\ n <= size /\ n = ChunkTokens(q, size, k) /\ offset + n <= rem
    BY <2>1 DEF Lower, ChunkTokens
  <2>5. PICK c \in Shares(n, q.compute, rem, MaxWorkPerChunk),
             m \in Shares(n, q.memory, rem, MaxMemoryPerChunk) :
          chunks' = Append(chunks, [start |-> offset, tokens |-> n, compute |-> c, memory |-> m])
    BY <1>2 DEF AddChunk
  <2>6. offset' = offset + n
    BY <1>2 DEF AddChunk
  <2> DEFINE new == [start |-> offset, tokens |-> n, compute |-> c, memory |-> m]
  <2>7. c \in Nat /\ m \in Nat /\ m <= ChunkMemory(q, size, k) /\ m >= ChunkMemory(q, size, k) - 1
    <3> HIDE DEF n, rem
    <3>1. c \in Nat /\ m \in Nat /\ m <= CappedShare(n, q.memory, rem, MaxMemoryPerChunk)
          /\ m >= CappedShare(n, q.memory, rem, MaxMemoryPerChunk) - 1
      BY <2>1, <2>2, <2>4, <2>5, ChunkConfigAssumption, SharesRange
    <3>2. QED BY <2>4, <3>1 DEF ChunkMemory, rem
  <2>8. new \in Chunk
    BY <2>1, <2>4, <2>7 DEF Chunk
  <2> HIDE DEF n, new, rem
  <2>9. /\ chunks' \in Seq(Chunk) /\ Len(chunks') = k + 1 /\ chunks'[k + 1] = new
        /\ \A i \in 1 .. k : chunks'[i] = chunks[i]
    <3>1. chunks' = Append(chunks, new)
      BY <2>5 DEF new
    <3>2. QED BY <3>1, <2>1, <2>8
  <2> HIDE DEF k
  <2>10. new.start = offset /\ new.tokens = n /\ new.memory = m
    BY DEF new
  <2>11. TypeOK'
    BY <2>1, <2>3, <2>4, <2>6, <2>9 DEF TypeOK
  <2>12. offset' <= rem /\ (offset' < rem => offset' = (k + 1) * size)
         /\ (offset' = rem => (k + 1) * size >= rem)
    <3>1. (k + 1) * size = k * size + size
      BY <2>1
    <3>2. QED BY <2>1, <2>4, <2>6, <3>1 DEF n, Lower
  <2>13. chunks' # <<>>
    BY <2>1, <2>9
  <2>14. k >= 1 => offset = chunks[k].start + chunks[k].tokens
    BY <2>1 DEF LoopInv, ChunksPartition, k
  <2>15. k = 0 => offset = 0
    BY <2>1
  <2>16. ChunksPartition'
    <3>1. offset' = chunks'[Len(chunks')].start + chunks'[Len(chunks')].tokens
      BY <2>6, <2>9, <2>10
    <3>2. ASSUME NEW i \in 1 .. (k + 1)
          PROVE  /\ chunks'[i].tokens > 0
                 /\ chunks'[i].start + chunks'[i].tokens <= rem
                 /\ chunks'[i].start = IF i = 1 THEN 0 ELSE chunks'[i-1].start + chunks'[i-1].tokens
      <4>1. CASE i = k + 1
        <5>1. chunks'[i].start = offset /\ chunks'[i].tokens = n
          BY <4>1, <2>9, <2>10
        <5>2. i # 1 => chunks'[i-1] = chunks[k] /\ k >= 1
          BY <4>1, <2>1, <2>9
        <5>3. i = 1 => k = 0
          BY <4>1, <2>1
        <5>4. offset = IF i = 1 THEN 0 ELSE chunks'[i-1].start + chunks'[i-1].tokens
          <6>1. CASE i = 1
            BY ONLY <6>1, <5>3, <2>15
          <6>2. CASE i # 1
            BY ONLY <6>2, <5>2, <2>14
          <6>3. QED BY ONLY <6>1, <6>2
        <5>5. n > 0 /\ offset + n <= rem
          BY ONLY <2>4
        <5>6. QED BY ONLY <5>1, <5>4, <5>5
      <4>2. CASE i \in 1 .. k
        <5>1. chunks'[i] = chunks[i] /\ (i # 1 => chunks'[i-1] = chunks[i-1])
          <6>1. i # 1 => i - 1 \in 1 .. k
            BY ONLY <4>2, <2>1
          <6>2. QED BY ONLY <4>2, <2>9, <6>1
        <5>2. QED BY <5>1, <4>2 DEF LoopInv, ChunksPartition, k, rem
      <4>3. QED BY <4>1, <4>2, <2>1
    <3>3. QED BY <2>3, <2>9, <2>12, <2>13, <3>1, <3>2 DEF ChunksPartition
  <2>17. ASSUME NEW i \in 1 .. (k + 1)
         PROVE  /\ HasChunk(q, size, i - 1)
                /\ chunks'[i].start = ChunkStart(size, i - 1)
                /\ chunks'[i].tokens = ChunkTokens(q, size, i - 1)
                /\ chunks'[i].memory <= ChunkMemory(q, size, i - 1)
                /\ chunks'[i].memory >= ChunkMemory(q, size, i - 1) - 1
    <3>1. CASE i = k + 1
      <4>1. i - 1 = k
        BY <3>1, <2>1
      <4>2. chunks'[i] = new
        BY <3>1, <2>9
      <4>3. HasChunk(q, size, k) /\ ChunkStart(size, k) = offset
        BY <2>1 DEF HasChunk, ChunkStart, rem
      <4>4. QED BY <4>1, <4>2, <4>3, <2>4, <2>7, <2>10
    <3>2. CASE i \in 1 .. k
      BY <3>2, <2>9 DEF LoopInv, k
    <3>3. QED BY <3>1, <3>2, <2>1
  <2>18. QED
    BY <2>1, <2>3, <2>9, <2>11, <2>12, <2>16, <2>17 DEF LoopInv
<1>3. QED BY <1>1, <1>2 DEF Next

(* For every request, configuration and rounding: the chunks planned so    *)
(* far partition the planned tokens (the loop of chunking.cpp:54-87).      *)
THEOREM PlanPartitions == Spec => []ChunksPartition
<1>1. LoopInv => ChunksPartition
  BY DEF LoopInv
<1>2. QED BY <1>1, LoopInit, LoopStep, PTL DEF Spec

(* The loop computes the closed form the scheduler's model is built on.    *)
THEOREM PlanClosedForm == Spec => []ClosedForm
<1>1. ASSUME LoopInv PROVE ClosedForm
  <2>1. Remaining(q) \in Nat /\ Len(chunks) \in Nat /\ size \in Nat
    BY <1>1, RemainingType DEF LoopInv, TypeOK
  <2>2. ASSUME Done PROVE ~HasChunk(q, size, Len(chunks))
    <3>1. Len(chunks) * size >= Remaining(q) /\ Len(chunks) * size \in Nat
      BY <1>1, <2>1, <2>2, TimesType DEF LoopInv, Done
    <3>2. QED BY <2>1, <3>1 DEF HasChunk
  <2>3. QED BY <1>1, <2>2 DEF LoopInv, ClosedForm
<1>2. QED BY <1>1, LoopInit, LoopStep, PTL DEF Spec

-----------------------------------------------------------------------------
(* The estimates of the chunks.                                            *)

LEMMA DivBelow ==
  ASSUME NEW a \in Nat, NEW b \in Nat \ {0}
  PROVE  (a \div b) * b <= a
OBVIOUS

LEMMA DivAtMost ==
  ASSUME NEW a \in Nat, NEW b \in Nat \ {0}, NEW c \in Nat, a <= c * b
  PROVE  a \div b <= c
OBVIOUS

LEMMA TimesMonotone ==
  ASSUME NEW a \in Nat, NEW b \in Nat, NEW c \in Nat, a <= b
  PROVE  a * c <= b * c
OBVIOUS

LEMMA TimesCancels ==
  ASSUME NEW a \in Nat, NEW b \in Nat, NEW c \in Nat \ {0}, a * c <= b * c
  PROVE  a <= b
OBVIOUS

(* A limit is never above the exact one, even when the product did not fit *)
(* and the conversion gave any value at all.                               *)
LEMMA LimitsBelow ==
  ASSUME NEW cap \in Nat, NEW e \in Nat \ {0}, NEW rem \in Nat, NEW v \in Limits(cap, e, rem)
  PROVE  v \in Nat /\ v <= ShareLimit(cap, e, rem)
<1> DEFINE top == ShareLimit(cap, e, rem)
<1>1. cap * rem \in Nat
  BY TimesType
<1>2. top \in Nat
  BY <1>1, DivType DEF ShareLimit
<1>3. CASE top >= WordSize
  <2>1. v \in 0 .. (WordSize - 1)
    BY <1>3 DEF Limits
  <2> HIDE DEF top
  <2>2. QED BY <1>2, <1>3, <2>1, PlannerAssumption DEF top
<1>4. CASE ~(top >= WordSize)
  <2>1. v \in Truncations(cap * rem, e)
    BY <1>4 DEF Limits
  <2>2. QED BY <1>1, <2>1, TruncationsType DEF ShareLimit
<1>5. QED BY <1>3, <1>4

(* A chunk of several tokens is within the limits the caps impose.         *)
Capped(r, s) ==
  s > 1 => /\ r.compute > 0 => s <= ShareLimit(MaxWorkPerChunk, r.compute, Remaining(r))
           /\ r.memory > 0 => s <= ShareLimit(MaxMemoryPerChunk, r.memory, Remaining(r))

LEMMA SizeCapped ==
  ASSUME NEW r \in Requests, NEW s \in ChunkSizes(r)
  PROVE  Capped(r, s)
<1> DEFINE rem == Remaining(r)
           work == ShareLimit(MaxWorkPerChunk, r.compute, rem)
           memory == ShareLimit(MaxMemoryPerChunk, r.memory, rem)
<1>1. rem \in Nat /\ r.compute \in Nat /\ r.memory \in Nat
  BY RemainingType, PlannerAssumption
<1>2. PICK w \in Limits(MaxWorkPerChunk, r.compute, rem),
           m \in Limits(MaxMemoryPerChunk, r.memory, rem) : s = ChunkSize(r, w, m)
  BY DEF ChunkSizes
<1>3. r.compute > 0 => w \in Nat /\ w <= work
  BY <1>1, <1>2, LimitsBelow, ChunkConfigAssumption
<1>4. r.memory > 0 => m \in Nat /\ m <= memory
  BY <1>1, <1>2, LimitsBelow, ChunkConfigAssumption
<1>5. r.compute = 0 => w = 0
  BY <1>2 DEF Limits
<1>6. r.memory = 0 => m = 0
  BY <1>2 DEF Limits
<1>7. w \in Nat /\ m \in Nat
  BY <1>1, <1>3, <1>4, <1>5, <1>6
<1>8. s > 1 => (r.compute > 0 => s <= w) /\ (r.memory > 0 => s <= m)
  BY <1>1, <1>2, <1>7, ChunkSizeBounds
<1>9. s \in Nat
  BY SizeRange
<1>10. /\ r.compute > 0 => work \in Nat
       /\ r.memory > 0 => memory \in Nat
  BY <1>1, TimesType, DivType, ChunkConfigAssumption DEF ShareLimit
<1> HIDE DEF work, memory, rem
<1>11. QED BY <1>3, <1>4, <1>7, <1>8, <1>9, <1>10 DEF Capped, work, memory, rem

(* So the share of a chunk of several tokens is not cut by the cap.        *)
LEMMA ShareUncut ==
  ASSUME NEW n \in Nat, NEW s \in Nat, n <= s, NEW e \in Nat, NEW rem \in Nat \ {0}, NEW cap \in Nat,
         e > 0 => s <= ShareLimit(cap, e, rem), NEW v \in Shares(n, e, rem, cap)
  PROVE  v \in Truncations(n * e, rem)
<1>1. CASE e = 0
  <2>1. v = 0 /\ n * e = 0 /\ 0 \div rem = 0
    BY <1>1 DEF Shares
  <2>2. QED BY <2>1 DEF Truncations
<1>2. CASE e # 0
  <2>1. PICK u \in Truncations(n * e, rem) : v = Lower(u, cap)
    BY <1>2 DEF Shares
  <2> DEFINE d == ShareLimit(cap, e, rem)
  <2>2. cap * rem \in Nat /\ n * e \in Nat /\ d \in Nat /\ d * e <= cap * rem
    BY <1>2, TimesType, DivType, DivBelow DEF ShareLimit
  <2>3. n * e <= s * e /\ s * e <= d * e /\ s * e \in Nat /\ d * e \in Nat
    <3> HIDE DEF d
    <3>1. QED BY <1>2, <2>2, TimesMonotone, TimesType DEF d
  <2>4. n * e <= cap * rem
    <3> HIDE DEF d
    <3>1. QED BY <2>2, <2>3
  <2>5. (n * e) \div rem <= cap /\ (n * e) \div rem \in Nat
    BY <2>2, <2>4, DivAtMost, DivType
  <2>6. u \in Nat /\ u <= (n * e) \div rem
    BY <2>1, <2>2, TruncationsType
  <2>7. v = u
    BY <2>1, <2>5, <2>6 DEF Lower
  <2>8. QED BY <2>1, <2>7
<1>3. QED BY <1>1, <1>2

(* A chunk's share times the remaining tokens is within its tokens times   *)
(* the estimate.                                                           *)
LEMMA ShareInProportion ==
  ASSUME NEW n \in Nat, NEW e \in Nat, NEW rem \in Nat \ {0}, NEW cap \in Nat,
         NEW v \in Shares(n, e, rem, cap)
  PROVE  v \in Nat /\ v * rem <= n * e
<1>1. v \in Nat /\ v <= CappedShare(n, e, rem, cap)
  BY SharesRange
<1>2. CASE e = 0
  <2>1. v = 0
    BY <1>2 DEF Shares
  <2>2. QED BY <1>2, <2>1
<1>3. CASE e # 0
  <2>1. n * e \in Nat /\ (n * e) \div rem \in Nat /\ ((n * e) \div rem) * rem <= n * e
    BY TimesType, DivType, DivBelow
  <2>2. v <= (n * e) \div rem
    BY <1>1, <1>3, <2>1 DEF CappedShare, Lower
  <2>3. v * rem <= ((n * e) \div rem) * rem /\ v * rem \in Nat /\ ((n * e) \div rem) * rem \in Nat
    BY <1>1, <2>1, <2>2, TimesMonotone, TimesType
  <2>4. QED BY <1>1, <2>1, <2>3
<1>4. QED BY <1>2, <1>3

(* The sum of a series that one more value extends.                        *)
LEMMA SeriesSum ==
  ASSUME NEW k \in Nat, NEW f, NEW g, \A i \in 1 .. k : f[i] \in Nat /\ g[i] = f[i],
         g[k + 1] \in Nat
  PROVE  /\ SumFunctionOnSet(f, 1 .. k) \in Nat
         /\ SumFunctionOnSet(g, 1 .. k + 1) = g[k + 1] + SumFunctionOnSet(f, 1 .. k)
<1>0. IsFiniteSet(1 .. k)
  BY FS_Interval
<1>1. IsFiniteSet(1 .. k) /\ 1 .. k + 1 = (1 .. k) \cup {k + 1} /\ k + 1 \notin 1 .. k
  BY <1>0
<1>2. SumFunctionOnSet(f, 1 .. k) \in Nat
  BY <1>1, SumNat
<1>3. SumFunctionOnSet(g, 1 .. k) = SumFunctionOnSet(f, 1 .. k)
  <2>1. \A i \in 1 .. k : f[i] \in Int /\ g[i] = f[i]
    OBVIOUS
  <2>2. QED BY <1>1, <2>1, SumSame
<1>4. (\A i \in 1 .. k : g[i] \in Int) /\ g[k + 1] \in Int
  OBVIOUS
<1>5. SumFunctionOnSet(g, (1 .. k) \cup {k + 1}) = g[k + 1] + SumFunctionOnSet(g, 1 .. k)
  BY <1>1, <1>4, SumAdd
<1>6. QED BY <1>1, <1>2, <1>3, <1>5

(* If the sum is in proportion to the tokens planned so far, it stays so.  *)
LEMMA ProportionKept ==
  ASSUME NEW a \in Nat, NEW v \in Nat, NEW rem \in Nat, NEW off \in Nat, NEW n \in Nat, NEW e \in Nat,
         a * rem <= off * e, v * rem <= n * e
  PROVE  (v + a) * rem <= (off + n) * e
<1>1. (v + a) * rem = v * rem + a * rem /\ (off + n) * e = off * e + n * e
  OBVIOUS
<1>2. v * rem \in Nat /\ a * rem \in Nat /\ off * e \in Nat /\ n * e \in Nat
  BY TimesType
<1>3. QED BY <1>1, <1>2

(* The invariant of the estimates: what is planned so far takes no more of *)
(* an estimate than its part of the tokens.                                *)
EstimateInv ==
  /\ Capped(q, size)
  /\ CapOnlyCutsSingleTokens
  /\ SumFunctionOnSet(Memories, 1 .. Len(chunks)) * Remaining(q) <= offset * q.memory
  /\ SumFunctionOnSet(Computes, 1 .. Len(chunks)) * Remaining(q) <= offset * q.compute

LEMMA EstimateInit == Init => EstimateInv
<1> SUFFICES ASSUME Init PROVE EstimateInv
  OBVIOUS
<1>1. chunks = <<>> /\ Len(chunks) = 0 /\ offset = 0 /\ 1 .. Len(chunks) = {}
  BY DEF Init
<1>2. q \in Requests /\ size \in ChunkSizes(q) /\ Remaining(q) \in Nat
      /\ q.memory \in Nat /\ q.compute \in Nat
  BY RemainingType, PlannerAssumption DEF Init
<1>3. SumFunctionOnSet(Memories, 1 .. Len(chunks)) = 0 /\ SumFunctionOnSet(Computes, 1 .. Len(chunks)) = 0
  BY <1>1, SumEmpty
<1>4. CapOnlyCutsSingleTokens
  BY <1>1 DEF CapOnlyCutsSingleTokens
<1>5. QED BY <1>1, <1>2, <1>3, <1>4, SizeCapped DEF EstimateInv

LEMMA EstimateStep == LoopInv /\ EstimateInv /\ [Next]_vars => EstimateInv'
<1> SUFFICES ASSUME LoopInv, EstimateInv, [Next]_vars PROVE EstimateInv'
  OBVIOUS
<1>1. CASE UNCHANGED vars
  <2>1. q' = q /\ size' = size /\ offset' = offset /\ chunks' = chunks
    BY <1>1 DEF vars
  <2>2. Memories' = Memories /\ Computes' = Computes
    BY <2>1 DEF Memories, Computes
  <2>3. CapOnlyCutsSingleTokens'
    BY <2>1 DEF EstimateInv, CapOnlyCutsSingleTokens
  <2>4. QED BY <2>1, <2>2, <2>3 DEF EstimateInv
<1>2. CASE AddChunk
  <2> DEFINE rem == Remaining(q)
             k == Len(chunks)
             n == Lower(rem - offset, size)
  <2>1. /\ rem \in Nat \ {0} /\ size \in Nat \ {0} /\ offset \in Nat /\ k \in Nat
        /\ offset < rem /\ chunks \in Seq(Chunk) /\ q \in Requests
    BY <1>2, RemainingType DEF AddChunk, LoopInv, TypeOK
  <2>2. q.memory \in Nat /\ q.compute \in Nat
    BY <2>1, PlannerAssumption
  <2>3. q' = q /\ size' = size /\ Remaining(q') = rem /\ offset' = offset + n
    BY <1>2 DEF AddChunk
  <2>4. n \in Nat /\ n <= size
    BY <2>1 DEF Lower
  <2>5. PICK c \in Shares(n, q.compute, rem, MaxWorkPerChunk),
             m \in Shares(n, q.memory, rem, MaxMemoryPerChunk) :
          chunks' = Append(chunks, [start |-> offset, tokens |-> n, compute |-> c, memory |-> m])
    BY <1>2 DEF AddChunk
  <2> DEFINE new == [start |-> offset, tokens |-> n, compute |-> c, memory |-> m]
  <2> HIDE DEF n, rem
  <2>6. /\ c \in Nat /\ c * rem <= n * q.compute
        /\ m \in Nat /\ m * rem <= n * q.memory
    BY <2>1, <2>2, <2>4, <2>5, ShareInProportion, ChunkConfigAssumption
  <2>7. new \in Chunk /\ new.tokens = n /\ new.compute = c /\ new.memory = m
    BY <2>1, <2>4, <2>6 DEF Chunk
  <2>8. chunks' = Append(chunks, new)
    BY <2>5
  <2> HIDE DEF new
  <2>9. /\ Len(chunks') = k + 1 /\ chunks'[k + 1] = new
        /\ \A i \in 1 .. k : chunks'[i] = chunks[i] /\ chunks[i] \in Chunk
    BY <2>1, <2>7, <2>8
  <2> HIDE DEF k
  <2>10. \A i \in 1 .. k : chunks[i].memory \in Nat /\ chunks[i].compute \in Nat
    BY <2>9 DEF Chunk
  <2>11. /\ \A i \in 1 .. k : /\ Memories[i] \in Nat /\ Memories'[i] = Memories[i]
                              /\ Computes[i] \in Nat /\ Computes'[i] = Computes[i]
         /\ Memories'[k + 1] = m /\ Computes'[k + 1] = c
    BY <2>1, <2>7, <2>9, <2>10 DEF Memories, Computes, k
  <2>12. /\ SumFunctionOnSet(Memories, 1 .. k) \in Nat
         /\ SumFunctionOnSet(Memories', 1 .. k + 1) = m + SumFunctionOnSet(Memories, 1 .. k)
    <3> DEFINE f == Memories
               g == Memories'
    <3>1. \A i \in 1 .. k : f[i] \in Nat /\ g[i] = f[i]
      BY <2>11
    <3>2. k \in Nat /\ g[k + 1] = m /\ g[k + 1] \in Nat
      BY <2>1, <2>6, <2>11
    <3> HIDE DEF f, g
    <3>3. /\ SumFunctionOnSet(f, 1 .. k) \in Nat
          /\ SumFunctionOnSet(g, 1 .. k + 1) = g[k + 1] + SumFunctionOnSet(f, 1 .. k)
      BY ONLY <3>1, <3>2, SeriesSum
    <3>4. QED BY <3>2, <3>3 DEF f, g
  <2>13. /\ SumFunctionOnSet(Computes, 1 .. k) \in Nat
         /\ SumFunctionOnSet(Computes', 1 .. k + 1) = c + SumFunctionOnSet(Computes, 1 .. k)
    <3> DEFINE f == Computes
               g == Computes'
    <3>1. \A i \in 1 .. k : f[i] \in Nat /\ g[i] = f[i]
      BY <2>11
    <3>2. k \in Nat /\ g[k + 1] = c /\ g[k + 1] \in Nat
      BY <2>1, <2>6, <2>11
    <3> HIDE DEF f, g
    <3>3. /\ SumFunctionOnSet(f, 1 .. k) \in Nat
          /\ SumFunctionOnSet(g, 1 .. k + 1) = g[k + 1] + SumFunctionOnSet(f, 1 .. k)
      BY ONLY <3>1, <3>2, SeriesSum
    <3>4. QED BY <3>2, <3>3 DEF f, g
  <2>14. /\ SumFunctionOnSet(Memories, 1 .. k) * rem <= offset * q.memory
         /\ SumFunctionOnSet(Computes, 1 .. k) * rem <= offset * q.compute
    BY DEF EstimateInv, k, rem
  <2>15. /\ SumFunctionOnSet(Memories', 1 .. k + 1) * rem <= (offset + n) * q.memory
         /\ SumFunctionOnSet(Computes', 1 .. k + 1) * rem <= (offset + n) * q.compute
    BY <2>1, <2>2, <2>4, <2>6, <2>12, <2>13, <2>14, ProportionKept
  <2>16. Capped(q, size)' /\ Capped(q, size)
    BY <2>3 DEF EstimateInv, Capped
  <2>17. ASSUME NEW i \in 1 .. k + 1, chunks'[i].tokens > 1
         PROVE  /\ chunks'[i].memory \in Truncations(chunks'[i].tokens * q.memory, rem)
                /\ chunks'[i].compute \in Truncations(chunks'[i].tokens * q.compute, rem)
    <3>1. CASE i = k + 1
      <4>1. chunks'[i] = new /\ n > 1
        BY <2>7, <2>9, <2>17, <3>1
      <4>2. size > 1
        BY <2>1, <2>4, <4>1
      <4>3. /\ q.compute > 0 => size <= ShareLimit(MaxWorkPerChunk, q.compute, rem)
            /\ q.memory > 0 => size <= ShareLimit(MaxMemoryPerChunk, q.memory, rem)
        BY <2>16, <4>2 DEF Capped, rem
      <4>4. m \in Truncations(n * q.memory, rem) /\ c \in Truncations(n * q.compute, rem)
        BY <2>1, <2>2, <2>4, <2>5, <4>3, ShareUncut, ChunkConfigAssumption
      <4>5. QED BY <2>7, <4>1, <4>4
    <3>2. CASE i \in 1 .. k
      BY <2>9, <2>17, <3>2 DEF EstimateInv, CapOnlyCutsSingleTokens, k, rem
    <3>3. QED BY <2>1, <3>1, <3>2
  <2>18. CapOnlyCutsSingleTokens'
    BY <2>3, <2>9, <2>17 DEF CapOnlyCutsSingleTokens
  <2>19. QED
    BY <2>3, <2>9, <2>15, <2>16, <2>18 DEF EstimateInv
<1>3. QED BY <1>1, <1>2 DEF Next

(* For every request, cap and rounding, conversions that overflow          *)
(* included: the cap on a chunk's estimates (chunking.cpp:70-81) cuts only *)
(* the share of a chunk of a single token.                                 *)
THEOREM PlanCutsSingleTokens == Spec => []CapOnlyCutsSingleTokens
<1>1. EstimateInv => CapOnlyCutsSingleTokens
  BY DEF EstimateInv
<1>2. QED
  BY <1>1, LoopInit, LoopStep, EstimateInit, EstimateStep, PTL DEF Spec

(* The chunks of a plan together never ask for more memory or compute than *)
(* the request's own estimates, however the shares were rounded.           *)
THEOREM PlanWithinEstimate == Spec => []SharesWithinEstimate
<1>1. ASSUME LoopInv, EstimateInv PROVE SharesWithinEstimate
  <2> DEFINE rem == Remaining(q)
             a == SumFunctionOnSet(Memories, 1 .. Len(chunks))
             b == SumFunctionOnSet(Computes, 1 .. Len(chunks))
  <2>1. /\ rem \in Nat /\ offset \in Nat /\ offset <= rem /\ Len(chunks) \in Nat
        /\ q.memory \in Nat /\ q.compute \in Nat /\ chunks \in Seq(Chunk)
    BY <1>1, RemainingType, PlannerAssumption DEF LoopInv, TypeOK, ChunksPartition
  <2>2. \A i \in 1 .. Len(chunks) : chunks[i] \in Chunk
    BY <2>1
  <2>3. CASE rem = 0
    <3>1. Len(chunks) = 0
      <4>1. \A i \in 1 .. Len(chunks) : chunks[i].tokens > 0 /\ chunks[i].start + chunks[i].tokens <= 0
        BY <1>1, <2>3 DEF LoopInv, ChunksPartition
      <4>2. \A i \in 1 .. Len(chunks) : chunks[i].tokens \in Nat /\ chunks[i].start \in Nat
        BY <2>2 DEF Chunk
      <4>3. QED BY <2>1, <4>1, <4>2
    <3>2. a = 0 /\ b = 0
      BY <3>1, SumEmpty
    <3>3. QED BY <2>1, <3>2 DEF SharesWithinEstimate
  <2>4. CASE rem # 0
    <3>1. IsFiniteSet(1 .. Len(chunks))
      BY <2>1, FS_Interval
    <3>2. \A i \in 1 .. Len(chunks) : Memories[i] \in Nat /\ Computes[i] \in Nat
      BY <2>2 DEF Memories, Computes, Chunk
    <3>3. a \in Nat /\ b \in Nat
      BY <3>1, <3>2, SumNat
    <3>4. a * rem <= offset * q.memory /\ b * rem <= offset * q.compute
      BY <1>1 DEF EstimateInv
    <3> HIDE DEF a, b, rem
    <3>5. offset * q.memory <= rem * q.memory /\ offset * q.compute <= rem * q.compute
      BY <2>1, TimesMonotone
    <3>6. rem * q.memory = q.memory * rem /\ rem * q.compute = q.compute * rem
      BY <2>1
    <3>7. a * rem <= q.memory * rem /\ b * rem <= q.compute * rem
      <4>1. /\ a * rem \in Nat /\ b * rem \in Nat
            /\ offset * q.memory \in Nat /\ offset * q.compute \in Nat
            /\ rem * q.memory \in Nat /\ rem * q.compute \in Nat
        BY <2>1, <3>3, TimesType
      <4>2. QED BY <3>4, <3>5, <3>6, <4>1
    <3>8. rem \in Nat \ {0} /\ q.memory \in Nat /\ q.compute \in Nat
      BY <2>1, <2>4 DEF rem
    <3>9. a <= q.memory /\ b <= q.compute
      BY ONLY <3>8, <3>3, <3>7, TimesCancels
    <3>10. QED BY <3>9 DEF SharesWithinEstimate, a, b
  <2>5. QED BY <2>3, <2>4
<1>2. QED
  BY <1>1, LoopInit, LoopStep, EstimateInit, EstimateStep, PTL DEF Spec
-----------------------------------------------------------------------------
(* The memory governor, for any ids, sizes, capacities and headroom.       *)

(* What a call leaves of the total and the records, reserve and release    *)
(* apart from the calls that touch neither.                                *)
LEMMA CallTypes ==
  ASSUME GovernorTypeOK, GovernorNext
  PROVE  GovernorTypeOK'
<1> USE GovernorAssumption DEF GovernorTypeOK
<1>1. CASE \E i \in Id, b \in Sizes, k \in Kind : Reserve(i, b, k)
  <2>1. PICK i \in Id, b \in Sizes, k \in Kind : Reserve(i, b, k)
    BY <1>1
  <2>2. b \in Nat
    OBVIOUS
  <2>3. QED BY <2>1, <2>2 DEF Reserve
<1>2. CASE \E i \in Id : Release(i)
  <2>1. PICK i \in Id : Release(i)
    BY <1>2
  <2>2. bytes[i] \in Nat /\ reserved' \in Nat
    BY <2>1 DEF Release
  <2>3. underflowed' \in BOOLEAN
    BY <2>1 DEF Release
  <2>4. QED BY <2>1, <2>2, <2>3 DEF Release
<1>3. CASE (\E i \in Id, k \in Kind : Transition(i, k)) \/ \E c \in Capacities : SetCapacity(c)
  BY <1>3 DEF Transition, SetCapacity
<1>4. QED BY <1>1, <1>2, <1>3, Zenon DEF GovernorNext

(* No sequence of reserves, releases, repeated or not, and capacities      *)
(* below what is reserved takes an unsigned counter below zero.            *)
THEOREM GovernorTypeCorrect == GovernorSpec => []GovernorTypeOK
<1>1. GovernorInit => GovernorTypeOK
  <2>1. (CHOOSE k \in Kind : TRUE) \in Kind
    BY GovernorAssumption
  <2>2. ASSUME NEW k \in Kind, kind \in [Id -> {k}] PROVE kind \in [Id -> Kind]
    BY <2>2
  <2>3. GovernorInit => kind \in [Id -> Kind]
    BY <2>1, <2>2, Zenon DEF GovernorInit
  <2>4. max \in Capacities /\ bytes = [i \in Id |-> 0] => max \in Nat /\ bytes \in [Id -> Nat]
    BY GovernorAssumption
  <2>5. GovernorInit => /\ max \in Capacities /\ reserved = 0 /\ active = {}
                /\ bytes = [i \in Id |-> 0] /\ underflowed \in BOOLEAN
    BY Zenon DEF GovernorInit
  <2>6. GovernorInit => reserved \in Nat /\ active \subseteq Id
    BY <2>5
  <2>7. QED BY <2>3, <2>4, <2>5, <2>6, Zenon DEF GovernorTypeOK
<1>2. GovernorTypeOK /\ [GovernorNext]_governorVars => GovernorTypeOK'
  BY CallTypes DEF GovernorTypeOK, governorVars
<1>3. QED BY <1>1, <1>2, PTL DEF GovernorSpec

(* Whatever capacity is set under the reservations in force, reserve only  *)
(* ever takes the total to within the budget that then holds.              *)
THEOREM GrowthWithinBudget == GovernorSpec => GrowthStaysWithinBudget
<1>1. GovernorTypeOK /\ [GovernorNext]_governorVars => [reserved' > reserved => reserved' <= Budget']_governorVars
  <2> SUFFICES ASSUME GovernorTypeOK, GovernorNext, reserved' > reserved PROVE reserved' <= Budget'
    OBVIOUS
  <2>1. reserved \in Nat /\ max \in Nat /\ Headroom \in Nat
    BY GovernorAssumption DEF GovernorTypeOK
  <2>2. ASSUME NEW i \in Id, NEW b \in Sizes, NEW k \in Kind, Reserve(i, b, k)
        PROVE  reserved' <= Budget'
    <3>1. b \in Nat /\ reserved' = reserved + b /\ max' = max
      BY <2>2, GovernorAssumption DEF Reserve
    <3>2. b # 0
      BY <2>1, <3>1
    <3>3. Budget \in Nat /\ Budget - reserved >= b /\ Budget' = Budget
      BY <2>1, <2>2, <3>1, <3>2 DEF Reserve, Budget
    <3>4. QED BY <2>1, <3>1, <3>3
  <2>3. ASSUME NEW i \in Id, Release(i)
        PROVE  ~(reserved' > reserved)
    <3>1. bytes[i] \in Nat
      BY DEF GovernorTypeOK
    <3>2. QED BY <2>1, <2>3, <3>1 DEF Release
  <2>4. ASSUME NEW i \in Id, NEW k \in Kind, Transition(i, k)
        PROVE  ~(reserved' > reserved)
    BY <2>1, <2>4 DEF Transition
  <2>5. ASSUME NEW c \in Capacities, SetCapacity(c)
        PROVE  ~(reserved' > reserved)
    BY <2>1, <2>5 DEF SetCapacity
  <2>6. QED BY <2>2, <2>3, <2>4, <2>5 DEF GovernorNext
<1>2. QED BY <1>1, GovernorTypeCorrect, PTL DEF GovernorSpec, GrowthStaysWithinBudget

-----------------------------------------------------------------------------
(* The total and the records.  Only finitely many ids were ever reserved,  *)
(* so that the sum over the active ones has a value.                       *)
LedgerInv == GovernorTypeOK /\ IsFiniteSet(active) /\ ReservedIsSumOfActive

(* reserve adds a record that the sum did not have.                        *)
LEMMA ReserveKeepsSum ==
  ASSUME LedgerInv, NEW i \in Id, NEW b \in Sizes, NEW k \in Kind, Reserve(i, b, k)
  PROVE  IsFiniteSet(active') /\ ReservedIsSumOfActive'
<1>1. /\ bytes \in [Id -> Nat] /\ active \subseteq Id /\ IsFiniteSet(active) /\ b \in Nat
      /\ i \notin active /\ active' = active \cup {i} /\ bytes' = [bytes EXCEPT ![i] = b]
      /\ reserved' = reserved + b /\ underflowed' = underflowed
  BY GovernorAssumption DEF LedgerInv, GovernorTypeOK, Reserve
<1>2. /\ \A j \in active : bytes[j] \in Int /\ bytes'[j] = bytes[j]
      /\ \A j \in active : bytes'[j] \in Int
      /\ bytes'[i] = b /\ bytes'[i] \in Int
  BY <1>1
<1>3. SumFunctionOnSet(bytes', active) = SumFunctionOnSet(bytes, active)
  BY <1>1, <1>2, SumSame
<1>4. SumFunctionOnSet(bytes', active \cup {i}) = bytes'[i] + SumFunctionOnSet(bytes', active)
  BY <1>1, <1>2, SumAdd
<1>5. SumFunctionOnSet(bytes, active) = reserved /\ reserved \in Nat /\ ~underflowed
  BY DEF LedgerInv, GovernorTypeOK, ReservedIsSumOfActive
<1>6. SumFunctionOnSet(bytes', active') = reserved'
  BY <1>1, <1>2, <1>3, <1>4, <1>5
<1>7. QED
  BY <1>1, <1>5, <1>6, FS_AddElement DEF ReservedIsSumOfActive

(* release subtracts what the sum had for the record, which the total      *)
(* therefore covers.                                                       *)
LEMMA ReleaseKeepsSum ==
  ASSUME LedgerInv, NEW i \in Id, Release(i)
  PROVE  IsFiniteSet(active') /\ ReservedIsSumOfActive'
<1> DEFINE left == SumFunctionOnSet(bytes, active \ {i})
<1>1. /\ bytes \in [Id -> Nat] /\ active \subseteq Id /\ IsFiniteSet(active)
      /\ i \in active /\ active' = active \ {i} /\ bytes' = [bytes EXCEPT ![i] = 0]
      /\ reserved' = (IF reserved < bytes[i] THEN 0 ELSE reserved - bytes[i])
      /\ underflowed' = (underflowed \/ (bytes[i] > 0 /\ reserved < bytes[i]))
  BY DEF LedgerInv, GovernorTypeOK, Release
<1>2. /\ IsFiniteSet(active \ {i})
      /\ \A j \in active \ {i} : bytes[j] \in Nat /\ bytes'[j] = bytes[j]
  BY <1>1, FS_RemoveElement
<1>3. SumFunctionOnSet(bytes', active \ {i}) = left
  BY <1>2, SumSame
<1>4. SumFunctionOnSet(bytes, active) = bytes[i] + left /\ left \in Nat /\ bytes[i] \in Nat
  BY <1>1, <1>2, SumRemove, SumNat
<1> HIDE DEF left
<1>5. SumFunctionOnSet(bytes, active) = reserved /\ reserved \in Nat /\ ~underflowed
  BY DEF LedgerInv, GovernorTypeOK, ReservedIsSumOfActive
<1>6. reserved = bytes[i] + left
  BY <1>4, <1>5
<1>7. reserved' = left /\ ~(reserved < bytes[i])
  BY <1>1, <1>4, <1>5, <1>6
<1>8. ~underflowed'
  BY <1>1, <1>5, <1>7, Zenon
<1>9. QED
  BY <1>1, <1>2, <1>3, <1>7, <1>8 DEF ReservedIsSumOfActive

(* However reserves, repeated releases and capacity changes follow one     *)
(* another, reserved_ is exactly what the active records hold, and release *)
(* never meets the underflow it guards against.                            *)
THEOREM LedgerBalances == GovernorSpec => []ReservedIsSumOfActive
<1>1. GovernorInit => IsFiniteSet(active) /\ ReservedIsSumOfActive
  <2>1. GovernorInit => reserved = 0 /\ active = {} /\ ~underflowed
    BY Zenon DEF GovernorInit
  <2>2. QED BY <2>1, SumEmpty, FS_EmptySet DEF ReservedIsSumOfActive
<1>2. GovernorTypeOK /\ GovernorTypeOK' /\ IsFiniteSet(active) /\ ReservedIsSumOfActive /\ [GovernorNext]_governorVars
        => (IsFiniteSet(active) /\ ReservedIsSumOfActive)'
  <2> SUFFICES ASSUME LedgerInv, [GovernorNext]_governorVars PROVE (IsFiniteSet(active) /\ ReservedIsSumOfActive)'
    BY DEF LedgerInv
  <2>1. ASSUME NEW i \in Id, NEW k \in Kind, Transition(i, k)
        PROVE  (IsFiniteSet(active) /\ ReservedIsSumOfActive)'
    BY <2>1 DEF Transition, LedgerInv, ReservedIsSumOfActive
  <2>2. ASSUME NEW c \in Capacities, SetCapacity(c)
        PROVE  (IsFiniteSet(active) /\ ReservedIsSumOfActive)'
    BY <2>2 DEF SetCapacity, LedgerInv, ReservedIsSumOfActive
  <2>3. CASE UNCHANGED governorVars
    BY <2>3 DEF governorVars, LedgerInv, ReservedIsSumOfActive
  <2>4. QED
    BY <2>1, <2>2, <2>3, ReserveKeepsSum, ReleaseKeepsSum DEF GovernorNext
<1>3. QED
  BY <1>1, <1>2, GovernorTypeCorrect, PTL DEF GovernorSpec
=============================================================================
