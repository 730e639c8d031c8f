------------------------- MODULE SchedulerLifeProofs -------------------------
(***************************************************************************)
(* What becomes of a request, for every instance: that its end is final    *)
(* and a cancellation kept, that each step of the scheduler is a step of   *)
(* its life in RequestLife or none, and that its tokens are counted.       *)
(***************************************************************************)
EXTENDS SchedulerLife, SchedulerProofs

(* Zenon takes the steps; one that needs arithmetic names SMT.             *)
USE ZenonT(60)

-----------------------------------------------------------------------------
(* Ends and cancellations.                                                 *)

(* A step leaves a request alone when it only touches live requests, or    *)
(* requests that were never submitted.                                     *)
Untouched(r) ==
  /\ rs'[r].lifecycle = rs[r].lifecycle /\ rs'[r].attempt = rs[r].attempt
  /\ rs'[r].completed = rs[r].completed

LEMMA TerminalStep ==
  ASSUME IInv, [Next]_vars, NEW r \in Request, rs[r].lifecycle \in Terminal
  PROVE  Untouched(r)
<1>1. rs \in [Request -> RsType] /\ rs[r] \in RsType /\ Known(r) /\ ~Live(r)
  BY DEF IInv, TypeOK, Terminal, Known, Live
<1>2. ASSUME NEW q \in Request, NEW s, rs' = [rs EXCEPT ![q] = s], q # r
      PROVE  rs'[r] = rs[r]
  BY <1>1, <1>2
<1>3. ASSUME NEW q \in Request, Submit(q) \/ Cancel(q) \/ ForceRetry(q)
      PROVE  rs'[r] = rs[r]
  <2>1. q # r
    BY <1>1, <1>3 DEF Submit, Cancel, ForceRetry
  <2>2. QED BY <1>1, <1>2, <1>3, <2>1 DEF Submit, Cancel, ForceRetry
<1>4. ASSUME NEW d \in issued, ReportCompletion(d) \/ CancelGeneration(d)
      PROVE  rs'[r] = rs[r]
  <2>1. d.req \in Request /\ d.req # r
    BY <1>1, <1>4 DEF ReportCompletion, Authoritative, CancelGeneration, IInv, TypeOK, DispatchType
  <2>2. \E s : rs' = [rs EXCEPT ![d.req] = s]
    BY <1>4 DEF CancelGeneration, ReportCompletion, Report, ReportStaleRejected, ReportRetryable,
                ReportNonRetryable, ReportCancelled, ReportExpired, ReportSuccess, Finish
  <2>3. QED BY <1>2, <2>1, <2>2
<1>5. ASSUME NEW w \in Worker, WorkerLost(w)
      PROVE  rs'[r] = rs[r]
  BY <1>1, <1>5 DEF WorkerLost, Live
<1>6. CASE RunCycle
  <2>1. PICK sent, lead, host, gen : Cycle(sent, lead, host, gen)
    BY <1>6, CycleFacts
  <2>2. r \notin Candidates /\ r \notin Expiring
    BY <1>1 DEF Candidates, Expiring, Overdue, Live
  <2>3. rs'[r] = Age(rs[r])
    BY <2>1, <2>2 DEF Cycle, Assigned, Treated
  <2>4. QED BY <1>1, <2>3 DEF Untouched, Age, RsType
<1>7. CASE \/ \E w \in Worker : UnregisterWorker(w)
           \/ \E w \in Worker, boot \in 1 .. MaxRegistrations : RegisterWorker(w, boot)
           \/ AttachExecutor \/ RollEpoch \/ Tick
  BY <1>7 DEF Untouched, UnregisterWorker, RegisterWorker, AttachExecutor, RollEpoch, Tick
<1>8. CASE UNCHANGED vars
  BY <1>8 DEF vars, Untouched
<1>9. QED BY <1>3, <1>4, <1>5, <1>6, <1>7, <1>8 DEF Next, Untouched

(* A request that ended stays as it ended: no late report, retry, cancel,  *)
(* worker loss or sweep revives it or changes its result.                  *)
THEOREM EndedStaysEnded == Spec => TerminalIsFinal
<1>1. IInv /\ [Next]_vars =>
        [\A r \in Request : rs[r].lifecycle \in Terminal =>
           /\ rs'[r].lifecycle = rs[r].lifecycle
           /\ rs'[r].attempt = rs[r].attempt /\ rs'[r].completed = rs[r].completed]_vars
  BY TerminalStep DEF Untouched
<1>2. QED BY <1>1, Invariance, PTL DEF Spec, TerminalIsFinal

(* A cancellation that was accepted for a request in flight outlives the   *)
(* attempt.                                                                *)
Heeds(s) ==
  \/ s.lifecycle \in {"queued", "dispatched"} /\ s.cancelPending
  \/ s.lifecycle \in Terminal \ {"completed"}

LEMMA ReportHeedsCancel ==
  ASSUME IInv, NEW d \in issued, ReportCompletion(d), Live(d.req), rs[d.req].cancelPending
  PROVE  Heeds(rs'[d.req])
<1> DEFINE r == d.req
           c == Counted(r)
<1>1. PICK m \in Reports(d) : Authoritative(d, m)
  BY DEF ReportCompletion
<1>2. /\ r \in Request /\ rs[r] \in RsType /\ rs[r].lifecycle = "dispatched"
      /\ Pending(r, rs[r].chunk) /\ rs \in [Request -> RsType]
  BY <1>1, AuthoritativeFacts DEF IInv, TypeOK
<1>3. c \in RsType /\ c.lifecycle = "dispatched" /\ c.cancelPending
  BY <1>2, CountedFacts
<1> HIDE DEF c
<1>4. ASSUME NEW outcome, NEW s \in RsType, Finish(d, outcome, s), Heeds(s)
      PROVE  Heeds(rs'[r])
  <2> DEFINE u == ReleaseReservation(s)
             t == [u EXCEPT !.group = 0]
  <2>1. u \in RsType /\ u.lifecycle = s.lifecycle /\ u.cancelPending = s.cancelPending
    BY ReleaseFacts
  <2>2. rs' = [rs EXCEPT ![r] = t]
    BY <1>4 DEF Finish
  <2> HIDE DEF u
  <2>3. t.lifecycle = u.lifecycle /\ t.cancelPending = u.cancelPending
    BY ONLY <2>1, ZenonT(60) DEF RsType
  <2> HIDE DEF t
  <2>4. rs'[r] = t
    BY <1>2, <2>2
  <2>5. QED BY <1>4, <2>1, <2>3, <2>4 DEF Heeds
<1>5. ASSUME NEW outcome, NEW l \in Terminal \ {"completed"},
             \/ Finish(d, outcome, [c EXCEPT !.lifecycle = l])
             \/ Finish(d, outcome, [c EXCEPT !.lifecycle = l, !.cancelPending = FALSE])
      PROVE  Heeds(rs'[r])
  <2>1. /\ [c EXCEPT !.lifecycle = l] \in RsType
        /\ [c EXCEPT !.lifecycle = l, !.cancelPending = FALSE] \in RsType
        /\ [c EXCEPT !.lifecycle = l].lifecycle = l
        /\ [c EXCEPT !.lifecycle = l, !.cancelPending = FALSE].lifecycle = l
    BY <1>3, EndFacts
  <2>2. Heeds([c EXCEPT !.lifecycle = l]) /\ Heeds([c EXCEPT !.lifecycle = l, !.cancelPending = FALSE])
    BY <2>1 DEF Heeds
  <2>3. QED BY <1>4, <1>5, <2>1, <2>2
<1>6. {"failed_non_retryable", "cancelled", "expired"} \subseteq Terminal \ {"completed"}
  BY DEF Terminal
<1>7. CASE ReportStaleRejected(d)
  <2>1. Finish(d, "stale_rejected", c) /\ Heeds(c)
    BY <1>3, <1>7 DEF ReportStaleRejected, Heeds, c
  <2>2. QED BY <1>3, <1>4, <2>1
<1>8. CASE ReportRetryable(d)
  <2>1. CASE Finish(d, "retryable_failure", Restart(c))
    <3>1. Restart(c) \in RsType /\ Heeds(Restart(c))
      BY <1>3, RestartFacts DEF Heeds
    <3>2. QED BY <1>4, <2>1, <3>1
  <2>2. CASE Finish(d, "retryable_failure", [c EXCEPT !.lifecycle = "failed_non_retryable"])
    BY <1>5, <1>6, <2>2
  <2>3. QED BY <1>8, <2>1, <2>2 DEF ReportRetryable, c
<1>9. CASE ReportNonRetryable(d)
  BY <1>5, <1>6, <1>9 DEF ReportNonRetryable, c
<1>10. CASE ReportCancelled(d)
  BY <1>5, <1>6, <1>10 DEF ReportCancelled, c
<1>11. CASE ReportExpired(d)
  BY <1>5, <1>6, <1>11 DEF ReportExpired, c
<1>12. CASE ReportSuccess(d)
  <2>1. AfterSuccess(r) \in RsType /\ AfterSuccess(r).lifecycle = "cancelled"
    BY <1>2, AfterSuccessFacts
  <2>2. Heeds(AfterSuccess(r))
    BY <1>6, <2>1 DEF Heeds
  <2>3. QED BY <1>4, <1>12, <2>1, <2>2 DEF ReportSuccess
<1>13. QED BY <1>7, <1>8, <1>9, <1>10, <1>11, <1>12 DEF ReportCompletion, Report

LEMMA CancelKeptStep ==
  ASSUME IInv, [Next]_vars, NEW r \in Request, Live(r), rs[r].cancelPending
  PROVE  Heeds(rs'[r])
<1>1. rs \in [Request -> RsType] /\ rs[r] \in RsType /\ Known(r) /\ Heeds(rs[r])
  BY DEF IInv, TypeOK, Known, Live, Heeds
<1>2. ASSUME NEW q \in Request, NEW s, rs' = [rs EXCEPT ![q] = s], q # r
      PROVE  Heeds(rs'[r])
  BY <1>1, <1>2
<1>3. ASSUME NEW q \in Request, Submit(q)
      PROVE  Heeds(rs'[r])
  <2>1. q # r
    BY <1>1, <1>3 DEF Submit
  <2>2. QED BY <1>2, <1>3, <2>1 DEF Submit
<1>4. ASSUME NEW q \in Request, Cancel(q) \/ ForceRetry(q), q # r
      PROVE  Heeds(rs'[r])
  BY <1>2, <1>4 DEF Cancel, ForceRetry
<1>5. CASE Cancel(r)
  <2>1. CASE rs' = [rs EXCEPT ![r].cancelPending = TRUE]
    BY <1>1, <2>1 DEF Heeds, Live, RsType
  <2>2. CASE rs' = [rs EXCEPT ![r] = [ReleaseReservation(@) EXCEPT !.lifecycle = "cancelled", !.group = 0]]
    <3> DEFINE u == ReleaseReservation(rs[r])
    <3>1. u \in RsType
      BY <1>1, ReleaseFacts
    <3>2. rs'[r] = [u EXCEPT !.lifecycle = "cancelled", !.group = 0]
      BY <1>1, <2>2
    <3> HIDE DEF u
    <3>3. rs'[r].lifecycle = "cancelled"
      BY <3>1, <3>2 DEF RsType
    <3>4. QED BY <3>3 DEF Heeds, Terminal
  <2>3. QED BY <1>5, <2>1, <2>2 DEF Cancel
<1>6. CASE ForceRetry(r)
  <2> DEFINE a == Abandon(rs[r])
  <2>1. a \in RsType /\ a.lifecycle = rs[r].lifecycle /\ a.cancelPending = rs[r].cancelPending
    BY AbandonFacts
  <2>2. rs'[r] = Restart(a) \/ rs'[r] = a
    BY <1>1, <1>6 DEF ForceRetry
  <2> HIDE DEF a
  <2>3. Heeds(a)
    BY <2>1 DEF Heeds, Live
  <2>4. Restart(a).lifecycle = "queued" /\ Restart(a).cancelPending = a.cancelPending
    BY <2>1, RestartFacts
  <2>5. QED BY <2>1, <2>2, <2>3, <2>4 DEF Heeds
<1>7. ASSUME NEW d \in issued, ReportCompletion(d) \/ CancelGeneration(d)
      PROVE  Heeds(rs'[r])
  <2>1. d.req \in Request
    BY DEF IInv, TypeOK, DispatchType
  <2>2. CASE d.req # r
    <3>1. \E s : rs' = [rs EXCEPT ![d.req] = s]
      BY <1>7 DEF CancelGeneration, ReportCompletion, Report, ReportStaleRejected, ReportRetryable,
                  ReportNonRetryable, ReportCancelled, ReportExpired, ReportSuccess, Finish
    <3>2. QED BY <1>2, <2>1, <2>2, <3>1
  <2>3. CASE d.req = r /\ CancelGeneration(d)
    BY <1>1, <2>3 DEF CancelGeneration, Heeds, Live, RsType
  <2>4. CASE d.req = r /\ ReportCompletion(d)
    BY <2>4, ReportHeedsCancel
  <2>5. QED BY <1>7, <2>2, <2>3, <2>4
<1>8. ASSUME NEW w \in Worker, WorkerLost(w)
      PROVE  Heeds(rs'[r])
  <2>1. rs'[r] = rs[r] \/ rs'[r] = Recovered(rs[r])
    BY <1>8 DEF WorkerLost
  <2>2. Recovered(rs[r]).lifecycle = "queued" /\ Recovered(rs[r]).cancelPending = rs[r].cancelPending
    BY <1>1, RecoveredFacts
  <2>3. QED BY <1>1, <2>1, <2>2 DEF Heeds
<1>9. CASE RunCycle
  <2>1. PICK sent, lead, host, gen : Cycle(sent, lead, host, gen)
    BY <1>9, CycleFacts
  <2>2. \/ Sent(r, gen[r], gen[lead[r]], host[lead[r]])
        \/ rs'[r].lifecycle = "expired"
        \/ Kept(r)
    BY <2>1, CycleRequests
  <2>3. QED BY <1>1, <2>2 DEF Heeds, Sent, Kept, Terminal
<1>10. CASE \/ \E w \in Worker : UnregisterWorker(w)
            \/ \E w \in Worker, boot \in 1 .. MaxRegistrations : RegisterWorker(w, boot)
            \/ AttachExecutor \/ RollEpoch \/ Tick
  BY <1>1, <1>10 DEF UnregisterWorker, RegisterWorker, AttachExecutor, RollEpoch, Tick
<1>11. CASE UNCHANGED vars
  BY <1>1, <1>11 DEF vars
<1>12. QED BY <1>3, <1>4, <1>5, <1>6, <1>7, <1>8, <1>9, <1>10, <1>11 DEF Next

(* A cancellation accepted while a request is in flight is never lost: it  *)
(* survives retries and worker losses, and the request never completes.    *)
THEOREM CancellationKept == Spec => CancelIsKept
<1>1. IInv /\ [Next]_vars =>
        [\A r \in Request : Live(r) /\ rs[r].cancelPending =>
           \/ rs'[r].lifecycle \in {"queued", "dispatched"} /\ rs'[r].cancelPending
           \/ rs'[r].lifecycle \in Terminal \ {"completed"}]_vars
  BY CancelKeptStep DEF Heeds
<1>2. QED BY <1>1, Invariance, PTL DEF Spec, CancelIsKept

-----------------------------------------------------------------------------
(* How many chunks there are.                                              *)

LEMMA TimesMonotone ==
  ASSUME NEW a \in Nat, NEW b \in Nat, NEW s \in Nat, a <= b
  PROVE  a * s <= b * s
<1>1. (b - a) * s \in Nat
  BY TimesType, SMTT(20)
<1>2. b * s = a * s + (b - a) * s
  BY SMTT(20)
<1>3. a * s \in Nat /\ b * s \in Nat
  BY TimesType
<1>4. QED BY <1>1, <1>2, <1>3, SMTT(20)

(* Before a chunk of the plan there are all the chunks with a lower index. *)
LEMMA PendingBelow ==
  ASSUME NEW r \in Request, NEW c \in Nat, Pending(r, c)
  PROVE  /\ \A i \in 0 .. c : Pending(r, i)
         /\ c < Uncached(r)
<1>1. Size(r) \in Nat /\ Uncached(r) \in Nat
  BY SizeType, DescriptorFacts
<1>2. c * Size(r) \in Nat /\ c * Size(r) < Uncached(r)
  BY <1>1, TimesType DEF Pending, HasChunk, Uncached
<1>3. ASSUME NEW i \in 0 .. c
      PROVE  Pending(r, i)
  <2>1. i * Size(r) \in Nat /\ i * Size(r) <= c * Size(r)
    BY <1>1, TimesMonotone, TimesType, SMTT(20)
  <2>2. QED BY <1>1, <1>2, <2>1, SMTT(20) DEF Pending, HasChunk, Uncached
<1>4. c < Uncached(r)
  <2>1. Size(r) >= 1
    BY <1>1, <1>2, SizeType, SMTT(20)
  <2>2. c * 1 <= c * Size(r)
    <3>1. 1 * c <= Size(r) * c
      BY <1>1, <2>1, TimesMonotone
    <3>2. 1 * c = c * 1 /\ Size(r) * c = c * Size(r)
      BY <1>1, SMTT(20)
    <3>3. QED BY <3>1, <3>2
  <2>3. c * 1 = c
    BY SMTT(20)
  <2>4. QED BY <1>1, <1>2, <2>2, <2>3, SMTT(20)
<1>5. QED BY <1>3, <1>4

LEMMA CountOfChunks ==
  ASSUME NEW r \in Request
  PROVE  /\ Uncached(r) = 0 <=> ChunkCount(r) = 0
         /\ \A c \in Nat : Pending(r, c) /\ ~Pending(r, c + 1) => ChunkCount(r) = c + 1
         /\ \A c \in Nat : Pending(r, c + 1) => ChunkCount(r) # c + 1
<1> DEFINE U == Uncached(r)
           S == {i \in 0 .. U : Pending(r, i)}
<1>1. U \in Nat /\ Size(r) \in Nat
  BY DescriptorFacts, SizeType
<1>2. IsFiniteSet(S) /\ ChunkCount(r) = Cardinality(S)
  <2>1. IsFiniteSet(0 .. U)
    BY <1>1, FS_Interval, SMTT(20)
  <2>2. QED BY <2>1, FS_Subset DEF ChunkCount
<1>3. ASSUME NEW c \in Nat, Pending(r, c)
      PROVE  0 .. c \subseteq S
  BY <1>1, <1>3, PendingBelow, SMTT(20)
<1>4. ASSUME NEW c \in Nat, ~Pending(r, c)
      PROVE  S \subseteq 0 .. (c - 1)
  <2>1. ASSUME NEW i \in S, ~(i < c)
        PROVE  FALSE
    BY <1>1, <1>4, <2>1, PendingBelow, SMTT(20)
  <2>2. QED BY <1>1, <2>1, SMTT(20)
<1>5. Uncached(r) = 0 <=> ChunkCount(r) = 0
  <2>1. Pending(r, 0) <=> U > 0
    <3>1. 0 * Size(r) = 0
      BY <1>1, SMTT(20)
    <3>2. QED BY <1>1, <3>1 DEF Pending, HasChunk, Uncached
  <2>2. S = {} <=> ~Pending(r, 0)
    <3>1. CASE Pending(r, 0)
      BY <1>1, <3>1, SMTT(20)
    <3>2. CASE ~Pending(r, 0)
      BY <1>4, <3>2, SMTT(20)
    <3>3. QED BY <3>1, <3>2
  <2> HIDE DEF S
  <2>3. QED BY <1>1, <1>2, <2>1, <2>2, FS_EmptySet, SMTT(20)
<1> HIDE DEF S
<1>6. ASSUME NEW c \in Nat, Pending(r, c), ~Pending(r, c + 1)
      PROVE  ChunkCount(r) = c + 1
  <2>1. S \subseteq 0 .. ((c + 1) - 1) /\ 0 .. c \subseteq S
    BY <1>3, <1>4, <1>6, SMTT(20)
  <2>2. S = 0 .. c
    <3>1. (c + 1) - 1 = c
      BY SMTT(20)
    <3>2. QED BY <2>1, <3>1
  <2>3. QED BY <1>2, <2>2, FS_Interval, SMTT(20)
<1>7. ASSUME NEW c \in Nat, Pending(r, c + 1)
      PROVE  ChunkCount(r) # c + 1
  <2>1. 0 .. (c + 1) \subseteq S
    BY <1>3, <1>7, SMTT(20)
  <2>2. Cardinality(0 .. (c + 1)) <= Cardinality(S)
    BY <1>2, <2>1, FS_Subset
  <2>3. Cardinality(0 .. (c + 1)) = c + 2
    BY FS_Interval, SMTT(20)
  <2>4. QED BY <1>2, <2>2, <2>3, SMTT(20)
<1>8. QED BY <1>5, <1>6, <1>7

-----------------------------------------------------------------------------
(* What a step may do to the record of a request, in the fields that its   *)
(* life is made of: one relation for each action of RequestLife.           *)

(* A dispatch of the chunk was executed, and applied as a success.         *)
Credited(I, r, attempt, i) ==
  \E d \in I : /\ d.req = r /\ d.attempt = attempt /\ d.chunk = i
               /\ d.credits = 1 /\ d.outcome = "success"

InLife(s) == s.lifecycle \in {"queued", "dispatched"}

SameProgress(s, t) == t.chunk = s.chunk /\ t.retries = s.retries /\ t.attempt = s.attempt

Still(s, t) ==
  /\ t.lifecycle = s.lifecycle \/ (InLife(s) /\ InLife(t))
  /\ SameProgress(s, t) /\ t.cancelPending = s.cancelPending

Admitted(r, s, t) ==
  /\ s.lifecycle = "absent"
  /\ t.lifecycle = (IF Uncached(r) = 0 THEN "completed" ELSE "queued")
  /\ t.chunk = 0 /\ t.retries = 0 /\ t.cancelPending = FALSE

Applied(r, s, t) ==
  /\ InLife(s) /\ s.cancelPending = FALSE
  /\ t.cancelPending = FALSE /\ t.retries = s.retries /\ t.attempt = s.attempt
  /\ Credited(issued', r, s.attempt, s.chunk)
  /\ \/ t.lifecycle = "queued" /\ t.chunk = s.chunk + 1 /\ Pending(r, s.chunk + 1)
     \/ /\ t.lifecycle = "completed" /\ t.chunk = s.chunk
        /\ Pending(r, s.chunk) /\ ~Pending(r, s.chunk + 1)

Retried(r, s, t) ==
  /\ InLife(s) /\ s.retries < Descriptor[r].maxRetries
  /\ t.lifecycle = "queued" /\ t.chunk = 0 /\ t.retries = s.retries + 1
  /\ t.cancelPending = s.cancelPending

Marked(s, t) ==
  InLife(s) /\ InLife(t) /\ SameProgress(s, t) /\ t.cancelPending = TRUE

Ended(s, t) ==
  /\ InLife(s) /\ t.lifecycle \in {"cancelled", "expired", "failed_non_retryable"}
  /\ SameProgress(s, t)

Lives(r, s, t) ==
  \/ Still(s, t) \/ Admitted(r, s, t) \/ Applied(r, s, t) \/ Retried(r, s, t)
  \/ Marked(s, t) \/ Ended(s, t)

(* The record keeps the fields of its life.                                *)
Alike(s, t) == t.lifecycle = s.lifecycle /\ SameProgress(s, t) /\ t.cancelPending = s.cancelPending

(* Changes of other fields after a step do not matter.                     *)
LEMMA LivesAlike ==
  ASSUME NEW r, NEW s, NEW t, NEW u, Lives(r, s, t), Alike(t, u)
  PROVE  Lives(r, s, u)
<1>1. /\ u.lifecycle = t.lifecycle /\ u.chunk = t.chunk /\ u.retries = t.retries
      /\ u.cancelPending = t.cancelPending /\ u.attempt = t.attempt
  BY DEF Alike, SameProgress
<1>2. CASE Still(s, t)
  BY <1>1, <1>2 DEF Lives, Still, InLife, SameProgress
<1>3. CASE Admitted(r, s, t)
  BY <1>1, <1>3 DEF Lives, Admitted
<1>4. CASE Applied(r, s, t)
  BY <1>1, <1>4 DEF Lives, Applied
<1>5. CASE Retried(r, s, t)
  BY <1>1, <1>5 DEF Lives, Retried
<1>6. CASE Marked(s, t)
  BY <1>1, <1>6 DEF Lives, Marked, InLife, SameProgress
<1>7. CASE Ended(s, t)
  BY <1>1, <1>7 DEF Lives, Ended, SameProgress
<1>8. QED BY <1>2, <1>3, <1>4, <1>5, <1>6, <1>7 DEF Lives

LEMMA AlikeFacts ==
  ASSUME NEW s \in RsType
  PROVE  /\ Alike(s, s) /\ Alike(s, ReleaseReservation(s)) /\ Alike(s, Age(s))
         /\ Alike(s, Abandon(s)) /\ Alike(s, [ReleaseReservation(s) EXCEPT !.group = 0])
<1>1. Alike(s, s)
  BY DEF Alike, SameProgress
<1>2. Alike(s, ReleaseReservation(s)) /\ ReleaseReservation(s) \in RsType
  BY ReleaseFacts DEF Alike, SameProgress
<1>3. Alike(s, Age(s))
  BY DEF Age, RsType, Alike, SameProgress
<1>4. ASSUME NEW u \in RsType, Alike(s, u)
      PROVE  Alike(s, [u EXCEPT !.group = 0]) /\ Alike(s, [u EXCEPT !.inFlight = FALSE, !.group = 0])
  BY <1>4 DEF RsType, Alike, SameProgress
<1>5. Alike(s, Abandon(s))
  BY <1>1, <1>2, <1>4 DEF Abandon
<1>6. QED BY <1>1, <1>2, <1>3, <1>4, <1>5

LEMMA RestartLives ==
  ASSUME IInv, NEW r \in Request, NEW s \in RsType, Alike(rs[r], s), Live(r),
         s.retries < Descriptor[r].maxRetries
  PROVE  Lives(r, rs[r], Restart(s))
<1>1. /\ Restart(s).lifecycle = "queued" /\ Restart(s).chunk = 0
      /\ Restart(s).retries = s.retries + 1 /\ Restart(s).cancelPending = s.cancelPending
  BY DEF Restart, RsType
<1>2. QED BY <1>1 DEF Lives, Retried, Alike, SameProgress, Live, InLife

-----------------------------------------------------------------------------
(* Every step is a step of each request's life.                            *)

LEMMA EndLives ==
  ASSUME NEW r \in Request, NEW s \in RsType, Alike(rs[r], s), Live(r),
         NEW l \in {"cancelled", "expired", "failed_non_retryable"}
  PROVE  /\ Lives(r, rs[r], [s EXCEPT !.lifecycle = l])
         /\ Lives(r, rs[r], [s EXCEPT !.lifecycle = l, !.cancelPending = FALSE])
<1> DEFINE t == [s EXCEPT !.lifecycle = l]
           u == [s EXCEPT !.lifecycle = l, !.cancelPending = FALSE]
<1>1. /\ t.lifecycle = l /\ t.chunk = s.chunk /\ t.retries = s.retries /\ t.attempt = s.attempt
      /\ u.lifecycle = l /\ u.chunk = s.chunk /\ u.retries = s.retries /\ u.attempt = s.attempt
  BY DEF RsType
<1> HIDE DEF t, u
<1>2. Ended(rs[r], t) /\ Ended(rs[r], u)
  BY <1>1 DEF Ended, Alike, SameProgress, Live, InLife
<1>3. QED BY <1>2 DEF Lives, t, u

LEMMA SuccessLives ==
  ASSUME NEW r \in Request, rs[r] \in RsType, Pending(r, rs[r].chunk), Live(r),
         Counted(r) \in RsType, Alike(rs[r], Counted(r)), Credited(issued', r, rs[r].attempt, rs[r].chunk)
  PROVE  Lives(r, rs[r], AfterSuccess(r))
<1> DEFINE c == Counted(r)
<1>1. AfterSuccess(r) = IF c.cancelPending THEN [c EXCEPT !.lifecycle = "cancelled", !.cancelPending = FALSE]
                        ELSE IF Pending(r, c.chunk + 1) THEN [c EXCEPT !.lifecycle = "queued", !.chunk = @ + 1]
                        ELSE [c EXCEPT !.lifecycle = "completed"]
  BY DEF AfterSuccess
<1>2. c \in RsType /\ Alike(rs[r], c)
  OBVIOUS
<1> HIDE DEF c
<1>3. c.cancelPending = rs[r].cancelPending /\ c.chunk = rs[r].chunk /\ c.retries = rs[r].retries
      /\ c.attempt = rs[r].attempt /\ InLife(rs[r]) /\ c.cancelPending \in BOOLEAN
  BY <1>2 DEF Alike, SameProgress, Live, InLife, RsType
<1>4. CASE c.cancelPending
  BY <1>1, <1>2, <1>4, EndLives
<1>5. CASE ~c.cancelPending /\ Pending(r, c.chunk + 1)
  <2> DEFINE t == [c EXCEPT !.lifecycle = "queued", !.chunk = @ + 1]
  <2>1. /\ t.lifecycle = "queued" /\ t.chunk = c.chunk + 1 /\ t.retries = c.retries
        /\ t.cancelPending = c.cancelPending /\ t.attempt = c.attempt
    BY <1>2 DEF RsType
  <2> HIDE DEF t
  <2>2. Applied(r, rs[r], t)
    BY <1>3, <1>5, <2>1 DEF Applied
  <2>3. AfterSuccess(r) = t
    BY <1>1, <1>5 DEF t
  <2>4. QED BY <2>2, <2>3 DEF Lives
<1>6. CASE ~c.cancelPending /\ ~Pending(r, c.chunk + 1)
  <2> DEFINE t == [c EXCEPT !.lifecycle = "completed"]
  <2>1. /\ t.lifecycle = "completed" /\ t.retries = c.retries /\ t.cancelPending = c.cancelPending
        /\ t.attempt = c.attempt /\ t.chunk = c.chunk
    BY <1>2 DEF RsType
  <2> HIDE DEF t
  <2>2. Applied(r, rs[r], t)
    BY <1>3, <1>6, <2>1 DEF Applied
  <2>3. AfterSuccess(r) = t
    BY <1>1, <1>6 DEF t
  <2>4. QED BY <2>2, <2>3 DEF Lives
<1>7. QED BY <1>4, <1>5, <1>6

LEMMA SuccessCredited ==
  ASSUME IInv, NEW d \in issued, NEW m \in Reports(d), Authoritative(d, m), ReportSuccess(d)
  PROVE  Credited(issued', d.req, rs[d.req].attempt, rs[d.req].chunk)
<1> DEFINE c == [d EXCEPT !.credits = @ + 1, !.outcome = "success"]
<1>1. d.attempt = rs[d.req].attempt /\ d.chunk = rs[d.req].chunk /\ d.credits = 0
  BY AuthoritativeFacts
<1>2. d \in DispatchType
  BY DEF IInv, TypeOK
<1>3. /\ c.req = d.req /\ c.attempt = d.attempt /\ c.chunk = d.chunk
      /\ c.credits = d.credits + 1 /\ c.outcome = "success"
  BY ONLY <1>2, ZenonT(60) DEF DispatchType
<1>4. c \in issued'
  BY DEF ReportSuccess, Finish
<1> HIDE DEF c
<1>5. QED BY <1>1, <1>3, <1>4, SMTT(20) DEF Credited

LEMMA ReportLives ==
  ASSUME IInv, NEW d \in issued, ReportCompletion(d)
  PROVE  Lives(d.req, rs[d.req], rs'[d.req])
<1> DEFINE r == d.req
           c == Counted(r)
<1>1. PICK m \in Reports(d) : Authoritative(d, m)
  BY DEF ReportCompletion
<1>2. /\ r \in Request /\ rs[r] \in RsType /\ rs[r].lifecycle = "dispatched"
      /\ Pending(r, rs[r].chunk) /\ rs \in [Request -> RsType]
  BY <1>1, AuthoritativeFacts DEF IInv, TypeOK
<1>3. Live(r)
  BY <1>2 DEF Live
<1>4. c \in RsType
  BY <1>2, CountedFacts
<1>5. Alike(rs[r], c)
  BY ONLY <1>2, ZenonT(60) DEF Counted, Alike, SameProgress, RsType
<1>6. ReportSuccess(d) => AfterSuccess(r) \in RsType /\ Lives(r, rs[r], AfterSuccess(r))
  <2> SUFFICES ASSUME ReportSuccess(d)
               PROVE  AfterSuccess(r) \in RsType /\ Lives(r, rs[r], AfterSuccess(r))
    OBVIOUS
  <2>1. AfterSuccess(r) \in RsType
    BY <1>2, AfterSuccessFacts
  <2>2. Credited(issued', r, rs[r].attempt, rs[r].chunk)
    BY <1>1, SuccessCredited
  <2>3. QED BY <1>2, <1>3, <1>4, <1>5, <2>1, <2>2, SuccessLives
<1> HIDE DEF c
<1>7. ASSUME NEW outcome, NEW s \in RsType, Finish(d, outcome, s), Lives(r, rs[r], s)
      PROVE  Lives(r, rs[r], rs'[r])
  <2>1. rs'[r] = [ReleaseReservation(s) EXCEPT !.group = 0]
    BY <1>2, <1>7 DEF Finish
  <2>2. QED BY <1>7, <2>1, AlikeFacts, LivesAlike
<1>8. ASSUME NEW outcome, NEW l \in {"cancelled", "expired", "failed_non_retryable"},
             \/ Finish(d, outcome, [c EXCEPT !.lifecycle = l])
             \/ Finish(d, outcome, [c EXCEPT !.lifecycle = l, !.cancelPending = FALSE])
      PROVE  Lives(r, rs[r], rs'[r])
  <2>1. l \in Terminal
    BY DEF Terminal
  <2>2. /\ [c EXCEPT !.lifecycle = l] \in RsType
        /\ [c EXCEPT !.lifecycle = l, !.cancelPending = FALSE] \in RsType
    BY <1>4, <2>1, EndFacts
  <2>3. QED BY <1>2, <1>3, <1>4, <1>5, <1>7, <1>8, <2>2, EndLives
<1>9. CASE ReportStaleRejected(d)
  <2>1. Lives(r, rs[r], c)
    BY <1>5 DEF Lives, Still, Alike
  <2>2. QED BY <1>4, <1>7, <1>9, <2>1 DEF ReportStaleRejected, c
<1>10. CASE ReportRetryable(d)
  <2>1. CASE c.retries < Descriptor[r].maxRetries /\ Finish(d, "retryable_failure", Restart(c))
    <3>1. Restart(c) \in RsType
      BY <1>4, RestartFacts
    <3>2. Lives(r, rs[r], Restart(c))
      BY <1>2, <1>3, <1>4, <1>5, <2>1, RestartLives
    <3>3. QED BY <1>7, <2>1, <3>1, <3>2
  <2>2. CASE Finish(d, "retryable_failure", [c EXCEPT !.lifecycle = "failed_non_retryable"])
    BY <1>8, <2>2
  <2>3. QED BY <1>10, <2>1, <2>2 DEF ReportRetryable, c
<1>11. CASE ReportNonRetryable(d) \/ ReportCancelled(d) \/ ReportExpired(d)
  BY <1>8, <1>11 DEF ReportNonRetryable, ReportCancelled, ReportExpired, c
<1>12. CASE ReportSuccess(d)
  BY <1>6, <1>7, <1>12 DEF ReportSuccess
<1>13. QED BY <1>9, <1>10, <1>11, <1>12 DEF ReportCompletion, Report

LEMMA CancelLives ==
  ASSUME IInv, NEW r \in Request,
         \/ Cancel(r)
         \/ Live(r) /\ rs' = [rs EXCEPT ![r].cancelPending = TRUE]
  PROVE  Lives(r, rs[r], rs'[r])
<1>1. rs \in [Request -> RsType] /\ rs[r] \in RsType /\ Live(r)
  BY DEF IInv, TypeOK, Cancel
<1>2. CASE rs' = [rs EXCEPT ![r].cancelPending = TRUE]
  <2>1. /\ rs'[r].lifecycle = rs[r].lifecycle /\ rs'[r].chunk = rs[r].chunk
        /\ rs'[r].retries = rs[r].retries /\ rs'[r].cancelPending = TRUE
        /\ rs'[r].attempt = rs[r].attempt
    BY <1>1, <1>2 DEF RsType
  <2>2. QED BY <1>1, <2>1 DEF Lives, Marked, Live, InLife, SameProgress
<1>3. CASE rs' = [rs EXCEPT ![r] = [ReleaseReservation(@) EXCEPT !.lifecycle = "cancelled", !.group = 0]]
  <2> DEFINE u == ReleaseReservation(rs[r])
             t == [u EXCEPT !.lifecycle = "cancelled", !.group = 0]
  <2>1. u \in RsType /\ Alike(rs[r], u)
    BY <1>1, ReleaseFacts, AlikeFacts
  <2>2. rs'[r] = t
    BY <1>1, <1>3
  <2> HIDE DEF u
  <2>3. t.lifecycle = "cancelled" /\ t.chunk = u.chunk /\ t.retries = u.retries /\ t.attempt = u.attempt
    BY <2>1 DEF RsType
  <2> HIDE DEF t
  <2>4. Ended(rs[r], t)
    BY <1>1, <2>1, <2>3 DEF Ended, Alike, SameProgress, Live, InLife
  <2>5. QED BY <2>2, <2>4 DEF Lives
<1>4. QED BY <1>2, <1>3 DEF Cancel

LEMMA ForceRetryLives ==
  ASSUME IInv, NEW r \in Request, ForceRetry(r)
  PROVE  Lives(r, rs[r], rs'[r])
<1> DEFINE a == Abandon(rs[r])
<1>1. rs \in [Request -> RsType] /\ rs[r] \in RsType /\ Live(r)
  BY DEF IInv, TypeOK, ForceRetry
<1>2. a \in RsType /\ Alike(rs[r], a)
  BY <1>1, AbandonFacts, AlikeFacts
<1>3. \/ rs[r].retries < Descriptor[r].maxRetries /\ rs'[r] = Restart(a)
      \/ rs'[r] = a
  BY <1>1 DEF ForceRetry
<1> HIDE DEF a
<1>4. CASE rs[r].retries < Descriptor[r].maxRetries /\ rs'[r] = Restart(a)
  <2>1. a.retries < Descriptor[r].maxRetries
    BY <1>2, <1>4 DEF Alike, SameProgress
  <2>2. QED BY <1>1, <1>2, <1>4, <2>1, RestartLives
<1>5. CASE rs'[r] = a
  BY <1>2, <1>5 DEF Alike, Lives, Still
<1>6. QED BY <1>3, <1>4, <1>5

LEMMA CycleLives ==
  ASSUME IInv, RunCycle, NEW r \in Request
  PROVE  Lives(r, rs[r], rs'[r])
<1>1. PICK sent, lead, host, gen : Cycle(sent, lead, host, gen)
  BY CycleFacts
<1>2. rs[r] \in RsType
  BY DEF IInv, TypeOK
<1>3. CASE r \in sent
  <2> DEFINE t == Dispatch(r, gen[r], gen[lead[r]], host[lead[r]])
  <2>1. rs'[r] = t /\ rs[r].lifecycle = "queued"
    BY <1>1, <1>3 DEF Cycle, Treated, Assigned, Candidates
  <2>2. /\ t.lifecycle = "dispatched" /\ t.chunk = rs[r].chunk /\ t.retries = rs[r].retries
        /\ t.cancelPending = rs[r].cancelPending /\ t.attempt = rs[r].attempt
    BY ONLY <1>2, ZenonT(60) DEF Dispatch, RsType
  <2> HIDE DEF t
  <2>3. QED BY <2>1, <2>2 DEF Lives, Still, InLife, SameProgress
<1>4. CASE r \in Expiring
  <2> DEFINE u == ReleaseReservation(rs[r])
  <2>1. u \in RsType /\ Alike(rs[r], u)
    BY <1>2, ReleaseFacts, AlikeFacts
  <2>2. rs'[r] = [u EXCEPT !.lifecycle = "expired"] /\ Live(r)
    BY <1>1, <1>4 DEF Cycle, Treated, Expire, Expiring, Overdue
  <2> HIDE DEF u
  <2>3. QED BY <2>1, <2>2, EndLives
<1>5. CASE r \notin sent /\ r \notin Expiring
  <2>1. rs'[r] = Age(rs[r])
    BY <1>1, <1>5 DEF Cycle, Treated
  <2>2. QED BY <1>2, <2>1, AlikeFacts DEF Alike, Lives, Still
<1>6. QED BY <1>3, <1>4, <1>5

LEMMA StepLives ==
  ASSUME IInv, [Next]_vars, NEW r \in Request
  PROVE  Lives(r, rs[r], rs'[r])
<1>1. rs \in [Request -> RsType] /\ rs[r] \in RsType
  BY DEF IInv, TypeOK
<1>2. Lives(r, rs[r], rs[r])
  BY DEF Lives, Still, SameProgress
<1>3. ASSUME NEW q \in Request, NEW s, rs' = [rs EXCEPT ![q] = s], q # r
      PROVE  Lives(r, rs[r], rs'[r])
  BY <1>1, <1>2, <1>3
<1>4. ASSUME NEW q \in Request, Submit(q) \/ Cancel(q) \/ ForceRetry(q)
      PROVE  Lives(r, rs[r], rs'[r])
  <2>1. CASE q # r
    BY <1>3, <1>4, <2>1 DEF Submit, Cancel, ForceRetry
  <2>2. CASE q = r /\ Submit(r)
    <3>1. /\ rs[r].lifecycle = "absent"
          /\ rs'[r].lifecycle = (IF Uncached(r) = 0 THEN "completed" ELSE "queued")
          /\ rs'[r].chunk = 0 /\ rs'[r].retries = 0 /\ rs'[r].cancelPending = FALSE
      BY <1>1, <2>2 DEF Submit, Absent, Known
    <3>2. QED BY <3>1 DEF Lives, Admitted
  <2>3. QED BY <1>4, <2>1, <2>2, CancelLives, ForceRetryLives
<1>5. ASSUME NEW d \in issued, ReportCompletion(d) \/ CancelGeneration(d)
      PROVE  Lives(r, rs[r], rs'[r])
  <2>1. d.req \in Request
    BY DEF IInv, TypeOK, DispatchType
  <2>2. CASE d.req # r
    <3>1. \E s : rs' = [rs EXCEPT ![d.req] = s]
      BY <1>5 DEF CancelGeneration, ReportCompletion, Report, ReportStaleRejected,
                  ReportRetryable, ReportNonRetryable, ReportCancelled, ReportExpired, ReportSuccess, Finish
    <3>2. QED BY <1>3, <2>1, <2>2, <3>1
  <2>3. CASE d.req = r /\ CancelGeneration(d)
    BY <2>3, CancelLives DEF CancelGeneration
  <2>4. CASE d.req = r /\ ReportCompletion(d)
    BY <2>4, ReportLives
  <2>5. QED BY <1>5, <2>2, <2>3, <2>4
<1>6. ASSUME NEW w \in Worker, WorkerLost(w)
      PROVE  Lives(r, rs[r], rs'[r])
  <2> DEFINE t == Recovered(rs[r])
  <2>1. rs'[r] = rs[r] \/ (rs'[r] = t /\ rs[r].lifecycle = "dispatched")
    BY <1>6 DEF WorkerLost
  <2>2. t.lifecycle = "queued" /\ t.chunk = rs[r].chunk /\ t.cancelPending = rs[r].cancelPending
    BY <1>1, RecoveredFacts
  <2>3. t.retries = rs[r].retries /\ t.attempt = rs[r].attempt
    BY ONLY <1>1, ZenonT(60) DEF Recovered, ReleaseReservation, RsType
  <2> HIDE DEF t
  <2>4. QED BY <1>2, <2>1, <2>2, <2>3 DEF Lives, Still, InLife, SameProgress
<1>7. CASE RunCycle
  BY <1>7, CycleLives
<1>8. CASE \/ \E w \in Worker : UnregisterWorker(w)
           \/ \E w \in Worker, boot \in 1 .. MaxRegistrations : RegisterWorker(w, boot)
           \/ AttachExecutor \/ RollEpoch \/ Tick \/ UNCHANGED vars
  BY <1>2, <1>8 DEF UnregisterWorker, RegisterWorker, AttachExecutor, RollEpoch, Tick, vars
<1>9. QED BY <1>4, <1>5, <1>6, <1>7, <1>8 DEF Next

(* A request that was not submitted has made no progress.                  *)
UnknownIsNew ==
  \A r \in Request : ~Known(r) => rs[r].chunk = 0 /\ rs[r].retries = 0

LEMMA UnknownStaysNew ==
  ASSUME IInv, UnknownIsNew, [Next]_vars
  PROVE  UnknownIsNew'
<1> SUFFICES ASSUME NEW r \in Request, rs'[r].lifecycle = "absent"
             PROVE  rs'[r].chunk = 0 /\ rs'[r].retries = 0
  BY DEF UnknownIsNew, Known
<1>1. Lives(r, rs[r], rs'[r])
  BY StepLives
<1>2. Still(rs[r], rs'[r]) /\ rs[r].lifecycle = "absent"
  BY <1>1 DEF Lives, Still, Admitted, Applied, Retried, Marked, Ended, InLife
<1>3. QED BY <1>2 DEF UnknownIsNew, Known, Still, SameProgress

-----------------------------------------------------------------------------
(* The refinement.                                                         *)

(* A life is what another one becomes by the fields in which they differ.  *)
LifePhase == {"absent", "live", "completed", "cancelled", "expired", "failed_non_retryable"}
LifeType == [phase : LifePhase, done : Nat, retried : Nat, marked : BOOLEAN]

LEMMA LifeUpdates ==
  ASSUME NEW a \in LifeType, NEW b \in LifeType
  PROVE  /\ b.done = a.done /\ b.retried = a.retried /\ b.marked = a.marked
              => b = [a EXCEPT !.phase = b.phase]
         /\ b.retried = a.retried /\ b.marked = a.marked
              => b = [a EXCEPT !.done = b.done, !.phase = b.phase]
         /\ b.phase = a.phase /\ b.marked = a.marked
              => b = [a EXCEPT !.done = b.done, !.retried = b.retried]
         /\ b.done = a.done /\ b.retried = a.retried /\ ~b.marked
              => b = [a EXCEPT !.phase = b.phase, !.marked = FALSE]
BY DEF LifeType

LifeState == [r \in Request |-> LifeOf(r)]

LEMMA LifeStep ==
  ASSUME IInv, UnknownIsNew, NEW r \in Request, Lives(r, rs[r], rs'[r])
  PROVE  \/ LifeState'[r] = LifeState[r]
         \/ Abstract!Admit(r) \/ Abstract!Apply(r) \/ Abstract!Retry(r) \/ Abstract!Mark(r)
         \/ \E how \in {"cancelled", "expired", "failed_non_retryable"} : Abstract!End(r, how)
<1> DEFINE s == rs[r]
           t == rs'[r]
           n == ChunkCount(r)
           A == [q \in Request |-> LifeOf(q)]
<1>1. /\ A[r] = LifeOf(r) /\ A'[r] = LifeOf(r)'
      /\ [q \in Request |-> ChunkCount(q)][r] = n
      /\ [q \in Request |-> Descriptor[q].maxRetries][r] = Descriptor[r].maxRetries
  OBVIOUS
<1>2. LifeOf(r) = [phase |-> IF InLife(s) THEN "live" ELSE s.lifecycle,
                   done |-> IF s.lifecycle = "completed" THEN n ELSE s.chunk,
                   retried |-> s.retries, marked |-> InLife(s) /\ s.cancelPending]
  BY DEF LifeOf, Live, InLife
<1>3. LifeOf(r)' = [phase |-> IF InLife(t) THEN "live" ELSE t.lifecycle,
                    done |-> IF t.lifecycle = "completed" THEN n ELSE t.chunk,
                    retried |-> t.retries, marked |-> InLife(t) /\ t.cancelPending]
  BY DEF LifeOf, Live, InLife, ChunkCount
<1>4. s \in RsType
  BY DEF IInv, TypeOK
<1>5. CASE Still(s, t)
  BY <1>1, <1>2, <1>3, <1>5 DEF Still, SameProgress, InLife, LifeState
<1>6. CASE Admitted(r, s, t)
  <2>1. s.chunk = 0 /\ s.retries = 0
    BY <1>6 DEF UnknownIsNew, Known, Admitted
  <2>2. Uncached(r) = 0 <=> n = 0
    BY CountOfChunks
  <2> HIDE DEF n
  <2>3. LifeOf(r) = [phase |-> "absent", done |-> 0, retried |-> 0, marked |-> FALSE]
    BY <1>2, <1>6, <2>1 DEF Admitted, InLife
  <2>4. LifeOf(r)' = [phase |-> IF n = 0 THEN "completed" ELSE "live", done |-> 0, retried |-> 0,
                      marked |-> FALSE]
    BY <1>3, <1>6, <2>2 DEF Admitted, InLife
  <2>5. /\ LifeOf(r).phase = "absent"
        /\ LifeOf(r)' = [LifeOf(r) EXCEPT !.phase = IF n = 0 THEN "completed" ELSE "live"]
    <3>1. LifeOf(r) \in LifeType /\ LifeOf(r)' \in LifeType
      BY <2>3, <2>4, SMTT(20) DEF LifeType, LifePhase
    <3>2. /\ LifeOf(r).phase = "absent" /\ LifeOf(r)'.phase = (IF n = 0 THEN "completed" ELSE "live")
          /\ LifeOf(r)'.done = LifeOf(r).done /\ LifeOf(r)'.retried = LifeOf(r).retried
          /\ LifeOf(r)'.marked = LifeOf(r).marked
      BY <2>3, <2>4, SMTT(20)
    <3>3. LifeOf(r)' = [LifeOf(r) EXCEPT !.phase = LifeOf(r)'.phase]
      BY ONLY <3>1, <3>2, LifeUpdates, ZenonT(60)
    <3>4. QED BY <3>2, <3>3
  <2>6. Abstract!Admit(r)
    BY <1>1, <2>5 DEF Abstract!Admit
  <2>7. QED BY <2>6
<1>7. CASE Applied(r, s, t)
  <2>1. s.chunk \in Nat
    BY <1>4 DEF RsType
  <2>2. /\ t.lifecycle = "queued" => t.chunk = s.chunk + 1 /\ n # s.chunk + 1
        /\ t.lifecycle = "completed" => n = s.chunk + 1
    BY <1>7, <2>1, CountOfChunks DEF Applied
  <2> HIDE DEF n
  <2>3. LifeOf(r) = [phase |-> "live", done |-> s.chunk, retried |-> s.retries, marked |-> FALSE]
    BY <1>2, <1>7 DEF Applied, InLife
  <2>4. LifeOf(r)' = [phase |-> IF s.chunk + 1 = n THEN "completed" ELSE "live", done |-> s.chunk + 1,
                      retried |-> s.retries, marked |-> FALSE]
    BY <1>3, <1>7, <2>2 DEF Applied, InLife
  <2>5. /\ LifeOf(r).phase = "live" /\ ~LifeOf(r).marked
        /\ LifeOf(r)' = [LifeOf(r) EXCEPT !.done = LifeOf(r).done + 1,
                            !.phase = IF LifeOf(r).done + 1 = n THEN "completed" ELSE "live"]
    <3>1. LifeOf(r) \in LifeType /\ LifeOf(r)' \in LifeType
      BY <1>4, <2>1, <2>3, <2>4, SMTT(20) DEF LifeType, LifePhase, RsType
    <3>2. /\ LifeOf(r).phase = "live" /\ ~LifeOf(r).marked /\ LifeOf(r)'.done = LifeOf(r).done + 1
          /\ LifeOf(r)'.phase = (IF LifeOf(r).done + 1 = n THEN "completed" ELSE "live")
          /\ LifeOf(r)'.retried = LifeOf(r).retried /\ LifeOf(r)'.marked = LifeOf(r).marked
      BY <2>3, <2>4, SMTT(20)
    <3>3. LifeOf(r)' = [LifeOf(r) EXCEPT !.done = LifeOf(r)'.done, !.phase = LifeOf(r)'.phase]
      BY ONLY <3>1, <3>2, LifeUpdates, ZenonT(60)
    <3>4. QED BY <3>2, <3>3
  <2>6. Abstract!Apply(r)
    BY <1>1, <2>5 DEF Abstract!Apply
  <2>7. QED BY <2>6
<1>8. CASE Retried(r, s, t)
  <2> HIDE DEF n
  <2>1. LifeOf(r) = [phase |-> "live", done |-> s.chunk, retried |-> s.retries, marked |-> s.cancelPending]
    BY <1>2, <1>4, <1>8 DEF Retried, InLife, RsType
  <2>2. LifeOf(r)' = [phase |-> "live", done |-> 0, retried |-> s.retries + 1, marked |-> s.cancelPending]
    BY <1>3, <1>4, <1>8 DEF Retried, InLife, RsType
  <2>3. s.retries < Descriptor[r].maxRetries
    BY <1>8 DEF Retried
  <2>4. /\ LifeOf(r).phase = "live" /\ LifeOf(r).retried < Descriptor[r].maxRetries
        /\ LifeOf(r)' = [LifeOf(r) EXCEPT !.done = 0, !.retried = @ + 1]
    <3>1. LifeOf(r) \in LifeType /\ LifeOf(r)' \in LifeType
      BY <1>4, <2>1, <2>2, SMTT(20) DEF LifeType, LifePhase, RsType
    <3>2. /\ LifeOf(r).phase = "live" /\ LifeOf(r).retried = s.retries /\ LifeOf(r)'.done = 0
          /\ LifeOf(r)'.retried = LifeOf(r).retried + 1
          /\ LifeOf(r)'.phase = LifeOf(r).phase /\ LifeOf(r)'.marked = LifeOf(r).marked
      BY <2>1, <2>2, SMTT(20)
    <3>3. LifeOf(r)' = [LifeOf(r) EXCEPT !.done = LifeOf(r)'.done, !.retried = LifeOf(r)'.retried]
      BY ONLY <3>1, <3>2, LifeUpdates, ZenonT(60)
    <3>4. QED BY <2>3, <3>2, <3>3
  <2>5. Abstract!Retry(r)
    BY <1>1, <2>4 DEF Abstract!Retry
  <2>6. QED BY <2>5
<1>9. CASE Marked(s, t)
  <2> HIDE DEF n
  <2>1. LifeOf(r) = [phase |-> "live", done |-> s.chunk, retried |-> s.retries, marked |-> s.cancelPending]
    BY <1>2, <1>4, <1>9 DEF Marked, InLife, RsType
  <2>2. LifeOf(r)' = [phase |-> "live", done |-> s.chunk, retried |-> s.retries, marked |-> TRUE]
    BY <1>3, <1>9 DEF Marked, InLife, SameProgress
  <2>3. Abstract!Mark(r)
    BY <1>1, <2>1, <2>2, SMTT(20) DEF Abstract!Mark
  <2>4. QED BY <2>3
<1>10. CASE Ended(s, t)
  <2> HIDE DEF n
  <2>1. LifeOf(r) = [phase |-> "live", done |-> s.chunk, retried |-> s.retries, marked |-> s.cancelPending]
    BY <1>2, <1>4, <1>10 DEF Ended, InLife, RsType
  <2>2. LifeOf(r)' = [phase |-> t.lifecycle, done |-> s.chunk, retried |-> s.retries, marked |-> FALSE]
    BY <1>3, <1>10 DEF Ended, InLife, SameProgress
  <2>3. t.lifecycle \in {"cancelled", "expired", "failed_non_retryable"}
    BY <1>10 DEF Ended
  <2>4. /\ LifeOf(r).phase = "live"
        /\ LifeOf(r)' = [LifeOf(r) EXCEPT !.phase = t.lifecycle, !.marked = FALSE]
    <3>1. LifeOf(r) \in LifeType /\ LifeOf(r)' \in LifeType
      BY <1>4, <2>1, <2>2, <2>3, SMTT(20) DEF LifeType, LifePhase, RsType
    <3>2. /\ LifeOf(r).phase = "live" /\ LifeOf(r)'.phase = t.lifecycle /\ ~LifeOf(r)'.marked
          /\ LifeOf(r)'.done = LifeOf(r).done /\ LifeOf(r)'.retried = LifeOf(r).retried
      BY <2>1, <2>2, SMTT(20)
    <3>3. LifeOf(r)' = [LifeOf(r) EXCEPT !.phase = LifeOf(r)'.phase, !.marked = FALSE]
      BY ONLY <3>1, <3>2, LifeUpdates, ZenonT(60)
    <3>4. QED BY <3>2, <3>3
  <2>5. Abstract!End(r, t.lifecycle)
    BY <1>1, <2>4 DEF Abstract!End
  <2>6. QED BY <2>3, <2>5
<1>11. QED BY <1>5, <1>6, <1>7, <1>8, <1>9, <1>10 DEF Lives

(* The scheduler implements RequestLife: whatever the order of calls, and  *)
(* however reports are late, repeated, refused or lost, each request goes  *)
(* through its chunks one by one, spends a retry to begin again, and ends  *)
(* once.                                                                   *)
THEOREM SchedulerImplementsLife == Spec => ImplementsRequestLife
<1>1. Init => Abstract!Init
  <2> SUFFICES ASSUME Init PROVE Abstract!Init
    OBVIOUS
  <2>1. ASSUME NEW r \in Request
        PROVE  LifeOf(r) = Abstract!Unborn
    BY DEF Init, Absent, LifeOf, Live, Abstract!Unborn
  <2>2. QED BY <2>1 DEF Abstract!Init
<1>2. Init => UnknownIsNew
  BY SMTT(20) DEF Init, Absent, UnknownIsNew
<1>3. IInv /\ UnknownIsNew /\ [Next]_vars => UnknownIsNew'
  BY UnknownStaysNew
<1>4. IInv /\ UnknownIsNew /\ [Next]_vars => [Abstract!Next]_LifeState
  <2> SUFFICES ASSUME IInv, UnknownIsNew, [Next]_vars
               PROVE  Abstract!Next
    OBVIOUS
  <2>1. \A r \in Request : Lives(r, rs[r], rs'[r])
    BY StepLives
  <2>2. QED BY <2>1, LifeStep DEF Abstract!Next, LifeState
<1>5. QED
  BY <1>1, <1>2, <1>3, <1>4, Invariance, PTL DEF Spec, ImplementsRequestLife, Abstract!Spec, LifeState

-----------------------------------------------------------------------------
(* What was executed.                                                      *)

(* A dispatch that was applied is not touched again.                       *)
LEMMA CreditsStay ==
  ASSUME IInv, [Next]_vars, NEW e \in issued, e.credits = 1
  PROVE  e \in issued'
<1>1. ASSUME NEW d \in issued, ReportCompletion(d)
      PROVE  e \in issued'
  <2>1. d.credits = 0
    BY <1>1, AuthoritativeFacts DEF ReportCompletion
  <2>2. \E c : issued' = (issued \ {d}) \cup {c}
    BY <1>1 DEF ReportCompletion, Report, ReportStaleRejected, ReportRetryable,
              ReportNonRetryable, ReportCancelled, ReportExpired, ReportSuccess, Finish
  <2>3. QED BY <2>1, <2>2, SMTT(20)
<1>2. CASE RunCycle
  <2>1. PICK sent, lead, host, gen : Cycle(sent, lead, host, gen)
    BY <1>2, CycleFacts
  <2>2. QED BY <2>1 DEF Cycle, Recorded
<1>3. CASE issued' = issued
  BY <1>3
<1>4. \/ issued' = issued \/ RunCycle \/ \E d \in issued : ReportCompletion(d)
  BY DEF Next, vars, Submit, Cancel, ForceRetry, CancelGeneration, UnregisterWorker, WorkerLost,
               RegisterWorker, AttachExecutor, RollEpoch, Tick
<1>5. QED BY <1>1, <1>2, <1>3, <1>4

(* The chunks before the current one were executed in this attempt, and    *)
(* all chunks of a completed request.                                      *)
Behind(r, i) == i < rs[r].chunk \/ (rs[r].lifecycle = "completed" /\ Pending(r, i))

ExecutedInv ==
  \A r \in Request : \A i \in Nat : Behind(r, i) => Credited(issued, r, rs[r].attempt, i)

LEMMA ExecutedStep ==
  ASSUME IInv, ExecutedInv, [Next]_vars
  PROVE  ExecutedInv'
<1> SUFFICES ASSUME NEW r \in Request, NEW i \in Nat,
                    i < rs'[r].chunk \/ (rs'[r].lifecycle = "completed" /\ Pending(r, i))
             PROVE  Credited(issued', r, rs'[r].attempt, i)
  BY DEF ExecutedInv, Behind
<1> DEFINE s == rs[r]
           t == rs'[r]
<1>1. s \in RsType /\ s.chunk \in Nat
  BY DEF IInv, TypeOK, RsType
<1>2. ASSUME Behind(r, i), t.attempt = s.attempt
      PROVE  Credited(issued', r, t.attempt, i)
  <2>1. PICK d \in issued : /\ d.req = r /\ d.attempt = s.attempt /\ d.chunk = i
                            /\ d.credits = 1 /\ d.outcome = "success"
    BY <1>2 DEF ExecutedInv, Credited
  <2>2. d \in issued'
    BY <2>1, CreditsStay
  <2>3. QED BY <1>2, <2>1, <2>2 DEF Credited
<1>3. Lives(r, s, t)
  BY StepLives
<1>4. CASE Still(s, t) \/ Marked(s, t) \/ Ended(s, t)
  BY <1>2, <1>4 DEF Still, Marked, Ended, SameProgress, InLife, Behind
<1>5. CASE Admitted(r, s, t)
  <2>1. t.chunk = 0 /\ Pending(r, i) /\ Uncached(r) = 0
    BY <1>5, SMTT(20) DEF Admitted
  <2>2. QED BY <2>1, PendingBelow, SMTT(20)
<1>6. CASE Retried(r, s, t)
  BY <1>6, SMTT(20) DEF Retried
<1>7. CASE Applied(r, s, t)
  <2>1. t.attempt = s.attempt /\ Credited(issued', r, s.attempt, s.chunk)
    BY <1>7 DEF Applied
  <2>2. i < s.chunk + 1
    <3>1. CASE i < t.chunk
      BY <1>1, <1>7, <3>1, SMTT(20) DEF Applied
    <3>2. CASE t.lifecycle = "completed" /\ Pending(r, i)
      <4>1. ~Pending(r, s.chunk + 1)
        BY <1>7, <3>2 DEF Applied
      <4>2. QED BY <1>1, <3>2, <4>1, PendingBelow, SMTT(20)
    <3>3. QED BY <3>1, <3>2
  <2>3. CASE i = s.chunk
    BY <2>1, <2>3
  <2>4. CASE i < s.chunk
    BY <1>2, <2>1, <2>4 DEF Behind
  <2>5. QED BY <1>1, <2>2, <2>3, <2>4, SMTT(20)
<1>8. QED BY <1>3, <1>4, <1>5, <1>6, <1>7 DEF Lives

(* A request is reported completed only when each chunk of its plan was    *)
(* executed, with success, in the attempt that completed it: no report of  *)
(* an earlier attempt, of a failure or of another dispatch stands in for   *)
(* one.                                                                    *)
THEOREM CompletedWereExecuted == Spec => []CompletedMeansExecuted
<1>1. Init => ExecutedInv
  <2> SUFFICES ASSUME Init, NEW r \in Request, NEW i \in Nat
               PROVE  ~Behind(r, i)
    BY DEF ExecutedInv
  <2>1. rs[r].chunk = 0 /\ rs[r].lifecycle = "absent"
    BY DEF Init, Absent
  <2>2. QED BY <2>1, SMTT(20) DEF Behind
<1>2. IInv /\ ExecutedInv /\ [Next]_vars => ExecutedInv'
  BY ExecutedStep
<1>3. IInv /\ ExecutedInv => CompletedMeansExecuted
  <2> SUFFICES ASSUME ExecutedInv, NEW r \in Request, rs[r].lifecycle = "completed",
                      NEW i \in 0 .. Uncached(r), Pending(r, i)
               PROVE  Credited(issued, r, rs[r].attempt, i)
    BY DEF CompletedMeansExecuted, Credited
  <2>1. i \in Nat
    BY DescriptorFacts, SMTT(20)
  <2>2. QED BY <2>1 DEF ExecutedInv, Behind
<1>4. QED BY <1>1, <1>2, <1>3, Invariance, PTL DEF Spec

-----------------------------------------------------------------------------
(* The tokens a request has counted.                                       *)

Works(s) == s.lifecycle = "queued" \/ (s.lifecycle = "dispatched" /\ s.inFlight)

Tallied(r, s) ==
  LET done == s.chunk * Size(r) IN
  /\ s.completed \in {done, Lower(done + Size(r), Uncached(r))}
  /\ s.completed <= Uncached(r)
  /\ Works(s) => s.completed = done
  /\ s.lifecycle = "completed" => s.completed = Uncached(r)

(* What a step makes of the count: nothing, a new beginning, or the tokens *)
(* of the chunk that was executed, once.                                   *)
Carries(s, t) ==
  /\ t.completed = s.completed /\ t.chunk = s.chunk
  /\ t.lifecycle = "completed" => s.lifecycle = "completed"
  /\ Works(t) => Works(s)

Begins(r, t) ==
  t.completed = 0 /\ t.chunk = 0 /\ (t.lifecycle = "completed" => Uncached(r) = 0)

Counts(r, s, t) ==
  /\ Works(s) /\ Pending(r, s.chunk) /\ t.completed = s.completed + Tokens(r, s.chunk)
  /\ \/ /\ t.chunk = s.chunk /\ ~Works(t)
        /\ t.lifecycle = "completed" => ~Pending(r, s.chunk + 1)
     \/ t.chunk = s.chunk + 1 /\ Pending(r, s.chunk + 1) /\ t.lifecycle = "queued"

LEMMA TallyKept ==
  ASSUME NEW r \in Request, NEW s \in RsType, Tallied(r, s), NEW t,
         Carries(s, t) \/ Begins(r, t) \/ Counts(r, s, t)
  PROVE  Tallied(r, t)
<1> DEFINE z == Size(r)
           u == Uncached(r)
           done == s.chunk * z
<1>1. z \in Nat /\ u \in Nat /\ s.chunk \in Nat
  BY SizeType, DescriptorFacts DEF RsType
<1>2. done \in Nat /\ (s.chunk + 1) * z = done + z /\ 0 * z = 0
  BY <1>1, TimesType, SMTT(20)
<1>3. CASE Carries(s, t)
  BY <1>3 DEF Carries, Tallied
<1>4. CASE Begins(r, t)
  BY <1>1, <1>2, <1>4, SMTT(20) DEF Begins, Tallied
<1>5. CASE Counts(r, s, t)
  <2>1. s.completed = done /\ done < u
    BY <1>5 DEF Counts, Tallied, Pending, HasChunk, Uncached
  <2>2. Tokens(r, s.chunk) = Lower(z, u - done)
    BY DEF Tokens, ChunkTokens, Uncached
  <2>3. Pending(r, s.chunk + 1) <=> done + z < u
    BY <1>2 DEF Pending, HasChunk, Uncached
  <2> HIDE DEF z, u, done
  <2>4. t.completed = Lower(done + z, u) /\ t.completed <= u
    BY <1>1, <1>2, <1>5, <2>1, <2>2, SMTT(20) DEF Counts, Lower
  <2>5. CASE t.chunk = s.chunk /\ ~Works(t) /\ (t.lifecycle = "completed" => ~Pending(r, s.chunk + 1))
    <3>1. t.lifecycle = "completed" => t.completed = u
      BY <1>1, <1>2, <2>3, <2>4, <2>5 DEF Lower
    <3>2. QED BY <2>4, <2>5, <3>1 DEF Tallied, done, z, u
  <2>6. CASE t.chunk = s.chunk + 1 /\ Pending(r, s.chunk + 1) /\ t.lifecycle = "queued"
    <3>1. t.completed = done + z /\ t.chunk * z = done + z
      BY <1>2, <2>3, <2>4, <2>6 DEF Lower
    <3>2. QED BY <2>4, <2>6, <3>1 DEF Tallied, z, u
  <2>7. QED BY <1>5, <2>5, <2>6 DEF Counts
<1>6. QED BY <1>3, <1>4, <1>5

(* The record keeps the fields of the count.                               *)
SameCount(s, t) ==
  /\ t.completed = s.completed /\ t.chunk = s.chunk
  /\ t.lifecycle = s.lifecycle /\ t.inFlight = s.inFlight

(* The record ends, or stays where it was with nothing in flight.          *)
Stops(s, t) ==
  /\ t.completed = s.completed /\ t.chunk = s.chunk /\ t.inFlight = FALSE
  /\ t.lifecycle \in {s.lifecycle, "cancelled", "expired", "failed_non_retryable"}

LEMMA SuccessCounts ==
  ASSUME NEW r \in Request, rs[r] \in RsType, Flies(rs[r]), Pending(r, rs[r].chunk)
  PROVE  Counts(r, rs[r], AfterSuccess(r))
<1> DEFINE c == Counted(r)
           n == rs[r].completed + Tokens(r, rs[r].chunk)
<1>1. AfterSuccess(r) = IF c.cancelPending THEN [c EXCEPT !.lifecycle = "cancelled", !.cancelPending = FALSE]
                        ELSE IF Pending(r, c.chunk + 1) THEN [c EXCEPT !.lifecycle = "queued", !.chunk = @ + 1]
                        ELSE [c EXCEPT !.lifecycle = "completed"]
  BY DEF AfterSuccess
<1>2. c \in RsType /\ c.chunk = rs[r].chunk
  BY CountedFacts
<1>3. c.completed = n
  BY ONLY rs[r] \in RsType, ZenonT(60) DEF Counted, RsType
<1>4. Works(rs[r])
  BY DEF Flies, Works
<1> HIDE DEF c, n
<1>5. CASE c.cancelPending
  <2> DEFINE t == [c EXCEPT !.lifecycle = "cancelled", !.cancelPending = FALSE]
  <2>1. t.completed = c.completed /\ t.chunk = c.chunk /\ t.lifecycle = "cancelled"
    BY <1>2 DEF RsType
  <2>2. AfterSuccess(r) = t
    BY <1>1, <1>5
  <2> HIDE DEF t
  <2>3. QED BY <1>2, <1>3, <1>4, <2>1, <2>2 DEF Counts, Works, n
<1>6. CASE ~c.cancelPending /\ Pending(r, c.chunk + 1)
  <2> DEFINE t == [c EXCEPT !.lifecycle = "queued", !.chunk = @ + 1]
  <2>1. t.completed = c.completed /\ t.chunk = c.chunk + 1 /\ t.lifecycle = "queued"
    BY <1>2 DEF RsType
  <2>2. AfterSuccess(r) = t
    BY <1>1, <1>6
  <2> HIDE DEF t
  <2>3. QED BY <1>2, <1>3, <1>4, <1>6, <2>1, <2>2 DEF Counts, n
<1>7. CASE ~c.cancelPending /\ ~Pending(r, c.chunk + 1)
  <2> DEFINE t == [c EXCEPT !.lifecycle = "completed"]
  <2>1. t.completed = c.completed /\ t.chunk = c.chunk /\ t.lifecycle = "completed"
    BY <1>2 DEF RsType
  <2>2. AfterSuccess(r) = t
    BY <1>1, <1>7
  <2> HIDE DEF t
  <2>3. QED BY <1>2, <1>3, <1>4, <1>7, <2>1, <2>2 DEF Counts, Works, n
<1>8. QED BY <1>5, <1>6, <1>7

LEMMA ReportCounts ==
  ASSUME IInv, NEW d \in issued, ReportCompletion(d)
  PROVE  Counts(d.req, rs[d.req], rs'[d.req]) \/ Begins(d.req, rs'[d.req])
<1> DEFINE r == d.req
           c == Counted(r)
<1>1. /\ r \in Request /\ rs[r] \in RsType /\ Flies(rs[r]) /\ Pending(r, rs[r].chunk)
      /\ rs \in [Request -> RsType]
  BY AuthoritativeFacts DEF ReportCompletion, IInv, TypeOK, Flies
<1>2. c \in RsType /\ c.chunk = rs[r].chunk /\ c.inFlight = FALSE /\ c.lifecycle = "dispatched"
  BY <1>1, CountedFacts DEF Flies
<1>3. c.completed = rs[r].completed + Tokens(r, rs[r].chunk)
  BY ONLY <1>1, ZenonT(60) DEF Counted, RsType
<1> HIDE DEF c
<1>4. ASSUME NEW outcome, NEW s \in RsType, Finish(d, outcome, s)
      PROVE  SameCount(s, rs'[r])
  <2>1. rs'[r] = [ReleaseReservation(s) EXCEPT !.group = 0]
    BY <1>1, <1>4 DEF Finish
  <2>2. QED BY ONLY <1>4, <2>1, ZenonT(60) DEF ReleaseReservation, RsType, SameCount
<1>5. ASSUME NEW outcome, NEW s \in RsType, Finish(d, outcome, s), Stops(c, s)
      PROVE  Counts(r, rs[r], rs'[r])
  <2>1. /\ rs'[r].completed = c.completed /\ rs'[r].chunk = c.chunk /\ ~Works(rs'[r])
        /\ rs'[r].lifecycle # "completed"
    BY <1>2, <1>4, <1>5 DEF SameCount, Stops, Works
  <2>2. QED BY <1>1, <1>2, <1>3, <2>1 DEF Counts, Works, Flies
<1>6. ASSUME NEW outcome, NEW l \in {"cancelled", "expired", "failed_non_retryable"},
             \/ Finish(d, outcome, [c EXCEPT !.lifecycle = l])
             \/ Finish(d, outcome, [c EXCEPT !.lifecycle = l, !.cancelPending = FALSE])
      PROVE  Counts(r, rs[r], rs'[r])
  <2> DEFINE t == [c EXCEPT !.lifecycle = l]
             u == [c EXCEPT !.lifecycle = l, !.cancelPending = FALSE]
  <2>1. t \in RsType /\ u \in RsType
    BY <1>2, EndFacts DEF Terminal
  <2>2. /\ t.completed = c.completed /\ t.chunk = c.chunk /\ t.inFlight = c.inFlight /\ t.lifecycle = l
        /\ u.completed = c.completed /\ u.chunk = c.chunk /\ u.inFlight = c.inFlight /\ u.lifecycle = l
    BY <1>2 DEF RsType
  <2>3. Finish(d, outcome, t) \/ Finish(d, outcome, u)
    BY <1>6
  <2> HIDE DEF t, u
  <2>4. Stops(c, t) /\ Stops(c, u)
    BY <1>2, <2>2 DEF Stops
  <2>5. QED BY <1>5, <2>1, <2>3, <2>4
<1>7. CASE ReportStaleRejected(d)
  BY <1>2, <1>5, <1>7 DEF ReportStaleRejected, Stops, c
<1>8. CASE ReportRetryable(d)
  <2>1. CASE Finish(d, "retryable_failure", Restart(c))
    <3>1. Restart(c) \in RsType
      BY <1>2, RestartFacts
    <3>2. Restart(c).completed = 0 /\ Restart(c).chunk = 0 /\ Restart(c).lifecycle = "queued"
      BY <1>2 DEF Restart, RsType
    <3>3. QED BY <1>4, <2>1, <3>1, <3>2 DEF SameCount, Begins
  <2>2. CASE Finish(d, "retryable_failure", [c EXCEPT !.lifecycle = "failed_non_retryable"])
    BY <1>6, <2>2
  <2>3. QED BY <1>8, <2>1, <2>2 DEF ReportRetryable, c
<1>9. CASE ReportNonRetryable(d) \/ ReportCancelled(d) \/ ReportExpired(d)
  BY <1>6, <1>9 DEF ReportNonRetryable, ReportCancelled, ReportExpired, c
<1>10. CASE ReportSuccess(d)
  <2>1. AfterSuccess(r) \in RsType /\ Counts(r, rs[r], AfterSuccess(r))
    BY <1>1, AfterSuccessFacts, SuccessCounts
  <2>2. SameCount(AfterSuccess(r), rs'[r])
    BY <1>4, <1>10, <2>1 DEF ReportSuccess
  <2>3. QED BY <2>1, <2>2 DEF Counts, SameCount, Works
<1>11. QED BY <1>7, <1>8, <1>9, <1>10 DEF ReportCompletion, Report

LEMMA CycleCounts ==
  ASSUME IInv, RunCycle, NEW r \in Request
  PROVE  Carries(rs[r], rs'[r])
<1>1. PICK sent, lead, host, gen : Cycle(sent, lead, host, gen)
  BY CycleFacts
<1>2. rs[r] \in RsType
  BY DEF IInv, TypeOK
<1>3. CASE r \in sent
  <2> DEFINE t == Dispatch(r, gen[r], gen[lead[r]], host[lead[r]])
  <2>1. rs'[r] = t /\ rs[r].lifecycle = "queued"
    BY <1>1, <1>3 DEF Cycle, Treated, Assigned, Candidates
  <2>2. t.lifecycle = "dispatched" /\ t.chunk = rs[r].chunk /\ t.completed = rs[r].completed
    BY ONLY <1>2, ZenonT(60) DEF Dispatch, RsType
  <2> HIDE DEF t
  <2>3. QED BY <2>1, <2>2 DEF Carries, Works
<1>4. CASE r \in Expiring
  <2> DEFINE t == Expire(rs[r])
  <2>1. rs'[r] = t
    BY <1>1, <1>4 DEF Cycle, Treated
  <2>2. t.lifecycle = "expired" /\ t.chunk = rs[r].chunk /\ t.completed = rs[r].completed
    BY ONLY <1>2, ZenonT(60) DEF Expire, ReleaseReservation, RsType
  <2> HIDE DEF t
  <2>3. QED BY <2>1, <2>2 DEF Carries, Works
<1>5. CASE r \notin sent /\ r \notin Expiring
  <2>1. rs'[r] = Age(rs[r])
    BY <1>1, <1>5 DEF Cycle, Treated
  <2>2. SameCount(rs[r], rs'[r])
    BY ONLY <1>2, <2>1, ZenonT(60) DEF Age, RsType, SameCount
  <2>3. QED BY <2>2 DEF SameCount, Carries, Works
<1>6. QED BY <1>3, <1>4, <1>5

LEMMA StepCounts ==
  ASSUME IInv, [Next]_vars, NEW r \in Request
  PROVE  Carries(rs[r], rs'[r]) \/ Begins(r, rs'[r]) \/ Counts(r, rs[r], rs'[r])
<1>1. rs \in [Request -> RsType] /\ rs[r] \in RsType
  BY DEF IInv, TypeOK
<1>2. /\ Carries(rs[r], rs[r])
      /\ \A t : SameCount(rs[r], t) \/ Stops(rs[r], t) => Carries(rs[r], t)
  BY DEF Carries, SameCount, Stops, Works
<1>3. ASSUME NEW q \in Request, NEW s, rs' = [rs EXCEPT ![q] = s], q # r
      PROVE  Carries(rs[r], rs'[r])
  BY <1>1, <1>2, <1>3
<1>4. ASSUME rs' = [rs EXCEPT ![r].cancelPending = TRUE]
      PROVE  Carries(rs[r], rs'[r])
  <2>1. SameCount(rs[r], rs'[r])
    BY ONLY <1>1, <1>4, ZenonT(60) DEF RsType, SameCount
  <2>2. QED BY <1>2, <2>1
<1>5. CASE Submit(r)
  <2>1. /\ rs'[r].lifecycle = (IF Uncached(r) = 0 THEN "completed" ELSE "queued")
        /\ rs'[r].chunk = 0 /\ rs'[r].completed = 0
    BY <1>1, <1>5 DEF Submit, Absent
  <2>2. QED BY <2>1 DEF Begins
<1>6. CASE Cancel(r)
  <2>1. CASE rs' = [rs EXCEPT ![r] = [ReleaseReservation(@) EXCEPT !.lifecycle = "cancelled", !.group = 0]]
    <3> DEFINE t == [ReleaseReservation(rs[r]) EXCEPT !.lifecycle = "cancelled", !.group = 0]
    <3>1. rs'[r] = t
      BY <1>1, <2>1
    <3>2. t.lifecycle = "cancelled" /\ t.chunk = rs[r].chunk /\ t.completed = rs[r].completed
      BY ONLY <1>1, ZenonT(60) DEF ReleaseReservation, RsType
    <3> HIDE DEF t
    <3>3. QED BY <3>1, <3>2 DEF Carries, Works
  <2>2. QED BY <1>4, <1>6, <2>1 DEF Cancel
<1>7. CASE ForceRetry(r)
  <2> DEFINE a == Abandon(rs[r])
  <2>1. rs'[r] = a \/ rs'[r] = Restart(a)
    BY <1>1, <1>7 DEF ForceRetry
  <2>2. a \in RsType /\ a.inFlight = FALSE
    BY AbandonFacts
  <2>3. Stops(rs[r], a)
    <3>1. a.completed = rs[r].completed /\ a.chunk = rs[r].chunk /\ a.lifecycle = rs[r].lifecycle
      BY ONLY <1>1, ZenonT(60) DEF Abandon, ReleaseReservation, RsType
    <3>2. QED BY <2>2, <3>1 DEF Stops
  <2> HIDE DEF a
  <2>4. Restart(a).completed = 0 /\ Restart(a).chunk = 0 /\ Restart(a).lifecycle = "queued"
    BY <2>2 DEF Restart, RsType
  <2>5. QED BY <1>2, <2>1, <2>3, <2>4 DEF Begins
<1>8. ASSUME NEW q \in Request, Submit(q) \/ Cancel(q) \/ ForceRetry(q), q # r
      PROVE  Carries(rs[r], rs'[r])
  BY <1>3, <1>8 DEF Submit, Cancel, ForceRetry
<1>9. ASSUME NEW d \in issued, ReportCompletion(d) \/ CancelGeneration(d)
      PROVE  Carries(rs[r], rs'[r]) \/ Begins(r, rs'[r]) \/ Counts(r, rs[r], rs'[r])
  <2>1. d.req \in Request
    BY DEF IInv, TypeOK, DispatchType
  <2>2. CASE d.req # r
    <3>1. \E s : rs' = [rs EXCEPT ![d.req] = s]
      BY <1>9, ReportFinishes DEF CancelGeneration, Finish
    <3>2. QED BY <1>3, <2>1, <2>2, <3>1
  <2>3. CASE d.req = r /\ CancelGeneration(d)
    BY <1>4, <2>3 DEF CancelGeneration
  <2>4. CASE d.req = r /\ ReportCompletion(d)
    BY <2>4, ReportCounts
  <2>5. QED BY <1>9, <2>2, <2>3, <2>4
<1>10. ASSUME NEW w \in Worker, WorkerLost(w)
       PROVE  Carries(rs[r], rs'[r])
  <2> DEFINE t == Recovered(rs[r])
  <2>1. rs'[r] = rs[r] \/ (rs'[r] = t /\ Flies(rs[r]))
    BY <1>10 DEF WorkerLost, Flies
  <2>2. t.lifecycle = "queued" /\ t.chunk = rs[r].chunk /\ t.completed = rs[r].completed
    BY ONLY <1>1, ZenonT(60) DEF Recovered, ReleaseReservation, RsType
  <2> HIDE DEF t
  <2>3. QED BY <1>2, <2>1, <2>2, SMTT(20) DEF Carries, Works, Flies
<1>11. CASE RunCycle
  BY <1>11, CycleCounts
<1>12. CASE \/ \E w \in Worker : UnregisterWorker(w)
            \/ \E w \in Worker, boot \in 1 .. MaxRegistrations : RegisterWorker(w, boot)
            \/ AttachExecutor \/ RollEpoch \/ Tick \/ UNCHANGED vars
  BY <1>2, <1>12 DEF UnregisterWorker, RegisterWorker, AttachExecutor, RollEpoch, Tick, vars
<1>13. QED BY <1>5, <1>6, <1>7, <1>8, <1>9, <1>10, <1>11, <1>12 DEF Next

(* completed_uncached, for any chunk size, prompt and cache hit: while a   *)
(* request is queued or in flight it is the size of the chunks before the  *)
(* current one, it never passes the uncached suffix, and a request that    *)
(* completes has counted all of it, through retries and lost workers.      *)
THEOREM TokensAlwaysAccounted == Spec => []TokensAccounted
<1> DEFINE Tally == \A r \in Request : Tallied(r, rs[r])
<1>1. Init => Tally
  <2> SUFFICES ASSUME Init, NEW r \in Request PROVE Tallied(r, rs[r])
    OBVIOUS
  <2>1. rs[r].chunk = 0 /\ rs[r].completed = 0 /\ rs[r].lifecycle = "absent"
    BY DEF Init, Absent
  <2>2. Size(r) \in Nat /\ Uncached(r) \in Nat /\ 0 * Size(r) = 0
    BY SizeType, DescriptorFacts, SMTT(20)
  <2>3. QED BY <2>1, <2>2, SMTT(20) DEF Tallied, Works
<1>2. IInv /\ Tally /\ [Next]_vars => Tally'
  <2> SUFFICES ASSUME IInv, Tally, [Next]_vars, NEW r \in Request PROVE Tallied(r, rs'[r])
    BY DEF Tallied
  <2>1. rs[r] \in RsType
    BY DEF IInv, TypeOK
  <2>2. QED BY <2>1, StepCounts, TallyKept
<1>3. Tally => TokensAccounted
  BY DEF Tallied, TokensAccounted, Works
<1>4. QED BY <1>1, <1>2, <1>3, Invariance, PTL DEF Spec

-----------------------------------------------------------------------------
(* Requests in flight and the groups of their dispatches.                  *)

(* Unless a retry is forced, a request in flight is in a group.            *)
FliersGrouped == \A r \in Request : Flies(rs[r]) => \E g \in groups : r \in g.outstanding

LEMMA DetachedKeeps ==
  ASSUME TypeOK, NEW S, NEW r, r \notin S, NEW g \in groups, r \in g.outstanding
  PROVE  \E h \in Detached(S) : r \in h.outstanding
<1>1. g \in GroupType
  BY DEF TypeOK
<1>2. r \in Shrunk(g, S).outstanding
  BY <1>1 DEF Shrunk, GroupType
<1>3. QED BY <1>2 DEF Detached

(* The calls that the coordinator makes, but for a cycle.                  *)
CoordinatorCall ==
  \/ \E r \in Request : Submit(r) \/ Cancel(r)
  \/ \E d \in issued : ReportCompletion(d)
  \/ \E w \in Worker : WorkerLost(w)
  \/ UNCHANGED <<rs, groups, nextGeneration>>

(* The worker's requests in flight are all recovered.                      *)
LEMMA LostGround ==
  ASSUME IInv, FliersGrouped, NEW w \in Worker, WorkerLost(w),
         NEW r \in Request, Flies(rs[r]), rs[r].worker = w
  PROVE  ~Flies(rs'[r])
<1>1. PICK g \in groups : r \in g.outstanding
  BY DEF FliersGrouped
<1>2. g.worker = w
  BY <1>1 DEF IInv, GroupsConsistent
<1>3. r \in Outstanding(w)
  BY <1>1, <1>2 DEF Outstanding
<1>4. rs'[r] = Recovered(rs[r])
  BY <1>3 DEF WorkerLost, Flies
<1>5. rs[r] \in RsType
  BY DEF IInv, TypeOK
<1>6. QED BY <1>4, <1>5, RecoveredFacts DEF Flies

LEMMA ReportGround ==
  ASSUME IInv, NEW d \in issued, ReportCompletion(d)
  PROVE  d.req \in Request /\ ~Flies(rs'[d.req]) /\ groups' = Detached({d.req})
<1>1. rs \in [Request -> RsType] /\ issued \subseteq DispatchType
  BY DEF IInv, TypeOK
<1>2. PICK outcome \in Outcome, s \in RsType : s.inFlight = FALSE /\ Finish(d, outcome, s)
  BY ReportFinishes
<1> DEFINE t == [ReleaseReservation(s) EXCEPT !.group = 0]
<1>3. rs' = [rs EXCEPT ![d.req] = t] /\ groups' = Detached({d.req}) /\ d.req \in Request
  BY <1>1, <1>2 DEF Finish, DispatchType
<1>4. t.inFlight = FALSE
  BY ONLY <1>2, s \in RsType, ZenonT(60) DEF ReleaseReservation, RsType
<1> HIDE DEF t
<1>5. QED BY <1>1, <1>3, <1>4 DEF Flies

LEMMA GroupedStep ==
  ASSUME IInv, FliersGrouped, CoordinatorCall
  PROVE  FliersGrouped' /\ KeepsFlights /\ nextGeneration' = nextGeneration
<1>1. KeepsFlights
  BY CallFlights DEF CoordinatorCall
<1>2. nextGeneration' = nextGeneration
  <2>1. ASSUME NEW d \in issued, ReportCompletion(d)
        PROVE  nextGeneration' = nextGeneration
    BY <2>1, ReportFinishes DEF Finish
  <2>2. QED BY <2>1 DEF CoordinatorCall, Submit, Cancel, WorkerLost
<1>3. TypeOK
  BY DEF IInv
<1> SUFFICES ASSUME NEW r \in Request, Flies(rs'[r])
             PROVE  \E g \in groups' : r \in g.outstanding
  BY <1>1, <1>2 DEF FliersGrouped
<1>4. Flies(rs[r])
  BY <1>1 DEF KeepsFlights
<1>5. PICK g \in groups : r \in g.outstanding
  BY <1>4 DEF FliersGrouped
<1>6. ASSUME NEW q \in Request, Submit(q) \/ Cancel(q)
      PROVE  \E h \in groups' : r \in h.outstanding
  <2>1. groups' = groups \/ (groups' = Detached({q}) /\ ~rs[q].inFlight)
    BY <1>6 DEF Submit, Cancel
  <2>2. r \notin {q} \/ groups' = groups
    BY <1>4, <2>1 DEF Flies
  <2>3. QED BY <1>3, <1>5, <2>1, <2>2, DetachedKeeps
<1>7. ASSUME NEW d \in issued, ReportCompletion(d)
      PROVE  \E h \in groups' : r \in h.outstanding
  <2>1. groups' = Detached({d.req}) /\ r \notin {d.req}
    BY <1>7, ReportGround
  <2>2. QED BY <1>3, <1>5, <2>1, DetachedKeeps
<1>8. ASSUME NEW w \in Worker, WorkerLost(w)
      PROVE  \E h \in groups' : r \in h.outstanding
  <2>1. rs[r].worker # w
    BY <1>4, <1>8, LostGround
  <2>2. g.worker # w
    BY <1>5, <2>1 DEF IInv, GroupsConsistent
  <2>3. QED BY <1>5, <1>8, <2>2 DEF WorkerLost
<1>9. QED BY <1>5, <1>6, <1>7, <1>8 DEF CoordinatorCall

(* A cycle: what it sends is in the new groups.                            *)
LEMMA CycleGrouped ==
  ASSUME IInv, FliersGrouped, RunCycle
  PROVE  FliersGrouped'
<1>1. PICK sent, lead, host, gen : Cycle(sent, lead, host, gen) /\ Chosen(sent, lead, host)
  BY CycleFacts
<1>2. TypeOK
  BY DEF IInv
<1> SUFFICES ASSUME NEW r \in Request, Flies(rs'[r])
             PROVE  \E g \in groups' : r \in g.outstanding
  BY DEF FliersGrouped
<1> DEFINE New(l) == [id |-> gen[l], worker |-> host[l], outstanding |-> Members(lead, l)]
<1>3. groups' = Detached(Swept) \cup {New(l) : l \in Leaders(lead, host)}
  BY <1>1 DEF Cycle, Grouped
<1>4. CASE r \in sent
  <2>1. lead[r] \in Leaders(lead, host) /\ r \in Members(lead, lead[r])
    <3>1. /\ lead \in [Candidates -> Candidates] /\ FirstFit(lead) /\ r \in Candidates
          /\ host[lead[r]] # None
      BY <1>1, <1>4 DEF Chosen
    <3>2. lead[lead[r]] = lead[r]
      BY <3>1, LeadersLead
    <3>3. QED BY <3>1, <3>2 DEF Leaders, Members
  <2>2. New(lead[r]) \in groups' /\ r \in New(lead[r]).outstanding
    BY <1>3, <2>1
  <2>3. QED BY <2>2
<1>5. CASE r \notin sent
  <2>1. r \notin Expiring /\ Kept(r)
    BY <1>1, <1>5, CycleRequests DEF Flies
  <2>2. Flies(rs[r]) /\ r \notin Swept
    BY <2>1 DEF Kept, Flies, Swept
  <2>3. PICK g \in groups : r \in g.outstanding
    BY <2>2 DEF FliersGrouped
  <2>4. QED BY <1>2, <1>3, <2>2, <2>3, DetachedKeeps
<1>6. QED BY <1>4, <1>5

LEMMA IntervalSize ==
  ASSUME NEW a \in Nat, NEW n \in Nat
  PROVE  IsFiniteSet(a .. a + n - 1) /\ Cardinality(a .. a + n - 1) = n
<1> DEFINE b == a + n - 1
<1>1. a \in Int /\ b \in Int
  BY SMTT(20)
<1>2. IsFiniteSet(a .. b) /\ Cardinality(a .. b) = IF a > b THEN 0 ELSE b - a + 1
  <2> HIDE DEF b
  <2>1. QED BY ONLY <1>1, FS_Interval, ZenonT(60)
<1>3. (IF a > b THEN 0 ELSE b - a + 1) = n
  BY SMTT(20)
<1>4. QED BY <1>2, <1>3, SMTT(20)

(* The members of a group have consecutive generations, its leader the     *)
(* first: what dispatch_group relies on when it names them.                *)
LEMMA LeaderNumbers ==
  ASSUME IInv, NEW sent, NEW lead, NEW host, NEW gen, Cycle(sent, lead, host, gen),
         Chosen(sent, lead, host), DOMAIN gen = sent, Numbered(lead, gen), NEW l \in Leaders(lead, host)
  PROVE  {gen[r] : r \in Members(lead, l)} = gen[l] .. gen[l] + Cardinality(Members(lead, l)) - 1
<1> DEFINE M == Members(lead, l)
           S == {gen[r] : r \in M}
           n == Cardinality(M)
           hi == nextGeneration + Cardinality(sent) - 1
<1>1. /\ lead \in [Candidates -> Candidates] /\ FirstFit(lead) /\ Candidates \subseteq Request
      /\ l \in Candidates /\ lead[l] = l /\ sent \subseteq Candidates
      /\ l \in M /\ M \subseteq sent /\ \A r \in M : lead[r] = l
  BY DEF Chosen, Cycle, Grouped, Assigned, Candidates, Leaders, Members
<1>2. /\ nextGeneration \in Nat /\ Cardinality(sent) \in Nat
      /\ \A r \in sent : gen[r] \in Nat /\ gen[r] >= nextGeneration /\ gen[r] <= hi
      /\ \A q, r \in sent : gen[q] = gen[r] => q = r
  <2>1. /\ nextGeneration \in Nat /\ Cardinality(sent) \in Nat /\ nextGeneration' = hi + 1
        /\ \A r \in sent : gen[r] \in Nat /\ gen[r] >= nextGeneration /\ gen[r] < nextGeneration'
        /\ \A q, r \in sent : gen[q] = gen[r] => q = r
    BY SMTT(20) DEF Cycle, Numbering, Assigned, IInv, TypeOK
  <2>2. QED BY <2>1, SMTT(20)
<1>3. IsFiniteSet(sent) /\ IsFiniteSet(M) /\ n \in Nat
  <2>1. sent \in SUBSET Request /\ M \in SUBSET sent
    BY <1>1
  <2>2. QED BY <2>1, CardOfRequests, FS_Subset, FS_CardinalityType
<1>4. ASSUME NEW i \in nextGeneration .. hi
      PROVE  \E r \in sent : gen[r] = i
  <2> DEFINE f == [r \in sent |-> gen[r]]
             T == nextGeneration .. hi
  <2>1. f \in Injection(sent, T)
    BY <1>2, SMTT(20) DEF Injection, IsInjective
  <2>2. IsFiniteSet(T) /\ Cardinality(T) = Cardinality(sent)
    BY <1>2, IntervalSize
  <2>3. f \in Surjection(sent, T)
    BY <2>1, <2>2, FS_Injection
  <2>4. QED BY <2>3 DEF Surjection
<1>5. IsFiniteSet(S) /\ Cardinality(S) = n
  <2> DEFINE f == [r \in M |-> gen[r]]
  <2>1. f \in Surjection(M, S)
    BY DEF Surjection
  <2>2. f \in Injection(M, S)
    BY <1>1, <1>2 DEF Injection, IsInjective
  <2>3. QED BY <1>3, <2>1, <2>2, FS_Surjection
<1>6. /\ \A a \in Request : ~Before(a, a)
      /\ \A a, b \in Request : a # b => Before(a, b) \/ Before(b, a)
  BY BeforeOrder DEF IInv
<1>7. ASSUME NEW r \in M
      PROVE  gen[l] <= gen[r]
  <2>1. r = l \/ Before(l, r)
    BY <1>1, LeadersLead
  <2>2. Before(l, r) => gen[l] < gen[r]
    BY <1>1 DEF Numbered
  <2>3. QED BY <1>1, <1>2, <2>1, <2>2, SMTT(20)
<1>8. ASSUME NEW r \in M, NEW j \in sent, gen[l] <= gen[j], gen[j] <= gen[r]
      PROVE  j \in M
  <2> SUFFICES ASSUME lead[j] # l PROVE FALSE
    BY <1>1 DEF Members
  <2>1. Before(lead[j], l) \/ Before(l, lead[j])
    BY <1>1, <1>6
  <2>2. Before(lead[j], l) => gen[j] < gen[l]
    BY <1>1 DEF Numbered
  <2>3. Before(l, lead[j]) => gen[r] < gen[j]
    BY <1>1 DEF Numbered
  <2>4. QED BY <1>1, <1>2, <1>8, <2>1, <2>2, <2>3, SMTT(20)
<1>9. ASSUME NEW r \in M
      PROVE  gen[r] <= gen[l] + n - 1
  <2> DEFINE T == gen[l] .. gen[r]
  <2>1. gen[l] \in Nat /\ gen[r] \in Nat /\ gen[l] <= gen[r] /\ gen[l] >= nextGeneration /\ gen[r] <= hi
    BY <1>1, <1>2, <1>7
  <2>2. T \subseteq S
    <3> SUFFICES ASSUME NEW i \in T PROVE i \in S
      OBVIOUS
    <3>1. i \in nextGeneration .. hi
      BY <1>2, <2>1, SMTT(20)
    <3>2. PICK j \in sent : gen[j] = i
      BY <1>4, <3>1
    <3>3. j \in M
      BY <1>8, <2>1, <3>2, SMTT(20)
    <3>4. QED BY <3>2, <3>3
  <2>3. Cardinality(T) = gen[r] - gen[l] + 1
    <3> DEFINE k == gen[r] - gen[l] + 1
    <3>1. k \in Nat /\ gen[l] + k - 1 = gen[r]
      BY <2>1, SMTT(20)
    <3> HIDE DEF k
    <3>2. Cardinality(T) = k
      BY <2>1, <3>1, IntervalSize
    <3>3. QED BY <3>2 DEF k
  <2>4. Cardinality(T) <= n
    BY <1>5, <2>2, FS_Subset
  <2> HIDE DEF T, n
  <2>5. QED BY <1>3, <2>1, <2>3, <2>4, SMTT(20)
<1> DEFINE I == gen[l] .. gen[l] + n - 1
<1>10. S \subseteq I
  BY <1>1, <1>2, <1>3, <1>7, <1>9, SMTT(20)
<1>11. IsFiniteSet(I) /\ Cardinality(I) = n
  <2>1. gen[l] \in Nat
    BY <1>1, <1>2
  <2> HIDE DEF n
  <2>2. QED BY <1>3, <2>1, IntervalSize
<1>12. QED BY <1>5, <1>10, <1>11, FS_Subset
==============================================================================
