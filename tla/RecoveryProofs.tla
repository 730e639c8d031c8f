--------------------------- MODULE RecoveryProofs ---------------------------
(***************************************************************************)
(* What holds across a crash, for any requests and any moment of the       *)
(* crash.  The second life is the scheduler with other descriptors, so     *)
(* what is proved in SchedulerProofs is used for it too, as Second!...     *)
(***************************************************************************)
EXTENDS Recovery, SchedulerProofs

(* Zenon takes the steps; one that needs arithmetic names SMT.             *)
USE ZenonT(60)

(* The descriptors that a snapshot leaves satisfy what the scheduler       *)
(* assumes of descriptors, so its lemmas hold for the second life.         *)
LEMMA SecondAssumption == Second!ConstantsOK
<1>1. Second!IsFiniteSet(Request) /\ Second!IsFiniteSet(Worker)
  BY SchedulerAssumption DEF ConstantsOK, IsFiniteSet, Second!IsFiniteSet
<1>2. Reloaded \in [Request -> Second!DescriptorType]
  <2>1. ASSUME NEW r \in Request
        PROVE  Reload(Descriptor[r]) \in DescriptorType
    <3>1. Descriptor[r] \in DescriptorType
      BY SchedulerAssumption DEF ConstantsOK
    <3>2. DefaultMaxRetries \in Nat
      BY DEF DefaultMaxRetries
    <3>3. QED BY ONLY <3>1, <3>2, RecoveryAssumption, ZenonT(60) DEF Reload, DescriptorType
  <2>2. Second!DescriptorType = DescriptorType
    BY DEF DescriptorType, Second!DescriptorType, None, Second!None
  <2>3. QED BY <2>1, <2>2 DEF Reloaded
<1>3. QED BY <1>1, <1>2, SchedulerAssumption DEF ConstantsOK, Second!ConstantsOK

-----------------------------------------------------------------------------
(* The inductive invariant.                                                *)

(* What a complete file says: counters and records in their range; for     *)
(* every tenant the number of its live records; for a live record the      *)
(* token before which everything was executed in its attempt, and for a    *)
(* completed one that everything was.                                      *)
LiveRecord(rec) == rec.lifecycle \in {"queued", "dispatched"}

RecordOK(f, r) ==
  LET rec == f.requests[r] IN
  /\ rec.lifecycle \in Lifecycle
  /\ rec.attempt \in Nat /\ rec.attempt < f.nextAttempt
  /\ rec.gen \in Nat /\ rec.admitTime \in Nat /\ rec.start \in Nat
  /\ LiveRecord(rec) => rec.start < Uncached(r) /\ Ran(f.executed, r, rec.attempt, rec.start)
  /\ rec.lifecycle = "completed" => Ran(f.executed, r, rec.attempt, Uncached(r))

LiveRecords(f, t) == {r \in DOMAIN f.requests : LiveRecord(f.requests[r]) /\ Descriptor[r].tenant = t}

Faithful(f) ==
  /\ f.nextGeneration \in Nat /\ f.nextGeneration > 0
  /\ f.nextAttempt \in Nat /\ f.nextAttempt > 0 /\ f.epoch \in Nat
  /\ \A w \in Worker : /\ f.workers[w].state \in {"unknown", "ready", "retired", "lost"}
                       /\ f.workers[w].boot \in Nat
  /\ \A t \in Tenant : f.tenants[t] \in Nat /\ f.tenants[t] = Cardinality(LiveRecords(f, t))
  /\ DOMAIN f.requests \subseteq Request
  /\ \A r \in DOMAIN f.requests : RecordOK(f, r)

SavedOK(f) == f \in {Missing, Torn} \/ Faithful(f)

RecoveryInv ==
  \/ /\ life = 1 /\ earlier = {} /\ RunInv(executed, {})
     /\ SavedOK(file) /\ SavedOK(writing)
  \/ life = 2 /\ Second!RunInv(executed, earlier)
-----------------------------------------------------------------------------
(* The second life as the scheduler with the descriptors that were saved.  *)

LEMMA SecondStep ==
  ASSUME NEW X, NEW Y, NEW E, Second!RunInv(X, E), Second!Executes(X, Y)
  PROVE  Second!RunInv(Y, E)'
BY SecondAssumption, ChunkConfigAssumption, Second!RunStep

LEMMA SecondStutters ==
  ASSUME NEW X, NEW E, Second!RunInv(X, E), UNCHANGED Second!vars
  PROVE  Second!RunInv(X, E)'
BY SecondAssumption, ChunkConfigAssumption, Second!RunStutters

LEMMA SecondStale ==
  ASSUME NEW X, NEW E, Second!RunInv(X, E), NEW e \in E
  PROVE  ~Second!Authoritative(e, Second!Stamp(e))
BY SecondAssumption, ChunkConfigAssumption, Second!RunStale

LEMMA SecondStarts == Second!Starts(executed, earlier) => Second!RunInv(executed, earlier)
BY SecondAssumption, ChunkConfigAssumption, Second!RunStarts

LEMMA SecondFresh ==
  Second!Fresh /\ executed = {} /\ earlier = {} => Second!RunInv(executed, earlier)
BY SecondAssumption, ChunkConfigAssumption, Second!FreshStarts

LEMMA SecondSize ==
  ASSUME NEW r \in Request
  PROVE  Second!Size(r) \in Nat
BY SecondAssumption, ChunkConfigAssumption, Second!SizeType

(* The prompt, the prefix and the tenant of a request are saved.           *)
LEMMA SameRequests ==
  ASSUME NEW r \in Request
  PROVE  Second!Uncached(r) = Uncached(r) /\ Reloaded[r].tenant = Descriptor[r].tenant
<1>1. Descriptor[r] \in DescriptorType
  BY SchedulerAssumption DEF ConstantsOK
<1>2. /\ Reloaded[r].prompt = Descriptor[r].prompt /\ Reloaded[r].cached = Descriptor[r].cached
      /\ Reloaded[r].tenant = Descriptor[r].tenant
  BY <1>1 DEF Reloaded, Reload, DescriptorType
<1>3. QED BY <1>2 DEF Uncached, Second!Uncached, Remaining, Second!Remaining

-----------------------------------------------------------------------------
(* A snapshot is faithful, whatever call it falls between.                 *)
LEMMA SnapshotFaithful ==
  ASSUME RunInv(executed, {})
  PROVE  Faithful(Snapshot)
<1> DEFINE f == Snapshot
<1>1. TypeOK /\ PlanInv /\ Allocated /\ Progress(executed) /\ Places
  BY DEF RunInv, IInv
<1>2. /\ f.nextGeneration = nextGeneration /\ f.nextAttempt = nextAttempt /\ f.epoch = epoch
      /\ f.executed = executed /\ DOMAIN f.requests = {r \in Request : Known(r)}
      /\ \A r \in {q \in Request : Known(q)} : f.requests[r] = SavedRequest(r)
      /\ \A w \in Worker : f.workers[w] = SavedWorker(w)
      /\ \A t \in Tenant : f.tenants[t] = ts[t].outstanding
  BY DEF Snapshot, SavedTenant
<1> HIDE DEF f
<1>3. /\ f.nextGeneration \in Nat /\ f.nextGeneration > 0
      /\ f.nextAttempt \in Nat /\ f.nextAttempt > 0 /\ f.epoch \in Nat
  BY <1>1, <1>2 DEF TypeOK, Allocated
<1>4. ASSUME NEW w \in Worker
      PROVE  f.workers[w].state \in {"unknown", "ready", "retired", "lost"} /\ f.workers[w].boot \in Nat
  <2>1. ws[w] \in WorkerType
    BY <1>1 DEF TypeOK
  <2>2. f.workers[w] = [state |-> ws[w].state, boot |-> ws[w].boot]
    BY <1>2 DEF SavedWorker
  <2>3. QED BY ONLY <2>1, <2>2, SMTT(20) DEF WorkerType
<1>5. ASSUME NEW r \in DOMAIN f.requests
      PROVE  RecordOK(f, r)
  <2> DEFINE rec == f.requests[r]
             at == rs[r].chunk * Size(r)
  <2>1. r \in Request /\ rec = SavedRequest(r) /\ rs[r] \in RsType
    BY <1>1, <1>2 DEF TypeOK
  <2>2. /\ rec.lifecycle = rs[r].lifecycle /\ rec.attempt = rs[r].attempt /\ rec.gen = rs[r].gen
        /\ rec.admitTime = rs[r].admitTime
        /\ rec.start = IF Pending(r, rs[r].chunk) THEN at ELSE Uncached(r)
    BY <2>1, SMTT(20) DEF SavedRequest, ChunkStart
  <2>3. at \in Nat /\ Uncached(r) \in Nat
    BY <2>1, SizeType, DescriptorFacts, TimesType DEF RsType
  <2>4. Pending(r, rs[r].chunk) => at < Uncached(r)
    BY DEF Pending, HasChunk, Uncached
  <2>5. /\ rec.lifecycle \in Lifecycle /\ rec.attempt \in Nat /\ rec.attempt < f.nextAttempt
        /\ rec.gen \in Nat /\ rec.admitTime \in Nat
    BY <1>1, <1>2, <2>1, <2>2 DEF RsType, Allocated
  <2>6. /\ Live(r) => Pending(r, rs[r].chunk) /\ Ran(executed, r, rs[r].attempt, at)
        /\ rs[r].lifecycle = "completed" => Ran(executed, r, rs[r].attempt, Uncached(r))
    BY <1>1, <2>1 DEF PlanInv, Progress
  <2> HIDE DEF at
  <2>7. QED BY <1>2, <2>2, <2>3, <2>4, <2>5, <2>6 DEF RecordOK, LiveRecord, Live
<1>6. ASSUME NEW t \in Tenant
      PROVE  f.tenants[t] \in Nat /\ f.tenants[t] = Cardinality(LiveRecords(f, t))
  <2>1. LiveRecords(f, t) = LiveOf(t)
    <3>1. ASSUME NEW r \in {q \in Request : Known(q)}
          PROVE  f.requests[r].lifecycle = rs[r].lifecycle
      <4>1. f.requests[r] = SavedRequest(r)
        BY <1>2
      <4>2. QED BY ONLY <4>1, SMTT(20) DEF SavedRequest
    <3>2. DOMAIN f.requests = {r \in Request : rs[r].lifecycle # "absent"}
      BY <1>2 DEF Known
    <3>3. ASSUME NEW r
          PROVE  r \in LiveRecords(f, t) <=> r \in LiveOf(t)
      BY ONLY <3>1, <3>2, SMTT(20) DEF LiveRecords, LiveRecord, LiveOf, Live, Known
    <3>4. QED BY ONLY <3>3, ZenonT(60) DEF LiveRecords, LiveOf
  <2>2. QED BY <1>1, <1>2, <2>1, LiveFacts DEF Places
<1>7. QED BY <1>2, <1>3, <1>4, <1>5, <1>6 DEF Faithful, f
-----------------------------------------------------------------------------
(* The import resumes every request at a token before which everything was *)
(* executed: at the saved one if a chunk of the new plan starts there,     *)
(* else at the first.                                                      *)
LEMMA IndexFacts ==
  ASSUME NEW r \in Request, NEW start \in Nat, start < Uncached(r)
  PROVE  LET i == IndexForTokenStart(r, start)
         IN  i \in Nat /\ Second!Pending(r, i) /\ i * Second!Size(r) <= start
<1> DEFINE n == Second!Size(r)
           at == {i \in 0 .. start : Second!Pending(r, i) /\ ChunkStart(n, i) = start}
           i == IndexForTokenStart(r, start)
<1>1. n \in Nat /\ Uncached(r) \in Nat
  BY SecondSize, DescriptorFacts
<1>2. i = IF at = {} THEN 0 ELSE CHOOSE k \in at : TRUE
  BY DEF IndexForTokenStart
<1>3. Second!Pending(r, 0)
  BY <1>1, SameRequests, SMTT(20) DEF Second!Pending, Second!HasChunk, Second!Uncached
<1> HIDE DEF n, i
<1>4. CASE at = {}
  BY <1>1, <1>2, <1>3, <1>4, SMTT(20) DEF n, i
<1>5. CASE at # {}
  <2>1. i \in at
    BY ONLY <1>2, <1>5, ZenonT(60)
  <2>2. QED BY <2>1, SMTT(20) DEF ChunkStart, n, i
<1>6. QED BY <1>4, <1>5

LEMMA ImportedFacts ==
  ASSUME NEW f, NEW r \in Request, RecordOK(f, r)
  PROVE  LET rec == f.requests[r]
             s   == Imported(r, rec)
         IN  /\ s \in RsType /\ s.attempt = rec.attempt /\ s.inFlight = FALSE /\ s.reservation = FALSE
             /\ s.lifecycle = IF rec.lifecycle = "dispatched" THEN "queued" ELSE rec.lifecycle
             /\ LiveRecord(rec) => /\ Second!Pending(r, s.chunk)
                                   /\ s.chunk * Second!Size(r) <= rec.start
<1> DEFINE rec == f.requests[r]
           s == Imported(r, rec)
           chunk == IF rec.start >= Uncached(r) THEN ChunkCount(r) ELSE IndexForTokenStart(r, rec.start)
<1>1. /\ rec.lifecycle \in Lifecycle /\ rec.attempt \in Nat /\ rec.gen \in Nat
      /\ rec.admitTime \in Nat /\ rec.start \in Nat /\ (LiveRecord(rec) => rec.start < Uncached(r))
  BY DEF RecordOK
<1>2. Uncached(r) \in Nat
  BY DescriptorFacts
<1>3. ChunkCount(r) \in Nat
  <2>1. IsFiniteSet(0 .. Uncached(r))
    BY <1>2, FS_Interval, SMTT(20)
  <2>2. IsFiniteSet({i \in 0 .. Uncached(r) : Second!Pending(r, i)})
    BY <2>1, FS_Subset
  <2>3. QED BY <2>2, FS_CardinalityType DEF ChunkCount
<1>4. ~(rec.start >= Uncached(r)) =>
        /\ IndexForTokenStart(r, rec.start) \in Nat
        /\ Second!Pending(r, IndexForTokenStart(r, rec.start))
        /\ IndexForTokenStart(r, rec.start) * Second!Size(r) <= rec.start
  BY <1>1, <1>2, IndexFacts, SMTT(20)
<1>5. /\ chunk \in Nat
      /\ LiveRecord(rec) => Second!Pending(r, chunk) /\ chunk * Second!Size(r) <= rec.start
  <2>1. LiveRecord(rec) => ~(rec.start >= Uncached(r))
    BY <1>1, <1>2, SMTT(20)
  <2>2. QED BY <1>3, <1>4, <2>1
<1>6. s = [Absent EXCEPT
             !.lifecycle = IF rec.lifecycle = "dispatched" THEN "queued" ELSE rec.lifecycle,
             !.attempt   = rec.attempt,
             !.gen       = IF rec.lifecycle = "dispatched" THEN 0 ELSE rec.gen,
             !.admitTime = rec.admitTime,
             !.chunk     = chunk,
             !.completed = IF rec.start >= Uncached(r) THEN Uncached(r) ELSE 0]
  BY DEF Imported
<1> HIDE DEF rec, s, chunk
<1>7. /\ s.attempt = rec.attempt /\ s.inFlight = FALSE /\ s.reservation = FALSE /\ s.chunk = chunk
      /\ s.lifecycle = IF rec.lifecycle = "dispatched" THEN "queued" ELSE rec.lifecycle
  BY ONLY <1>6, SMTT(20) DEF Absent
<1>8. s \in RsType
  <2>1. "queued" \in Lifecycle /\ 0 \in Worker /\ 0 \in Nat
    BY SchedulerAssumption DEF ConstantsOK, Lifecycle
  <2>2. ASSUME NEW l \in Lifecycle, NEW a \in Nat, NEW g \in Nat, NEW t \in Nat,
               NEW c \in Nat, NEW n \in Nat
        PROVE  [Absent EXCEPT !.lifecycle = l, !.attempt = a, !.gen = g, !.admitTime = t,
                              !.chunk = c, !.completed = n] \in RsType
    BY ONLY <2>1, ZenonT(60) DEF Absent, RsType
  <2>3. QED BY ONLY <1>1, <1>2, <1>5, <1>6, <2>1, <2>2, ZenonT(60)
<1>9. QED BY <1>5, <1>7, <1>8 DEF rec, s
LEMMA SecondCardinality ==
  ASSUME NEW S
  PROVE  Second!Cardinality(S) = Cardinality(S)
BY DEF Cardinality, Second!Cardinality

(* Whenever the crash comes and whatever the file is, as long as it is     *)
(* complete: the second life starts with nothing lost or skipped.          *)
LEMMA RecoverStarts ==
  ASSUME RunInv(executed, {}), Faithful(file), Recover
  PROVE  Second!RunInv(executed, earlier)'
<1> DEFINE f == file
<1>1. /\ \A r \in Request : rs'[r] = IF r \in DOMAIN f.requests THEN Imported(r, f.requests[r]) ELSE Absent
      /\ DOMAIN rs' = Request /\ rs' = [r \in Request |-> rs'[r]]
      /\ groups' = {} /\ issued' = {} /\ epoch' = f.epoch /\ executed' = f.executed
      /\ ws' = [w \in Worker |-> [state |-> f.workers[w].state, boot |-> f.workers[w].boot, busy |-> 0]]
      /\ ts' = [t \in Tenant |-> [outstanding |-> f.tenants[t], admitted |-> 0]]
      /\ nextGeneration' = f.nextGeneration /\ nextAttempt' = f.nextAttempt
      /\ now' = now /\ registrations' = registrations
  BY DEF Recover, Restarted, ImportState, Counters, ImportedTenants
<1>2. /\ TypeOK /\ issued \subseteq DispatchType /\ DOMAIN f.requests \subseteq Request
      /\ \A r \in DOMAIN f.requests : RecordOK(f, r)
  BY DEF RunInv, IInv, TypeOK, Faithful
<1> HIDE DEF f
<1>3. ASSUME NEW r \in Request
      PROVE  /\ rs'[r] \in RsType
             /\ rs'[r].lifecycle # "dispatched" /\ ~rs'[r].inFlight /\ ~rs'[r].reservation
             /\ rs'[r].attempt < f.nextAttempt
             /\ rs'[r].lifecycle = "queued" =>
                  /\ Second!Pending(r, rs'[r].chunk)
                  /\ Ran(f.executed, r, rs'[r].attempt, rs'[r].chunk * Second!Size(r))
             /\ rs'[r].lifecycle = "completed" => Ran(f.executed, r, rs'[r].attempt, Uncached(r))
             /\ rs'[r].lifecycle = "queued" <=> r \in DOMAIN f.requests /\ LiveRecord(f.requests[r])
  <2>1. CASE r \notin DOMAIN f.requests
    <3>1. Absent \in RsType
      BY SchedulerAssumption DEF ConstantsOK, Absent, RsType, Lifecycle
    <3>2. /\ Absent.lifecycle = "absent" /\ Absent.inFlight = FALSE /\ Absent.reservation = FALSE
          /\ Absent.attempt = 0
      BY DEF Absent
    <3>3. 0 < f.nextAttempt
      BY DEF Faithful, f
    <3>4. QED BY <1>1, <2>1, <3>1, <3>2, <3>3
  <2>2. CASE r \in DOMAIN f.requests
    <3> DEFINE rec == f.requests[r]
               s == Imported(r, rec)
               k == s.chunk * Second!Size(r)
    <3>1. /\ s \in RsType /\ s.attempt = rec.attempt /\ s.inFlight = FALSE /\ s.reservation = FALSE
          /\ s.lifecycle = IF rec.lifecycle = "dispatched" THEN "queued" ELSE rec.lifecycle
          /\ LiveRecord(rec) => Second!Pending(r, s.chunk) /\ k <= rec.start
      BY <1>2, <2>2, ImportedFacts
    <3>2. /\ rec.attempt < f.nextAttempt /\ rec.start \in Nat
          /\ LiveRecord(rec) => Ran(f.executed, r, rec.attempt, rec.start)
          /\ rec.lifecycle = "completed" => Ran(f.executed, r, rec.attempt, Uncached(r))
      BY <1>2, <2>2 DEF RecordOK
    <3>3. k \in Nat
      BY <3>1, SecondSize, TimesType DEF RsType
    <3>4. rs'[r] = s
      BY <1>1, <2>2
    <3> HIDE DEF rec, s, k
    <3>5. LiveRecord(rec) => Ran(f.executed, r, rec.attempt, k)
      BY <3>1, <3>2, <3>3, SMTT(20) DEF Ran
    <3>6. QED BY <2>2, <3>1, <3>2, <3>4, <3>5 DEF LiveRecord, rec, k
  <2>3. QED BY <2>1, <2>2
<1>4. Second!TypeOK'
  <2>1. rs' \in [Request -> RsType]
    BY <1>1, <1>3
  <2>2. ws' \in [Worker -> WorkerType] /\ ts' \in [Tenant -> TenantType]
    BY <1>1 DEF Faithful, WorkerType, TenantType, f
  <2>3. /\ epoch' \in Nat /\ nextAttempt' \in Nat /\ nextGeneration' \in Nat
        /\ now' \in Nat /\ registrations' \in Nat
    BY <1>1, <1>2 DEF Faithful, TypeOK, f
  <2>4. Second!RsType = RsType /\ Second!WorkerType = WorkerType /\ Second!TenantType = TenantType
    BY DEF RsType, Second!RsType, WorkerType, Second!WorkerType, TenantType, Second!TenantType,
           Lifecycle, Second!Lifecycle, Terminal, Second!Terminal
  <2>5. QED BY <1>1, <2>1, <2>2, <2>3, <2>4 DEF Second!TypeOK
<1>5. Second!Places'
  <2>1. ASSUME NEW t \in Tenant
        PROVE  (ts[t].outstanding = Second!Cardinality(Second!LiveOf(t)))'
    <3> DEFINE S == LiveRecords(f, t)
    <3>1. (Second!LiveOf(t))' = S
      BY <1>2, <1>3, SameRequests DEF Second!LiveOf, Second!Live, LiveRecords
    <3>2. ts'[t].outstanding = Cardinality(S)
      BY <1>1 DEF Faithful, f
    <3> HIDE DEF S
    <3>3. QED BY <3>1, <3>2, SecondCardinality
  <2>2. QED BY <2>1 DEF Second!Places
<1>6. ASSUME NEW e \in earlier'
      PROVE  e.req \in Request /\ e.gen \in Nat /\ e.gen < f.nextGeneration
  <2>1. PICK d \in issued : /\ e = [d EXCEPT !.credits = 0, !.outcome = "none"]
                            /\ d.gen < f.nextGeneration
    BY DEF Recover, Restarted, f
  <2>2. d \in DispatchType
    BY <1>2
  <2>3. d.req \in Request /\ d.gen \in Nat /\ e.req = d.req /\ e.gen = d.gen
    BY ONLY <2>1, <2>2, ZenonT(60) DEF DispatchType
  <2>4. QED BY <2>1, <2>3
<1>7. nextGeneration' > 0 /\ nextAttempt' > 0
  BY <1>1 DEF Faithful, f
<1>8. Second!Starts(executed, earlier)'
  BY <1>1, <1>3, <1>4, <1>5, <1>6, <1>7, SameRequests DEF Second!Starts, Second!Ran, Ran
<1>9. (Second!Starts(executed, earlier) => Second!RunInv(executed, earlier))'
  BY SecondStarts, PTL
<1>10. QED BY <1>8, <1>9

(* A refused file: the second life starts as a first one does.             *)
LEMMA EmptyStarts ==
  ASSUME RunInv(executed, {}), StartEmpty
  PROVE  Second!RunInv(executed, earlier)'
<1>1. now' \in Nat /\ registrations' \in Nat
  BY DEF RunInv, IInv, TypeOK, StartEmpty, Restarted
<1>2. executed' = {} /\ earlier' = {}
  BY DEF StartEmpty, Restarted
<1>3. Second!Fresh'
  BY <1>1 DEF StartEmpty, Restarted, Second!Fresh, Absent, Second!Absent
<1>4. (Second!Fresh /\ executed = {} /\ earlier = {} => Second!RunInv(executed, earlier))'
  BY SecondFresh, PTL
<1>5. QED BY <1>2, <1>3, <1>4

-----------------------------------------------------------------------------
(* Every step keeps the invariant.                                         *)

LEMMA FirstLifeStep ==
  ASSUME RunInv(executed, {}), FirstLife \/ UNCHANGED <<vars, executed>>
  PROVE  RunInv(executed, {})'
<1>1. PICK X : X = executed
  OBVIOUS
<1>2. PICK Y : Y = executed'
  OBVIOUS
<1>3. RunInv(X, {})
  BY <1>1
<1>4. RunInv(Y, {})'
  <2>1. CASE FirstLife
    <3>1. Executes(X, Y)
      BY <1>1, <1>2, <2>1 DEF FirstLife, FirstSuccess, Executes, TokensOf, ChunkStart, persistVars
    <3>2. QED BY <1>3, <3>1, RunStep
  <2>2. CASE UNCHANGED <<vars, executed>>
    <3>1. X = Y /\ UNCHANGED vars
      BY <1>1, <1>2, <2>2
    <3>2. QED BY <1>3, <3>1, RunStutters
  <2>3. QED BY <2>1, <2>2
<1>5. QED BY <1>2, <1>4 DEF RunInv, Progress, Ran

LEMMA SecondLifeStep ==
  ASSUME Second!RunInv(executed, earlier),
         SecondLife \/ UNCHANGED <<vars, executed, earlier>>
  PROVE  Second!RunInv(executed, earlier)'
<1>1. PICK X : X = executed
  OBVIOUS
<1>2. PICK Y : Y = executed'
  OBVIOUS
<1>3. PICK E : E = earlier
  OBVIOUS
<1>4. Second!RunInv(X, E)
  BY <1>1, <1>3
<1>5. earlier' = E
  BY <1>3 DEF SecondLife, SecondCycle, SecondReport, SecondSuccess, SecondFailure, persistVars
<1>6. Second!RunInv(Y, E)'
  <2>1. CASE SecondLife
    <3>1. Second!Executes(X, Y)
      BY <1>1, <1>2, <2>1 DEF SecondLife, SecondCycle, SecondReport, SecondSuccess, SecondFailure,
           Second!Executes, TokensOf, ChunkStart, Stamp, Second!Stamp, persistVars
    <3>2. QED BY <1>4, <3>1, SecondStep
  <2>2. CASE UNCHANGED <<vars, executed, earlier>>
    <3>1. X = Y /\ UNCHANGED Second!vars
      BY <1>1, <1>2, <2>2 DEF vars, Second!vars
    <3>2. QED BY <1>4, <3>1, SecondStutters
  <2>3. QED BY <2>1, <2>2
<1>7. QED BY <1>2, <1>5, <1>6 DEF Second!RunInv, Second!Progress, Second!Ran, Second!Stale

(* A file and a snapshot are what they were, or the file is torn.          *)
LEMMA SavedStays ==
  ASSUME SavedOK(file), SavedOK(writing), UNCHANGED <<file, writing>>
  PROVE  SavedOK(file)' /\ SavedOK(writing)'
BY DEF SavedOK, Faithful, LiveRecords, RecordOK, Ran

LEMMA RecoveryStep ==
  ASSUME RecoveryInv, [RecoveryNext]_recoveryVars
  PROVE  RecoveryInv'
<1>1. CASE life = 1 /\ (FirstLife \/ Persist \/ SaveDone \/ UNCHANGED recoveryVars)
  <2>1. RunInv(executed, {}) /\ earlier = {} /\ SavedOK(file) /\ SavedOK(writing)
    BY <1>1, SMTT(20) DEF RecoveryInv
  <2>2. FirstLife \/ UNCHANGED <<vars, executed>>
    BY <1>1 DEF Persist, SaveDone, recoveryVars, persistVars
  <2>3. RunInv(executed, {})'
    BY <2>1, <2>2, FirstLifeStep
  <2>4. life' = 1 /\ earlier' = {}
    BY <1>1, <2>1 DEF FirstLife, FirstSuccess, Persist, SaveDone, recoveryVars, persistVars
  <2>5. SavedOK(file)' /\ SavedOK(writing)'
    <3>1. CASE UNCHANGED <<file, writing>>
      BY <2>1, <3>1, SavedStays
    <3>2. CASE Persist
      BY <2>1, <3>2, SnapshotFaithful DEF Persist, SavedOK
    <3>3. CASE SaveDone
      BY <2>1, <3>3 DEF SaveDone, SavedOK
    <3>4. QED BY <1>1, <3>1, <3>2, <3>3 DEF FirstLife, FirstSuccess, recoveryVars, persistVars
  <2>6. QED BY <2>3, <2>4, <2>5 DEF RecoveryInv
<1>2. CASE Recover \/ StartEmpty
  <2>1. life = 1 /\ life' = 2
    BY <1>2 DEF Recover, StartEmpty, Restarted
  <2>2. RunInv(executed, {}) /\ SavedOK(file)
    BY <2>1, SMTT(20) DEF RecoveryInv
  <2>3. Second!RunInv(executed, earlier)'
    <3>1. CASE Recover
      <4>1. Faithful(file)
        BY <2>2, <3>1 DEF Recover, Loads, SavedOK
      <4>2. QED BY <2>2, <3>1, <4>1, RecoverStarts
    <3>2. CASE StartEmpty
      BY <2>2, <3>2, EmptyStarts
    <3>3. QED BY <1>2, <3>1, <3>2
  <2>4. QED BY <2>1, <2>3 DEF RecoveryInv
<1>3. CASE life = 2 /\ (SecondLife \/ UNCHANGED recoveryVars)
  <2>1. Second!RunInv(executed, earlier)
    BY <1>3, SMTT(20) DEF RecoveryInv
  <2>2. SecondLife \/ UNCHANGED <<vars, executed, earlier>>
    BY <1>3 DEF recoveryVars, persistVars
  <2>3. Second!RunInv(executed, earlier)'
    BY <2>1, <2>2, SecondLifeStep
  <2>4. life' = 2
    BY <1>3 DEF SecondLife, SecondCycle, SecondReport, SecondSuccess, SecondFailure, recoveryVars, persistVars
  <2>5. QED BY <2>3, <2>4 DEF RecoveryInv
<1>4. life \in {1, 2}
  BY DEF RecoveryInv
<1>5. QED
  BY <1>1, <1>2, <1>3, <1>4 DEF RecoveryNext, FirstLife, Persist, SaveDone, SecondLife, SecondCycle, SecondReport

LEMMA RecoveryInvariant == RecoverySpec => []RecoveryInv
<1>1. RecoveryInit => RecoveryInv
  <2> SUFFICES ASSUME RecoveryInit PROVE RecoveryInv
    OBVIOUS
  <2>1. Fresh /\ executed = {}
    BY DEF RecoveryInit, Init, Fresh
  <2>2. RunInv(executed, {})
    BY <2>1, FreshStarts
  <2>3. QED BY <2>2 DEF RecoveryInit, RecoveryInv, SavedOK
<1>2. RecoveryInv /\ [RecoveryNext]_recoveryVars => RecoveryInv'
  BY RecoveryStep
<1>3. QED BY <1>1, <1>2, PTL DEF RecoverySpec

-----------------------------------------------------------------------------
(* For any requests, chunk limits and moment of the crash: a request that  *)
(* is completed, in either life, had every uncached token executed in its  *)
(* last attempt.  import_state resumes in a plan that may differ from the  *)
(* one that was executed, and no token is skipped.                         *)
THEOREM NothingSkippedByRecovery == RecoverySpec => []CompletedMeansCovered
<1>1. RecoveryInv => CompletedMeansCovered
  <2> SUFFICES ASSUME RecoveryInv, NEW r \in Request, rs[r].lifecycle = "completed"
               PROVE  Ran(executed, r, rs[r].attempt, Uncached(r))
    BY DEF CompletedMeansCovered, Ran
  <2>1. CASE RunInv(executed, {})
    BY <2>1 DEF RunInv, Progress
  <2>2. CASE Second!RunInv(executed, earlier)
    BY <2>2, SameRequests DEF Second!RunInv, Second!Progress, Second!Ran, Ran
  <2>3. QED BY <2>1, <2>2 DEF RecoveryInv
<1>2. QED BY <1>1, RecoveryInvariant, PTL

(* For any requests and moment of the crash: a dispatch of the first life  *)
(* that the snapshot knew of is never authoritative in the second, since   *)
(* the generations go on from the saved counter.                           *)
THEOREM LateReportsAreStale == RecoverySpec => []SavedDispatchesAreStale
<1>1. RecoveryInv => SavedDispatchesAreStale
  <2> SUFFICES ASSUME RecoveryInv, NEW d \in earlier
               PROVE  ~Second!Authoritative(d, Stamp(d))
    BY DEF SavedDispatchesAreStale
  <2>1. Second!RunInv(executed, earlier)
    BY DEF RecoveryInv
  <2>2. ~Second!Authoritative(d, Second!Stamp(d))
    BY <2>1, SecondStale
  <2>3. QED BY <2>2 DEF Stamp, Second!Stamp
<1>2. QED BY <1>1, RecoveryInvariant, PTL

(* For any requests, tenants and moment of the crash: the outstanding      *)
(* count of a tenant is the number of its live requests, in both lives.    *)
(* The saved counts agree with the saved requests, and the import makes    *)
(* every saved request live that was live.                                 *)
THEOREM AccountsSurvive == RecoverySpec => []OutstandingSurvives
<1>1. RecoveryInv => OutstandingSurvives
  <2> SUFFICES ASSUME RecoveryInv, NEW t \in Tenant
               PROVE  ts[t].outstanding = Cardinality(LiveOf(t))
    BY DEF OutstandingSurvives
  <2>1. CASE RunInv(executed, {})
    BY <2>1 DEF RunInv, Places
  <2>2. CASE Second!RunInv(executed, earlier)
    <3>1. ts[t].outstanding = Second!Cardinality(Second!LiveOf(t))
      BY <2>2 DEF Second!RunInv, Second!Places
    <3>2. Second!LiveOf(t) = LiveOf(t)
      BY SameRequests DEF LiveOf, Second!LiveOf, Live, Second!Live
    <3>3. QED BY <3>1, <3>2, SecondCardinality
  <2>3. QED BY <2>1, <2>2 DEF RecoveryInv
<1>2. QED BY <1>1, RecoveryInvariant, PTL
=============================================================================
