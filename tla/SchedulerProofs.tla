-------------------------- MODULE SchedulerProofs --------------------------
(***************************************************************************)
(* What holds of the scheduler for every set of requests, workers and      *)
(* tenants, every configuration and every sequence of calls: the inductive *)
(* invariant, that every call preserves it, and what follows from it.      *)
(***************************************************************************)
EXTENDS Scheduler, TLAPS, FiniteSetTheorems

(* Zenon takes the steps; one that needs arithmetic names SMT.             *)
USE ZenonT(60)

-----------------------------------------------------------------------------
(* The inductive invariant.                                                *)

(* A live request has a chunk to execute, and is not in flight while it is *)
(* queued.                                                                 *)
PlanInv ==
  \A r \in Request : /\ Live(r) => Pending(r, rs[r].chunk)
                     /\ rs[r].lifecycle = "queued" => ~rs[r].inFlight

(* Identifiers in use were allocated, and group ids are generations.       *)
Allocated ==
  /\ nextGeneration > 0 /\ nextAttempt > 0
  /\ \A g \in groups : g.id < nextGeneration
  /\ \A d \in issued : d.gen > 0 /\ d.gen < nextGeneration /\ d.attempt < nextAttempt
  /\ \A r \in Request : rs[r].attempt < nextAttempt

(* No two dispatches have the same generation.                             *)
GenerationsDiffer ==
  \A d, e \in issued : d.gen = e.gen => d = e

(* The current generation of a request in flight names a dispatch of its   *)
(* current attempt and chunk that was not reported yet.                    *)
InFlightIssued ==
  \A r \in Request : rs[r].inFlight /\ rs[r].lifecycle = "dispatched" =>
    \E d \in issued : /\ d.gen = rs[r].gen /\ d.req = r /\ d.attempt = rs[r].attempt
                      /\ d.chunk = rs[r].chunk /\ d.credits = 0

(* A request that may still execute its current chunk has been credited,   *)
(* in this attempt, only for chunks before it.                             *)
Active(r) == rs[r].lifecycle = "queued" \/ (rs[r].lifecycle = "dispatched" /\ rs[r].inFlight)

CreditedBefore ==
  \A d \in issued :
    d.credits > 0 /\ Active(d.req) /\ d.attempt = rs[d.req].attempt => d.chunk < rs[d.req].chunk

IInv ==
  /\ TypeOK /\ PlanInv /\ Allocated /\ GenerationsDiffer
  /\ ReservedIffInFlight /\ GroupsConsistent
  /\ InFlightIssued /\ CreditedBefore /\ ChunkAppliedOnce

-----------------------------------------------------------------------------
(* What the plan of a request looks like.                                  *)

LEMMA TimesType ==
  ASSUME NEW a \in Nat, NEW b \in Nat
  PROVE  a * b \in Nat
BY SMTT(20)

LEMMA DivType ==
  ASSUME NEW a \in Nat, NEW b \in Nat \ {0}
  PROVE  a \div b \in Nat
BY SMTT(20)

LEMMA DescriptorFacts ==
  ASSUME NEW r \in Request
  PROVE  /\ Descriptor[r] \in DescriptorType
         /\ Descriptor[r].tenant \in Tenant
         /\ Descriptor[r].compute \in Nat /\ Descriptor[r].memory \in Nat
         /\ Uncached(r) \in Nat
<1>1. Descriptor[r] \in DescriptorType
  BY SchedulerAssumption DEF ConstantsOK
<1>2. QED BY <1>1, SMTT(20) DEF DescriptorType, Uncached, Remaining

(* A request with work left is planned in chunks of at least one token.    *)
LEMMA SizeType ==
  ASSUME NEW r \in Request
  PROVE  Size(r) \in Nat /\ (Uncached(r) > 0 => Size(r) > 0)
<1> DEFINE d == Descriptor[r]
           w == IF d.compute > 0 THEN ShareLimit(MaxWorkPerChunk, d.compute, Remaining(d)) ELSE 0
           m == IF d.memory > 0 THEN ShareLimit(MaxMemoryPerChunk, d.memory, Remaining(d)) ELSE 0
<1>1. d.compute \in Nat /\ d.memory \in Nat /\ Remaining(d) \in Nat
  BY DescriptorFacts DEF Uncached
<1>2. w \in Nat
  <2>1. MaxWorkPerChunk * Remaining(d) \in Nat
    BY <1>1, ChunkConfigAssumption, TimesType
  <2> HIDE DEF d
  <2>2. QED BY <1>1, <2>1, DivType, SMTT(20) DEF ShareLimit
<1>3. m \in Nat
  <2>1. MaxMemoryPerChunk * Remaining(d) \in Nat
    BY <1>1, ChunkConfigAssumption, TimesType
  <2> HIDE DEF d
  <2>2. QED BY <1>1, <2>1, DivType, SMTT(20) DEF ShareLimit
<1>4. Size(r) = ChunkSize(d, w, m) /\ Uncached(r) = Remaining(d)
  BY DEF Size, EffectiveChunk, Uncached
<1> HIDE DEF d, w, m
<1>5. \A x, y \in Nat : Lower(x, y) \in Nat /\ (x > 0 /\ y > 0 => Lower(x, y) > 0)
  BY DEF Lower
<1> DEFINE rem      == Remaining(d)
           base     == IF MaxTokensPerChunk = 0 THEN 1 ELSE MaxTokensPerChunk
           byWork   == IF d.compute > 0 THEN Lower(base, Lower(w, rem)) ELSE base
           byMemory == IF d.memory > 0 THEN Lower(byWork, Lower(m, rem)) ELSE byWork
           top      == IF byMemory = 0 THEN 1 ELSE byMemory
<1>6. byWork \in Nat
  BY <1>1, <1>2, <1>5, ChunkConfigAssumption
<1>7. byMemory \in Nat
  BY <1>1, <1>3, <1>5, <1>6
<1>8. ChunkSize(d, w, m) = IF rem = 0 THEN 0 ELSE Lower(top, rem)
  BY DEF ChunkSize
<1> HIDE DEF byMemory
<1>9. rem \in Nat /\ top \in Nat /\ top > 0
  BY <1>1, <1>7, SMTT(20)
<1> HIDE DEF rem, top
<1>10. Size(r) \in Nat /\ (rem > 0 => Size(r) > 0)
  BY <1>4, <1>5, <1>8, <1>9
<1>11. QED BY <1>4, <1>10 DEF rem

(* A chunk that exists has natural numbers of tokens, bytes and work.      *)
LEMMA ChunkTypes ==
  ASSUME NEW r \in Request, NEW i \in Nat, Pending(r, i)
  PROVE  /\ Tokens(r, i) \in Nat
         /\ Memory(r, i) \in Nat
         /\ Compute(r, i) \in Nat
         /\ Pending(r, 0)
<1> DEFINE d == Descriptor[r]
           rem == Remaining(d)
           n == ChunkTokens(d, Size(r), i)
<1>1. d.memory \in Nat /\ d.compute \in Nat /\ rem \in Nat
  BY DescriptorFacts DEF Uncached
<1>2. i * Size(r) \in Nat /\ Size(r) \in Nat
  BY SizeType, TimesType
<1>3. i * Size(r) < rem
  BY DEF Pending, HasChunk
<1>4. n \in Nat /\ rem > 0
  <2> HIDE DEF rem
  <2>1. rem - i * Size(r) \in Nat
    BY <1>1, <1>2, <1>3, SMTT(20)
  <2>2. QED BY <1>1, <1>2, <1>3, <2>1, SMTT(20) DEF ChunkTokens, Lower, rem
<1>5. ASSUME NEW estimate \in Nat, NEW cap \in Nat
      PROVE  CappedShare(n, estimate, rem, cap) \in Nat
  <2> HIDE DEF n, rem, d
  <2>1. n * estimate \in Nat
    BY <1>4, TimesType
  <2>2. (n * estimate) \div rem \in Nat
    BY <2>1, <1>1, <1>4, DivType, SMTT(20)
  <2>3. QED BY <2>2 DEF CappedShare, Lower
<1>6. Pending(r, 0)
  <2>1. 0 * Size(r) = 0
    BY <1>2, SMTT(20)
  <2>2. QED BY <1>1, <1>4, <2>1 DEF Pending, HasChunk
<1>7. /\ CappedShare(n, d.memory, rem, MaxMemoryPerChunk) \in Nat
      /\ CappedShare(n, d.compute, rem, MaxWorkPerChunk) \in Nat
  BY <1>1, <1>5, ChunkConfigAssumption
<1>8. QED BY <1>4, <1>6, <1>7 DEF Tokens, Memory, ChunkMemory, Compute, ChunkCompute

-----------------------------------------------------------------------------
(* Cardinalities.                                                          *)

LEMMA CardOfRequests ==
  ASSUME NEW S \in SUBSET Request
  PROVE  IsFiniteSet(S) /\ Cardinality(S) \in Nat
BY SchedulerAssumption, FS_Subset, FS_CardinalityType DEF ConstantsOK

(* Groups are disjoint and not empty, so there are finitely many.          *)
LEMMA GroupsFinite ==
  ASSUME TypeOK, GroupsConsistent
  PROVE  IsFiniteSet(groups)
<1> DEFINE S == {r \in Request : \E g \in groups : r \in g.outstanding}
           f == [r \in S |-> CHOOSE g \in groups : r \in g.outstanding]
<1>1. f \in [S -> groups]
  OBVIOUS
<1>2. ASSUME NEW g \in groups
      PROVE  \E r \in S : f[r] = g
  <2>1. PICK r \in g.outstanding : TRUE
    BY DEF GroupsConsistent
  <2>2. r \in S
    BY <2>1 DEF TypeOK, GroupType
  <2>3. f[r] \in groups /\ r \in f[r].outstanding
    BY <2>2
  <2>4. QED BY <2>1, <2>2, <2>3, SMTT(20) DEF GroupsConsistent
<1>3. IsFiniteSet(S)
  BY CardOfRequests
<1>4. f \in Surjection(S, groups)
  BY <1>1, <1>2 DEF Surjection
<1>5. QED BY <1>3, <1>4, FS_Surjection

LEMMA CardOfGroups ==
  ASSUME TypeOK, GroupsConsistent, NEW S \in SUBSET groups
  PROVE  Cardinality(S) \in Nat
BY GroupsFinite, FS_Subset, FS_CardinalityType

-----------------------------------------------------------------------------
(* Changes of groups and workers that several handlers share.              *)

(* Requests that leave their groups: what is left are parts of groups.     *)
LEMMA DetachedFacts ==
  ASSUME TypeOK, GroupsConsistent, NEW S \in SUBSET Request
  PROVE  /\ Detached(S) \subseteq GroupType
         /\ \A g \in Detached(S) :
              /\ g.outstanding # {} /\ g.outstanding \cap S = {}
              /\ \E h \in groups : /\ g = Shrunk(h, S) /\ g.id = h.id /\ g.worker = h.worker
                                   /\ g.outstanding \subseteq h.outstanding
<1>1. ASSUME NEW h \in groups
      PROVE  /\ Shrunk(h, S) \in GroupType
             /\ Shrunk(h, S).id = h.id /\ Shrunk(h, S).worker = h.worker
             /\ Shrunk(h, S).outstanding = h.outstanding \ S
  <2>1. h \in GroupType
    BY DEF TypeOK
  <2>2. \A r \in h.outstanding : rs[r].group = h.id
    BY DEF GroupsConsistent
  <2>3. QED BY <2>1, <2>2 DEF Shrunk, GroupType
<1>2. QED BY <1>1 DEF Detached

(* Group consistency survives a step in which the requests of S leave      *)
(* their groups and no other request changes in what groups look at.       *)
SameDispatch(r) ==
  /\ rs'[r].inFlight = rs[r].inFlight /\ rs'[r].lifecycle = rs[r].lifecycle
  /\ rs'[r].group = rs[r].group /\ rs'[r].worker = rs[r].worker

LEMMA DetachKeepsGroups ==
  ASSUME TypeOK, GroupsConsistent, NEW S \in SUBSET Request,
         groups' = Detached(S), \A r \in Request \ S : SameDispatch(r)
  PROVE  GroupsConsistent'
<1>1. ASSUME NEW g \in groups', NEW r \in g.outstanding
      PROVE  /\ rs'[r].inFlight /\ rs'[r].lifecycle = "dispatched"
             /\ rs'[r].group = g.id /\ rs'[r].worker = g.worker
  <2>1. PICK h \in groups : /\ g.id = h.id /\ g.worker = h.worker
                            /\ g.outstanding \subseteq h.outstanding
    BY DetachedFacts, SMTT(20)
  <2>2. r \in Request \ S
    BY DetachedFacts, SMTT(20) DEF GroupType
  <2>3. QED BY <2>1, <2>2 DEF GroupsConsistent, SameDispatch
<1>2. ASSUME NEW g \in groups', NEW h \in groups', h.id = g.id
      PROVE  h = g
  BY <1>2, DetachedFacts, SMTT(20) DEF GroupsConsistent
<1>3. \A g \in groups' : g.outstanding # {}
  BY DetachedFacts
<1>4. QED BY <1>1, <1>2, <1>3 DEF GroupsConsistent

(* The same when whole groups disappear.                                   *)
LEMMA DroppingGroupsKeepsGroups ==
  ASSUME TypeOK, GroupsConsistent, groups' \subseteq groups,
         \A g \in groups' : \A r \in g.outstanding : SameDispatch(r)
  PROVE  GroupsConsistent'
BY SMTT(20) DEF GroupsConsistent, SameDispatch

LEMMA FreedType ==
  ASSUME TypeOK, GroupsConsistent, NEW gone \in SUBSET groups
  PROVE  Freed(gone) \in [Worker -> WorkerType]
<1>1. ASSUME NEW w \in Worker
      PROVE  [ws[w] EXCEPT !.busy = Monus(@, Cardinality({g \in gone : g.worker = w}))] \in WorkerType
  <2>1. Cardinality({g \in gone : g.worker = w}) \in Nat
    BY CardOfGroups
  <2>2. ws[w] \in WorkerType
    BY DEF TypeOK
  <2>3. Monus(ws[w].busy, Cardinality({g \in gone : g.worker = w})) \in Nat
    BY <2>1, <2>2, SMTT(20) DEF Monus, WorkerType
  <2>4. QED BY <2>2, <2>3 DEF WorkerType
<1>2. QED BY <1>1 DEF Freed

(* Settling an account leaves an account.                                  *)
LEMMA SettledType ==
  ASSUME TypeOK, NEW r \in Request
  PROVE  Settled(r) \in [Tenant -> TenantType]
<1>1. Descriptor[r].tenant \in Tenant /\ Uncached(r) \in Nat
  BY DescriptorFacts
<1>2. ts \in [Tenant -> TenantType]
  BY DEF TypeOK
<1>3. QED BY <1>1, <1>2, SMTT(20) DEF Settled, TenantType, Monus

(* A released reservation changes nothing else.                            *)
LEMMA ReleaseFacts ==
  ASSUME NEW s \in RsType
  PROVE  LET t == ReleaseReservation(s) IN
         /\ t \in RsType /\ t.reservation = FALSE
         /\ t.lifecycle = s.lifecycle /\ t.attempt = s.attempt /\ t.chunk = s.chunk
         /\ t.completed = s.completed /\ t.gen = s.gen /\ t.inFlight = s.inFlight
         /\ t.group = s.group /\ t.worker = s.worker /\ t.retries = s.retries
         /\ t.cancelPending = s.cancelPending /\ t.aging = s.aging /\ t.admitTime = s.admitTime
BY DEF ReleaseReservation, RsType

-----------------------------------------------------------------------------
LEMMA InitIInv == Init => IInv
<1> SUFFICES ASSUME Init PROVE IInv
  OBVIOUS
<1>1. Absent \in RsType
  BY SchedulerAssumption DEF ConstantsOK, Absent, RsType, Lifecycle
<1>2. TypeOK
  BY <1>1, SchedulerAssumption DEF ConstantsOK, Init, TypeOK, WorkerType, TenantType
<1>3. \A r \in Request : rs[r] = Absent
  BY DEF Init
<1>4. PlanInv /\ ReservedIffInFlight /\ InFlightIssued
  BY <1>3, SMTT(20) DEF PlanInv, ReservedIffInFlight, InFlightIssued, Live, Absent
<1>5. Allocated
  BY <1>3, SMTT(20) DEF Init, Allocated, Absent
<1>6. GenerationsDiffer /\ GroupsConsistent /\ CreditedBefore /\ ChunkAppliedOnce
  BY DEF Init, GenerationsDiffer, GroupsConsistent, CreditedBefore, ChunkAppliedOnce
<1>7. QED BY <1>2, <1>4, <1>5, <1>6 DEF IInv

-----------------------------------------------------------------------------
(* One lemma per handler: it preserves the invariant.                      *)

(* Steps that leave requests, groups and dispatches alone.                 *)
LEMMA IdleStep ==
  ASSUME IInv, UNCHANGED <<rs, groups, issued, nextAttempt, nextGeneration>>, TypeOK'
  PROVE  IInv'
<1>1. PlanInv'
  BY DEF IInv, PlanInv, Live
<1>2. Allocated' /\ GenerationsDiffer' /\ InFlightIssued'
  BY DEF IInv, Allocated, GenerationsDiffer, InFlightIssued
<1>3. ReservedIffInFlight' /\ GroupsConsistent'
  BY DEF IInv, ReservedIffInFlight, GroupsConsistent
<1>4. CreditedBefore' /\ ChunkAppliedOnce'
  BY DEF IInv, CreditedBefore, ChunkAppliedOnce, Active
<1>5. QED BY <1>1, <1>2, <1>3, <1>4 DEF IInv

LEMMA WorkerSteps ==
  ASSUME IInv,
         \/ \E w \in Worker : UnregisterWorker(w)
         \/ \E w \in Worker, boot \in 1 .. MaxRegistrations : RegisterWorker(w, boot)
         \/ AttachExecutor \/ RollEpoch \/ Tick
  PROVE  IInv'
<1>1. ws \in [Worker -> WorkerType] /\ epoch \in Nat /\ now \in Nat /\ registrations \in Nat
  BY DEF IInv, TypeOK
<1>2. CASE \E w \in Worker : UnregisterWorker(w)
  <2>1. ws' \in [Worker -> WorkerType]
    BY <1>1, <1>2 DEF UnregisterWorker, WorkerType
  <2>2. TypeOK'
    BY <1>2, <2>1 DEF IInv, TypeOK, UnregisterWorker
  <2>3. QED BY <1>2, <2>2, IdleStep DEF UnregisterWorker
<1>3. CASE \E w \in Worker, boot \in 1 .. MaxRegistrations : RegisterWorker(w, boot)
  <2>1. ws' \in [Worker -> WorkerType] /\ registrations' \in Nat
    BY <1>1, <1>3, SchedulerAssumption, SMTT(20) DEF ConstantsOK, RegisterWorker, WorkerType
  <2>2. TypeOK'
    BY <1>3, <2>1 DEF IInv, TypeOK, RegisterWorker
  <2>3. QED BY <1>3, <2>2, IdleStep DEF RegisterWorker
<1>4. CASE AttachExecutor
  <2>1. ws' \in [Worker -> WorkerType] /\ registrations' \in Nat
    BY <1>1, <1>4, SchedulerAssumption, SMTT(20) DEF ConstantsOK, AttachExecutor, WorkerType
  <2>2. TypeOK'
    BY <1>4, <2>1 DEF IInv, TypeOK, AttachExecutor
  <2>3. QED BY <1>4, <2>2, IdleStep DEF AttachExecutor
<1>5. CASE RollEpoch
  <2>1. TypeOK'
    BY <1>1, <1>5, SMTT(20) DEF IInv, TypeOK, RollEpoch
  <2>2. QED BY <1>5, <2>1, IdleStep DEF RollEpoch
<1>6. CASE Tick
  <2>1. TypeOK'
    BY <1>1, <1>6, SMTT(20) DEF IInv, TypeOK, Tick
  <2>2. QED BY <1>6, <2>1, IdleStep DEF Tick
<1>7. QED BY <1>2, <1>3, <1>4, <1>5, <1>6

(* A step of one request r that issues and credits nothing.  Its record    *)
(* becomes s; s is at rest, or starts a new attempt, or differs only in    *)
(* fields the rest of the invariant does not look at.                      *)
LEMMA RequestStep ==
  ASSUME IInv, NEW r \in Request, NEW s \in RsType,
         rs' = [rs EXCEPT ![r] = s],
         TypeOK', GroupsConsistent', \A g \in groups' : g.id < nextGeneration,
         UNCHANGED <<issued, nextGeneration>>,
         nextAttempt' = nextAttempt \/ nextAttempt' = nextAttempt + 1,
         s.attempt < nextAttempt',
         s.reservation <=> s.inFlight /\ s.lifecycle = "dispatched",
         s.lifecycle \in {"queued", "dispatched"} => Pending(r, s.chunk),
         s.lifecycle = "queued" => ~s.inFlight,
         \/ s.lifecycle \notin {"queued", "dispatched"}
         \/ s.lifecycle = "dispatched" /\ ~s.inFlight
         \/ s.attempt = nextAttempt /\ ~s.inFlight
         \/ /\ s.lifecycle = rs[r].lifecycle /\ s.inFlight = rs[r].inFlight
            /\ s.attempt = rs[r].attempt /\ s.chunk = rs[r].chunk /\ s.gen = rs[r].gen
  PROVE  IInv'
<1>1. rs \in [Request -> RsType] /\ nextAttempt \in Nat /\ issued \subseteq DispatchType
  BY DEF IInv, TypeOK
<1>2. rs'[r] = s /\ \A q \in Request \ {r} : rs'[q] = rs[q]
  BY <1>1
<1>3. PlanInv'
  BY <1>2 DEF IInv, PlanInv, Live
<1>4. Allocated'
  <2>1. \A q \in Request : rs[q].attempt \in Nat
    BY <1>1 DEF RsType
  <2>2. \A d \in issued : d.attempt \in Nat
    BY <1>1 DEF DispatchType
  <2>3. QED BY <1>1, <1>2, <2>1, <2>2, SMTT(20) DEF IInv, Allocated
<1>5. ReservedIffInFlight'
  BY <1>2, SMTT(20) DEF IInv, ReservedIffInFlight
<1>6. GenerationsDiffer' /\ ChunkAppliedOnce'
  BY DEF IInv, GenerationsDiffer, ChunkAppliedOnce
<1>7. InFlightIssued'
  BY <1>2, SMTT(20) DEF IInv, InFlightIssued
<1>8. CreditedBefore'
  <2> SUFFICES ASSUME NEW d \in issued, d.credits > 0, Active(d.req)', d.attempt = rs'[d.req].attempt
               PROVE  d.chunk < rs'[d.req].chunk
    BY DEF CreditedBefore
  <2>1. d.req \in Request /\ d.attempt \in Nat /\ d.attempt < nextAttempt
    BY <1>1 DEF DispatchType, IInv, Allocated
  <2>2. CASE d.req # r
    BY <1>2, <2>1, <2>2 DEF IInv, CreditedBefore, Active
  <2>3. CASE d.req = r
    <3>1. s.attempt # nextAttempt
      BY <1>1, <1>2, <2>1, <2>3, SMTT(20)
    <3>2. s.lifecycle = "queued" \/ (s.lifecycle = "dispatched" /\ s.inFlight)
      BY <1>2, <2>3 DEF Active
    <3>3. QED BY <1>2, <2>3, <3>1, <3>2, SMTT(20) DEF IInv, CreditedBefore, Active
  <2>4. QED BY <2>2, <2>3
<1>9. QED BY <1>3, <1>4, <1>5, <1>6, <1>7, <1>8 DEF IInv

LEMMA SubmitStep ==
  ASSUME IInv, NEW r \in Request, Submit(r)
  PROVE  IInv'
<1> DEFINE s == [Absent EXCEPT !.lifecycle = IF Uncached(r) = 0 THEN "completed" ELSE "queued",
                               !.attempt = nextAttempt, !.admitTime = now]
           t == Descriptor[r].tenant
<1>1. TypeOK /\ nextAttempt \in Nat /\ now \in Nat /\ Uncached(r) \in Nat /\ t \in Tenant
  BY DescriptorFacts DEF IInv, TypeOK
<1>2. s \in RsType
  BY <1>1, SchedulerAssumption DEF ConstantsOK, Absent, RsType, Lifecycle, Terminal
<1>3. rs' = [rs EXCEPT ![r] = s]
  BY DEF Submit
<1>4. ts' \in [Tenant -> TenantType]
  <2>1. ts \in [Tenant -> TenantType]
    BY <1>1 DEF TypeOK
  <2>2. QED BY <1>1, <2>1, SMTT(20) DEF Submit, TenantType
<1>5. TypeOK'
  BY <1>1, <1>2, <1>3, <1>4, SMTT(20) DEF TypeOK, Submit
<1>6. s.lifecycle = "queued" => Pending(r, s.chunk)
  <2>1. Uncached(r) # 0 => 0 * Size(r) < Uncached(r)
    BY <1>1, SizeType, SMTT(20)
  <2>2. QED BY <2>1 DEF Absent, Pending, HasChunk, Uncached
<1>7. GroupsConsistent'
  <2>1. rs[r].lifecycle = "absent"
    BY DEF Submit, Known
  <2>2. \A g \in groups : \A q \in g.outstanding : q # r /\ q \in Request
    BY <1>1, <2>1 DEF IInv, GroupsConsistent, TypeOK, GroupType
  <2>3. \A g \in groups' : \A q \in g.outstanding : SameDispatch(q)
    BY <1>1, <1>3, <2>2 DEF SameDispatch, Submit, TypeOK
  <2>4. QED BY <2>3, DroppingGroupsKeepsGroups DEF IInv, Submit
<1>8. s.attempt = nextAttempt /\ s.inFlight = FALSE /\ s.reservation = FALSE
      /\ s.lifecycle \in {"queued", "completed"}
  BY DEF Absent
<1>9. nextAttempt' = nextAttempt + 1 /\ UNCHANGED <<issued, nextGeneration, groups>>
  BY DEF Submit
<1>10. \A g \in groups' : g.id < nextGeneration
  BY <1>9 DEF IInv, Allocated
<1> HIDE DEF s
<1>11. s.attempt < nextAttempt'
  BY <1>1, <1>8, <1>9, SMTT(20)
<1>12. QED
  BY <1>2, <1>3, <1>5, <1>6, <1>7, <1>8, <1>9, <1>10, <1>11, RequestStep

(* Groups that lost members, and freed units, keep the types.              *)
LEMMA DetachTypes ==
  ASSUME IInv, NEW r \in Request
  PROVE  /\ Detached({r}) \subseteq GroupType
         /\ \A g \in Detached({r}) : g.id < nextGeneration
         /\ Freed(Emptied({r})) \in [Worker -> WorkerType]
<1>1. TypeOK /\ GroupsConsistent
  BY DEF IInv
<1>2. Emptied({r}) \subseteq groups
  BY DEF Emptied
<1>3. Freed(Emptied({r})) \in [Worker -> WorkerType]
  BY <1>1, <1>2, FreedType
<1>4. /\ Detached({r}) \subseteq GroupType
      /\ \A g \in Detached({r}) : \E h \in groups : g.id = h.id
  <2>1. {r} \in SUBSET Request
    OBVIOUS
  <2>2. QED BY ONLY <1>1, <2>1, DetachedFacts, SMTT(20)
<1>5. \A g \in Detached({r}) : g.id < nextGeneration
  BY <1>4 DEF IInv, Allocated
<1>6. QED BY <1>3, <1>4, <1>5

LEMMA CancelStep ==
  ASSUME IInv, NEW r \in Request, Cancel(r)
  PROVE  IInv'
<1>1. TypeOK /\ GroupsConsistent /\ rs[r] \in RsType
  BY DEF IInv, TypeOK
<1>2. Pending(r, rs[r].chunk) /\ rs[r].attempt < nextAttempt
      /\ (rs[r].lifecycle = "queued" => ~rs[r].inFlight)
  BY DEF IInv, PlanInv, Allocated, Cancel
<1>3. rs[r].reservation <=> rs[r].inFlight /\ rs[r].lifecycle = "dispatched"
  BY DEF IInv, ReservedIffInFlight
<1>4. CASE rs[r].inFlight
  <2> DEFINE s == [rs[r] EXCEPT !.cancelPending = TRUE]
  <2>1. s \in RsType
    BY <1>1 DEF RsType
  <2>2. rs' = [rs EXCEPT ![r] = s] /\ UNCHANGED <<groups, ws, ts>>
    BY <1>4 DEF Cancel
  <2>3. TypeOK'
    BY <1>1, <2>1, <2>2 DEF TypeOK, Cancel
  <2>4. /\ s.lifecycle = rs[r].lifecycle /\ s.inFlight = rs[r].inFlight
        /\ s.attempt = rs[r].attempt /\ s.chunk = rs[r].chunk /\ s.gen = rs[r].gen
        /\ s.group = rs[r].group /\ s.worker = rs[r].worker /\ s.reservation = rs[r].reservation
    BY <1>1 DEF RsType
  <2> HIDE DEF s
  <2>5. \A q \in Request : SameDispatch(q)
    BY <1>1, <2>2, <2>4 DEF SameDispatch, TypeOK
  <2>6. GroupsConsistent'
    <3>1. \A g \in groups : g.outstanding \subseteq Request
      BY <1>1 DEF TypeOK, GroupType
    <3>2. QED BY <1>1, <2>2, <2>5, <3>1, DroppingGroupsKeepsGroups
  <2>7. (\A g \in groups' : g.id < nextGeneration) /\ UNCHANGED <<issued, nextGeneration, nextAttempt>>
    BY <2>2 DEF IInv, Allocated, Cancel
  <2>8. QED BY <1>2, <1>3, <2>1, <2>2, <2>3, <2>4, <2>6, <2>7, RequestStep
<1>5. CASE ~rs[r].inFlight
  <2> DEFINE s == [ReleaseReservation(rs[r]) EXCEPT !.lifecycle = "cancelled", !.group = 0]
  <2>1. s \in RsType /\ s.lifecycle = "cancelled" /\ s.attempt = rs[r].attempt /\ s.reservation = FALSE
    BY <1>1, ReleaseFacts DEF RsType, Lifecycle, Terminal
  <2>2. /\ rs' = [rs EXCEPT ![r] = s]
        /\ groups' = Detached({r}) /\ ws' = Freed(Emptied({r})) /\ ts' = Settled(r)
    BY <1>5 DEF Cancel
  <2>3. UNCHANGED <<issued, nextGeneration, nextAttempt, epoch, now, registrations>>
    BY DEF Cancel
  <2> HIDE DEF s
  <2>4. TypeOK'
    BY <1>1, <2>1, <2>2, <2>3, DetachTypes, SettledType DEF TypeOK
  <2>5. \A q \in Request \ {r} : SameDispatch(q)
    BY <1>1, <2>2 DEF SameDispatch, TypeOK
  <2>6. GroupsConsistent'
    BY <1>1, <2>2, <2>5, DetachKeepsGroups
  <2>7. \A g \in groups' : g.id < nextGeneration
    BY <2>2, DetachTypes
  <2>8. QED BY <1>2, <2>1, <2>2, <2>3, <2>4, <2>6, <2>7, RequestStep
<1>6. QED BY <1>1, <1>4, <1>5

LEMMA CancelGenerationStep ==
  ASSUME IInv, NEW d \in issued, CancelGeneration(d)
  PROVE  IInv'
<1> DEFINE r == d.req
           s == [rs[r] EXCEPT !.cancelPending = TRUE]
<1>1. TypeOK /\ GroupsConsistent /\ r \in Request /\ rs[r] \in RsType
  BY DEF IInv, TypeOK, DispatchType
<1>2. rs' = [rs EXCEPT ![r] = s] /\ UNCHANGED <<groups, issued, nextGeneration, nextAttempt>>
  BY DEF CancelGeneration
<1>3. /\ s \in RsType /\ s.lifecycle = rs[r].lifecycle /\ s.inFlight = rs[r].inFlight
      /\ s.attempt = rs[r].attempt /\ s.chunk = rs[r].chunk /\ s.gen = rs[r].gen
      /\ s.group = rs[r].group /\ s.worker = rs[r].worker /\ s.reservation = rs[r].reservation
  BY <1>1 DEF RsType
<1>4. Live(r)
  BY DEF CancelGeneration
<1>5. TypeOK'
  BY <1>1, <1>2, <1>3 DEF TypeOK, CancelGeneration
<1> HIDE DEF s, r
<1>6. GroupsConsistent'
  <2>1. \A g \in groups : g.outstanding \subseteq Request
    BY <1>1 DEF TypeOK, GroupType
  <2>2. \A q \in Request : SameDispatch(q)
    BY <1>1, <1>2, <1>3 DEF SameDispatch, TypeOK
  <2>3. QED BY <1>1, <1>2, <2>1, <2>2, DroppingGroupsKeepsGroups
<1>7. \A g \in groups' : g.id < nextGeneration
  BY <1>2 DEF IInv, Allocated
<1>8. Pending(r, rs[r].chunk) /\ rs[r].attempt < nextAttempt
      /\ (rs[r].lifecycle = "queued" => ~rs[r].inFlight)
  BY <1>1, <1>4 DEF IInv, PlanInv, Allocated
<1>9. rs[r].reservation <=> rs[r].inFlight /\ rs[r].lifecycle = "dispatched"
  BY <1>1 DEF IInv, ReservedIffInFlight
<1>10. QED BY <1>1, <1>2, <1>3, <1>5, <1>6, <1>7, <1>8, <1>9, RequestStep

(* Abandoned work is at rest.                                              *)
LEMMA AbandonFacts ==
  ASSUME IInv, NEW r \in Request
  PROVE  LET a == Abandon(rs[r]) IN
         /\ a \in RsType /\ a.inFlight = FALSE /\ a.attempt = rs[r].attempt
         /\ a.chunk = rs[r].chunk /\ a.lifecycle = rs[r].lifecycle /\ a.gen = rs[r].gen
         /\ (a.reservation => rs[r].reservation /\ ~rs[r].inFlight)
         /\ a.cancelPending = rs[r].cancelPending
<1>1. rs[r] \in RsType
  BY DEF IInv, TypeOK
<1>2. CASE rs[r].inFlight
  <2> DEFINE b == ReleaseReservation(rs[r])
  <2>1. Abandon(rs[r]) = [b EXCEPT !.inFlight = FALSE, !.group = 0]
    BY <1>2 DEF Abandon
  <2>2. /\ b \in RsType /\ b.attempt = rs[r].attempt /\ b.chunk = rs[r].chunk
        /\ b.lifecycle = rs[r].lifecycle /\ b.gen = rs[r].gen /\ b.reservation = FALSE
        /\ b.cancelPending = rs[r].cancelPending
    BY <1>1, ReleaseFacts
  <2> HIDE DEF b
  <2>3. [b EXCEPT !.inFlight = FALSE, !.group = 0] \in RsType
    BY <2>2 DEF RsType
  <2>4. QED BY <2>1, <2>2, <2>3 DEF RsType
<1>3. CASE ~rs[r].inFlight
  BY <1>1, <1>3 DEF Abandon, RsType
<1>4. QED BY <1>1, <1>2, <1>3 DEF RsType

(* A new attempt of any record.                                            *)
LEMMA RestartFacts ==
  ASSUME IInv, NEW s \in RsType
  PROVE  LET t == Restart(s) IN
         /\ t \in RsType /\ t.attempt = nextAttempt /\ t.chunk = 0 /\ t.lifecycle = "queued"
         /\ t.inFlight = s.inFlight /\ t.reservation = s.reservation
         /\ t.cancelPending = s.cancelPending
<1>1. nextAttempt \in Nat
  BY DEF IInv, TypeOK
<1>2. Restart(s) \in RsType
  <2>1. "queued" \in Lifecycle
    BY DEF Lifecycle
  <2>2. s.retries + 1 \in Nat
    BY SMTT(20) DEF RsType
  <2>3. QED BY <1>1, <2>1, <2>2 DEF Restart, RsType
<1>3. /\ Restart(s).attempt = nextAttempt /\ Restart(s).chunk = 0 /\ Restart(s).lifecycle = "queued"
      /\ Restart(s).inFlight = s.inFlight /\ Restart(s).reservation = s.reservation
      /\ Restart(s).cancelPending = s.cancelPending
  BY DEF Restart, RsType
<1>4. QED BY <1>2, <1>3

LEMMA ForceRetryStep ==
  ASSUME IInv, NEW r \in Request, ForceRetry(r)
  PROVE  IInv'
<1> DEFINE gone == {g \in groups : rs[r].inFlight /\ g.id = rs[r].group}
           a == Abandon(rs[r])
<1>1. TypeOK /\ GroupsConsistent /\ rs[r] \in RsType /\ nextAttempt \in Nat
  BY DEF IInv, TypeOK
<1>2. Live(r) /\ Pending(r, rs[r].chunk) /\ Pending(r, 0) /\ rs[r].attempt < nextAttempt
  <2>1. Live(r) /\ rs[r].attempt < nextAttempt /\ rs[r].chunk \in Nat
    BY <1>1 DEF ForceRetry, IInv, Allocated, RsType
  <2>2. Pending(r, rs[r].chunk)
    BY <2>1 DEF IInv, PlanInv
  <2>3. QED BY <2>1, <2>2, ChunkTypes
<1>3. PICK s \in RsType :
        /\ rs' = [rs EXCEPT ![r] = s] /\ s.inFlight = FALSE /\ s.reservation = FALSE
        /\ \/ /\ s.attempt = nextAttempt /\ s.chunk = 0 /\ s.lifecycle = "queued"
              /\ nextAttempt' = nextAttempt + 1
           \/ /\ s.attempt = rs[r].attempt /\ s.chunk = rs[r].chunk
              /\ s.lifecycle = rs[r].lifecycle /\ s.gen = rs[r].gen /\ nextAttempt' = nextAttempt
  <2>1. /\ a \in RsType /\ a.inFlight = FALSE /\ a.reservation = FALSE
        /\ a.attempt = rs[r].attempt /\ a.chunk = rs[r].chunk
        /\ a.lifecycle = rs[r].lifecycle /\ a.gen = rs[r].gen
    BY <1>1, AbandonFacts DEF IInv, ReservedIffInFlight, RsType
  <2> HIDE DEF a
  <2>2. CASE rs[r].retries < Descriptor[r].maxRetries
    <3>1. rs' = [rs EXCEPT ![r] = Restart(a)] /\ nextAttempt' = nextAttempt + 1
      <4>1. rs[r].retries \in Nat /\ Descriptor[r].maxRetries \in Nat
        BY <1>1, DescriptorFacts DEF RsType, DescriptorType
      <4>2. QED BY <2>2, <4>1, SMTT(20) DEF ForceRetry, a
    <3>2. QED BY <2>1, <3>1, RestartFacts
  <2>3. CASE ~(rs[r].retries < Descriptor[r].maxRetries)
    <3>1. rs' = [rs EXCEPT ![r] = a] /\ nextAttempt' = nextAttempt
      BY <2>3 DEF ForceRetry, a
    <3>2. QED BY <2>1, <3>1
  <2>4. QED BY <2>2, <2>3
<1>4. UNCHANGED <<ts, epoch, nextGeneration, now, registrations, issued>>
      /\ groups' = groups \ gone /\ ws' = Freed(gone)
  BY DEF ForceRetry
<1>5. TypeOK'
  <2>1. Freed(gone) \in [Worker -> WorkerType]
    BY <1>1, FreedType
  <2>2. nextAttempt' \in Nat
    BY <1>1, <1>3, SMTT(20)
  <2> HIDE DEF gone
  <2>3. QED BY <1>1, <1>3, <1>4, <2>1, <2>2 DEF TypeOK
<1>6. GroupsConsistent'
  <2>1. ASSUME NEW g \in groups', NEW q \in g.outstanding
        PROVE  SameDispatch(q)
    <3>1. g \in groups /\ g \notin gone /\ q \in Request
      BY <1>1, <1>4 DEF TypeOK, GroupType
    <3>2. q # r
      BY <3>1 DEF IInv, GroupsConsistent
    <3>3. QED BY <1>1, <1>3, <3>1, <3>2 DEF SameDispatch, TypeOK
  <2>2. QED BY <1>1, <1>4, <2>1, DroppingGroupsKeepsGroups
<1>7. \A g \in groups' : g.id < nextGeneration
  BY <1>4 DEF IInv, Allocated
<1>8. s.attempt < nextAttempt'
  BY <1>1, <1>2, <1>3, SMTT(20) DEF RsType
<1>9. /\ nextAttempt' = nextAttempt \/ nextAttempt' = nextAttempt + 1
      /\ s.lifecycle \in {"queued", "dispatched"} => Pending(r, s.chunk)
      /\ s.reservation <=> s.inFlight /\ s.lifecycle = "dispatched"
  BY <1>2, <1>3
<1>10. \/ s.lifecycle \notin {"queued", "dispatched"}
       \/ s.lifecycle = "dispatched" /\ ~s.inFlight
       \/ s.attempt = nextAttempt /\ ~s.inFlight
       \/ /\ s.lifecycle = rs[r].lifecycle /\ s.inFlight = rs[r].inFlight
          /\ s.attempt = rs[r].attempt /\ s.chunk = rs[r].chunk /\ s.gen = rs[r].gen
  <2>1. rs[r].lifecycle = "queued" => rs[r].inFlight = FALSE
    BY <1>1 DEF IInv, PlanInv, RsType
  <2>2. QED BY <1>2, <1>3, <2>1 DEF Live
<1>11. QED BY <1>3, <1>4, <1>5, <1>6, <1>7, <1>8, <1>9, <1>10, RequestStep

LEMMA RecoveredFacts ==
  ASSUME NEW s \in RsType
  PROVE  /\ Recovered(s) \in RsType /\ Recovered(s).lifecycle = "queued"
         /\ Recovered(s).inFlight = FALSE /\ Recovered(s).reservation = FALSE
         /\ Recovered(s).attempt = s.attempt /\ Recovered(s).chunk = s.chunk
         /\ Recovered(s).cancelPending = s.cancelPending
<1> DEFINE b == ReleaseReservation(s)
<1>1. /\ b \in RsType /\ b.attempt = s.attempt /\ b.chunk = s.chunk /\ b.reservation = FALSE
      /\ b.cancelPending = s.cancelPending
  BY ReleaseFacts
<1>2. Recovered(s) = [b EXCEPT !.inFlight = FALSE, !.gen = 0, !.lifecycle = "queued"]
  BY DEF Recovered
<1> HIDE DEF b
<1>3. "queued" \in Lifecycle
  BY DEF Lifecycle
<1>4. [b EXCEPT !.inFlight = FALSE, !.gen = 0, !.lifecycle = "queued"] \in RsType
  <2>1. b \in RsType
    BY <1>1
  <2>2. QED BY <1>3, <2>1 DEF RsType
<1>5. QED BY <1>1, <1>2, <1>4 DEF RsType

LEMMA WorkerLostStep ==
  ASSUME IInv, NEW w \in Worker, WorkerLost(w)
  PROVE  IInv'
<1> DEFINE hit(r) == r \in Outstanding(w) /\ rs[r].inFlight /\ rs[r].lifecycle = "dispatched"
<1>1. TypeOK /\ GroupsConsistent
  BY DEF IInv
<1>2. \A r \in Request : rs[r] \in RsType
  BY <1>1 DEF TypeOK
<1>3. \A r \in Request : rs'[r] = IF hit(r) THEN Recovered(rs[r]) ELSE rs[r]
  BY DEF WorkerLost
<1>4. UNCHANGED <<ts, epoch, nextAttempt, nextGeneration, now, registrations, issued>>
      /\ groups' = {g \in groups : g.worker # w}
  BY DEF WorkerLost
<1>5. /\ \A r \in Request : hit(r) =>
           /\ rs'[r] \in RsType /\ rs'[r].lifecycle = "queued" /\ rs'[r].inFlight = FALSE
           /\ rs'[r].reservation = FALSE /\ rs'[r].attempt = rs[r].attempt
           /\ rs'[r].chunk = rs[r].chunk /\ rs[r].inFlight /\ rs[r].lifecycle = "dispatched"
      /\ \A r \in Request : ~hit(r) => rs'[r] = rs[r]
  <2>1. ASSUME NEW r \in Request, hit(r)
        PROVE  /\ rs'[r] = Recovered(rs[r]) /\ rs[r] \in RsType
               /\ rs[r].inFlight /\ rs[r].lifecycle = "dispatched"
    BY <1>2, <1>3, <2>1
  <2>2. ASSUME NEW r \in Request, ~hit(r)
        PROVE  rs'[r] = rs[r]
    BY <1>3, <2>2
  <2> HIDE DEF hit
  <2>3. ASSUME NEW r \in Request, hit(r)
        PROVE  /\ rs'[r] \in RsType /\ rs'[r].lifecycle = "queued" /\ rs'[r].inFlight = FALSE
               /\ rs'[r].reservation = FALSE /\ rs'[r].attempt = rs[r].attempt
               /\ rs'[r].chunk = rs[r].chunk
    <3>1. rs[r] \in RsType /\ rs'[r] = Recovered(rs[r])
      BY <2>1, <2>3
    <3>2. QED BY ONLY <3>1, RecoveredFacts, ZenonT(60)
  <2>4. QED BY <2>1, <2>2, <2>3
<1>6. \A g \in groups' : \A r \in g.outstanding : r \in Request /\ ~hit(r)
  <2> SUFFICES ASSUME NEW g \in groups', NEW r \in g.outstanding, NEW h \in groups,
                      h.worker = w, r \in h.outstanding
               PROVE  FALSE
    BY <1>1, <1>4, SMTT(20) DEF Outstanding, TypeOK, GroupType
  <2>1. rs[r].worker = g.worker /\ rs[r].worker = h.worker /\ g.worker # w
    BY <1>4 DEF IInv, GroupsConsistent
  <2>2. QED BY <2>1
<1> HIDE DEF hit
<1>7. TypeOK'
  <2>1. rs' \in [Request -> RsType]
    <3>1. \A r \in Request : rs'[r] \in RsType
      BY <1>2, <1>5
    <3>2. QED BY <3>1 DEF WorkerLost
  <2>2. ws' \in [Worker -> WorkerType]
    BY <1>1 DEF WorkerLost, TypeOK, WorkerType
  <2>3. QED BY <1>1, <1>4, <2>1, <2>2 DEF TypeOK
<1>8. PlanInv'
  BY <1>5 DEF IInv, PlanInv, Live
<1>9. Allocated' /\ GenerationsDiffer' /\ ChunkAppliedOnce'
  BY <1>4, <1>5 DEF IInv, Allocated, GenerationsDiffer, ChunkAppliedOnce
<1>10. ReservedIffInFlight' /\ InFlightIssued'
  <2>1. ReservedIffInFlight'
    BY <1>5 DEF IInv, ReservedIffInFlight
  <2>2. ASSUME NEW r \in Request, rs'[r].inFlight, rs'[r].lifecycle = "dispatched"
        PROVE  rs'[r] = rs[r]
    BY <1>5, <2>2
  <2>3. issued' = issued
    BY <1>4
  <2>4. InFlightIssued'
    <3>1. InFlightIssued
      BY DEF IInv
    <3>2. QED BY ONLY <2>2, <2>3, <3>1, SMTT(20) DEF InFlightIssued
  <2>5. QED BY <2>1, <2>4
<1>11. GroupsConsistent'
  <2>1. \A g \in groups' : \A r \in g.outstanding : SameDispatch(r)
    BY <1>5, <1>6 DEF SameDispatch
  <2>2. QED BY <1>1, <1>4, <2>1, DroppingGroupsKeepsGroups
<1>12. CreditedBefore'
  <2>1. \A d \in issued : d.req \in Request
    BY <1>1 DEF TypeOK, DispatchType
  <2>2. ASSUME NEW d \in issued, d.credits > 0, Active(d.req)', d.attempt = rs'[d.req].attempt
        PROVE  d.chunk < rs'[d.req].chunk
    <3>1. Active(d.req) /\ rs'[d.req].attempt = rs[d.req].attempt /\ rs'[d.req].chunk = rs[d.req].chunk
      BY <1>5, <2>1, <2>2 DEF Active
    <3>2. QED BY <2>2, <3>1 DEF IInv, CreditedBefore
  <2>3. QED BY <1>4, <2>2 DEF CreditedBefore
<1>13. QED BY <1>7, <1>8, <1>9, <1>10, <1>11, <1>12 DEF IInv

-----------------------------------------------------------------------------
(* The order in which a cycle looks at the candidates.                     *)

LexLess(k, l) == \E i \in 1..8 : k[i] < l[i] /\ \A j \in 1..(i-1) : k[j] = l[j]

LEMMA LexTransitive ==
  ASSUME NEW k \in [1..8 -> Int], NEW l \in [1..8 -> Int], NEW m \in [1..8 -> Int],
         LexLess(k, l), LexLess(l, m)
  PROVE  LexLess(k, m)
<1>1. PICK a \in 1..8 : k[a] < l[a] /\ \A j \in 1..(a-1) : k[j] = l[j]
  BY DEF LexLess
<1>2. PICK b \in 1..8 : l[b] < m[b] /\ \A j \in 1..(b-1) : l[j] = m[j]
  BY DEF LexLess
<1>3. CASE a <= b
  <2>1. k[a] < m[a] /\ \A j \in 1..(a-1) : k[j] = m[j]
    BY <1>1, <1>2, <1>3, SMTT(20)
  <2>2. QED BY <2>1 DEF LexLess
<1>4. CASE b < a
  <2>1. k[b] < m[b] /\ \A j \in 1..(b-1) : k[j] = m[j]
    BY <1>1, <1>2, <1>4, SMTT(20)
  <2>2. QED BY <2>1 DEF LexLess
<1>5. QED BY <1>3, <1>4, SMTT(20)

(* Keys that differ are ordered by the first place where they do.          *)
LEMMA LexTotal ==
  ASSUME NEW k \in [1..8 -> Int], NEW l \in [1..8 -> Int], NEW p \in 1..8, k[p] # l[p]
  PROVE  LexLess(k, l) \/ LexLess(l, k)
<1> DEFINE Agree(n) == \A j \in 1..n : k[j] = l[j]
<1>1. ASSUME NEW n \in 0..7, Agree(n), ~Agree(n + 1)
      PROVE  LexLess(k, l) \/ LexLess(l, k)
  <2>1. k[n + 1] # l[n + 1] /\ n + 1 \in 1..8 /\ (n + 1) - 1 = n
    BY <1>1, SMTT(20)
  <2>2. k[n + 1] < l[n + 1] \/ l[n + 1] < k[n + 1]
    BY <2>1, SMTT(20)
  <2>3. (\A j \in 1..((n + 1) - 1) : k[j] = l[j]) /\ (\A j \in 1..((n + 1) - 1) : l[j] = k[j])
    BY <1>1, <2>1
  <2>4. QED BY <2>1, <2>2, <2>3 DEF LexLess
<1>2. Agree(0) /\ ~Agree(8)
  BY SMTT(20)
<1> HIDE DEF Agree
<1>3. \/ Agree(0) /\ ~Agree(0 + 1)
      \/ Agree(1) /\ ~Agree(1 + 1)
      \/ Agree(2) /\ ~Agree(2 + 1)
      \/ Agree(3) /\ ~Agree(3 + 1)
      \/ Agree(4) /\ ~Agree(4 + 1)
      \/ Agree(5) /\ ~Agree(5 + 1)
      \/ Agree(6) /\ ~Agree(6 + 1)
      \/ Agree(7) /\ ~Agree(7 + 1)
  BY <1>2, SMTT(20)
<1>4. QED BY <1>1, <1>3, SMTT(20)

(* The sort is strict and total: the id decides what nothing else does.    *)
LEMMA BeforeOrder ==
  ASSUME TypeOK
  PROVE  /\ \A a \in Request : ~Before(a, a)
         /\ \A a, b, c \in Request : Before(a, b) /\ Before(b, c) => Before(a, c)
         /\ \A a, b \in Request : a # b => Before(a, b) \/ Before(b, a)
<1>1. ASSUME NEW r \in Request
      PROVE  SortKey(r) \in [1..8 -> Int] /\ SortKey(r)[8] = r
  <2> DEFINE d == Descriptor[r]
             u == IF Urgent(r) THEN 0 ELSE 1
             n == IF d.deadline = None THEN 1 ELSE 0
  <2>1. d \in DescriptorType /\ rs[r] \in RsType /\ r \in Int
    BY SchedulerAssumption, SMTT(20) DEF ConstantsOK, TypeOK
  <2>2. d.deadline \in Int /\ -d.priority \in Int /\ -d.latency \in Int
    BY <2>1, SMTT(20) DEF DescriptorType, None
  <2>3. -rs[r].aging \in Int /\ rs[r].admitTime \in Int /\ u \in Int /\ n \in Int
    BY <2>1, SMTT(20) DEF RsType
  <2>4. SortKey(r) = <<u, n, d.deadline, -d.priority, -d.latency, -rs[r].aging, rs[r].admitTime, r>>
    BY DEF SortKey
  <2> HIDE DEF d, u, n
  <2>5. QED BY <2>1, <2>2, <2>3, <2>4, SMTT(20)
<1>2. \A a, b \in Request : Before(a, b) <=> LexLess(SortKey(a), SortKey(b))
  BY DEF Before, LexLess
<1>3. \A a \in Request : ~Before(a, a)
  BY <1>1, <1>2, SMTT(20) DEF LexLess
<1>4. \A a, b, c \in Request : Before(a, b) /\ Before(b, c) => Before(a, c)
  BY <1>1, <1>2, LexTransitive
<1>5. ASSUME NEW a \in Request, NEW b \in Request, a # b
      PROVE  Before(a, b) \/ Before(b, a)
  <2>1. SortKey(a)[8] # SortKey(b)[8] /\ 8 \in 1..8
    BY <1>1, <1>5, SMTT(20)
  <2>2. QED BY <1>1, <1>2, <2>1, LexTotal, SMTT(20)
<1>6. QED BY <1>3, <1>4, <1>5

-----------------------------------------------------------------------------
(* run_cycle.  What it makes of a request: the sweep, a dispatch, or a     *)
(* cycle of waiting.                                                       *)

LEMMA ExpireFacts ==
  ASSUME NEW s \in RsType
  PROVE  /\ Expire(s) \in RsType /\ Expire(s).lifecycle = "expired"
         /\ Expire(s).reservation = FALSE /\ Expire(s).attempt = s.attempt
<1> DEFINE t == ReleaseReservation(s)
<1>1. t \in RsType /\ t.reservation = FALSE /\ t.attempt = s.attempt
  BY ReleaseFacts
<1>2. Expire(s) = [t EXCEPT !.lifecycle = "expired"]
  BY DEF Expire
<1> HIDE DEF t
<1>3. "expired" \in Lifecycle
  BY DEF Lifecycle, Terminal
<1>4. [t EXCEPT !.lifecycle = "expired"] \in RsType
  BY <1>1, <1>3 DEF RsType
<1>5. QED BY <1>1, <1>2, <1>4 DEF RsType

LEMMA AgeFacts ==
  ASSUME NEW s \in RsType
  PROVE  LET t == Age(s) IN
         /\ t \in RsType /\ t.lifecycle = s.lifecycle /\ t.attempt = s.attempt
         /\ t.chunk = s.chunk /\ t.gen = s.gen /\ t.reservation = s.reservation
         /\ t.inFlight = s.inFlight /\ t.group = s.group /\ t.worker = s.worker
         /\ t.cancelPending = s.cancelPending
<1> DEFINE a == IF s.lifecycle = "queued" /\ ~s.inFlight /\ s.aging < AgingCap THEN s.aging + 1 ELSE s.aging
<1>1. Age(s) = [s EXCEPT !.aging = a]
  BY DEF Age
<1>2. a \in Nat
  BY SMTT(20) DEF RsType
<1> HIDE DEF a
<1>3. [s EXCEPT !.aging = a] \in RsType
  BY <1>2 DEF RsType
<1>4. QED BY <1>1, <1>3 DEF RsType

LEMMA DispatchTyped ==
  ASSUME NEW r \in Request, rs[r] \in RsType, Pending(r, rs[r].chunk),
         NEW g \in Nat, NEW l \in Nat, NEW w \in Worker
  PROVE  Dispatch(r, g, l, w) \in RsType
<1> DEFINE m == NextMemory(r)
           s == rs[r]
           t == [s EXCEPT !.lifecycle = "dispatched", !.gen = g, !.inFlight = TRUE, !.group = l,
                          !.worker = w, !.reservation = TRUE, !.reservedBytes = m]
<1>1. m \in Nat
  BY ChunkTypes DEF RsType, NextMemory
<1>2. Dispatch(r, g, l, w) = t
  BY DEF Dispatch
<1>3. s \in RsType
  OBVIOUS
<1>4. "dispatched" \in Lifecycle
  BY DEF Lifecycle
<1> HIDE DEF m, s
<1>5. t \in RsType
  BY ONLY <1>1, <1>3, <1>4, g \in Nat, l \in Nat, w \in Worker, ZenonT(60) DEF RsType
<1>6. QED BY <1>2, <1>5

(* The leader of a group leads itself.                                     *)
LEMMA LeadersLead ==
  ASSUME NEW lead \in [Candidates -> Candidates], FirstFit(lead), NEW r \in Candidates
  PROVE  /\ lead[r] \in Candidates /\ lead[lead[r]] = lead[r]
         /\ lead[r] = r \/ Before(lead[r], r)
<1> DEFINE Joined(l) == {q \in DOMAIN lead : lead[q] = l /\ Before(q, r)}
           fitting == {l \in DOMAIN lead : lead[l] = l /\ Before(l, r) /\ Compatible(r, Joined(l))}
<1>1. lead[r] = r \/ lead[r] \in fitting
  BY DEF FirstFit
<1>2. lead[r] = r \/ (lead[lead[r]] = lead[r] /\ Before(lead[r], r))
  BY <1>1
<1>3. QED BY <1>2

(* What one cycle does, for a choice of groups, workers and generations.   *)
Leaders(lead, host) == {l \in {r \in Candidates : lead[r] = r} : host[l] # None}

Issue(r, g, w) ==
  [gen |-> g, req |-> r, attempt |-> rs[r].attempt, chunk |-> rs[r].chunk,
   worker |-> w, boot |-> ws[w].boot, epoch |-> epoch, credits |-> 0, outcome |-> "none"]

(* Each request sent gets a fresh generation and the worker of its leader. *)
Numbering(sent) ==
  /\ Cardinality(sent) \in Nat /\ nextGeneration' = nextGeneration + Cardinality(sent)
  /\ UNCHANGED <<epoch, nextAttempt, now, registrations>>

Assigned(sent, lead, host, gen) ==
  /\ sent \subseteq Candidates
  /\ \A r \in sent : /\ gen[r] \in Nat /\ gen[r] >= nextGeneration /\ gen[r] < nextGeneration'
                     /\ lead[r] \in sent /\ lead[lead[r]] = lead[r]
                     /\ host[lead[r]] \in Worker
  /\ \A q, r \in sent : gen[q] = gen[r] => q = r

(* A request is sent, or expires, or waits.                                *)
Treated(sent, lead, host, gen) ==
  /\ \A r \in sent : rs'[r] = Dispatch(r, gen[r], gen[lead[r]], host[lead[r]])
  /\ \A r \in Expiring : rs'[r] = Expire(rs[r])
  /\ \A r \in Request \ (sent \cup Expiring) : rs'[r] = Age(rs[r])

(* The groups that lost members to the sweep, and the new ones.            *)
Grouped(sent, lead, host, gen) ==
  /\ groups' = Detached(Swept) \cup
               {[id |-> gen[l], worker |-> host[l], outstanding |-> Members(lead, l)] :
                  l \in Leaders(lead, host)}
  /\ \A l \in Leaders(lead, host) : l \in sent /\ l \in Members(lead, l) /\ Members(lead, l) \subseteq sent

Recorded(sent, lead, host, gen) ==
  issued' = issued \cup {Issue(r, gen[r], host[lead[r]]) : r \in sent}

Cycle(sent, lead, host, gen) ==
  /\ Numbering(sent) /\ Assigned(sent, lead, host, gen) /\ Treated(sent, lead, host, gen)
  /\ Grouped(sent, lead, host, gen) /\ Recorded(sent, lead, host, gen)

(* How groups and workers are chosen.                                      *)
Chosen(sent, lead, host) ==
  /\ lead \in [Candidates -> Candidates] /\ FirstFit(lead)
  /\ host \in [{r \in Candidates : lead[r] = r} -> Worker \cup {None}] /\ Hosted(lead, host)
  /\ sent = {r \in Candidates : host[lead[r]] # None}

LEMMA CycleFacts ==
  ASSUME IInv, RunCycle
  PROVE  \E sent, lead, host, gen :
           /\ Cycle(sent, lead, host, gen) /\ CycleEffect(sent, lead, host, gen)
           /\ DOMAIN host \subseteq Request /\ Chosen(sent, lead, host)
           /\ DOMAIN gen = sent /\ Numbered(lead, gen)
<1>1. PICK lead \in [Candidates -> Candidates] :
        /\ FirstFit(lead)
        /\ \E host \in [{r \in Candidates : lead[r] = r} -> Worker \cup {None}] :
             /\ Hosted(lead, host)
             /\ LET sent == {r \in Candidates : host[lead[r]] # None} IN
                \E gen \in Injection(sent, nextGeneration .. nextGeneration + Cardinality(sent) - 1) :
                  Numbered(lead, gen) /\ CycleEffect(sent, lead, host, gen)
  BY DEF RunCycle
<1>2. PICK host \in [{r \in Candidates : lead[r] = r} -> Worker \cup {None}] :
        /\ Hosted(lead, host)
        /\ LET sent == {r \in Candidates : host[lead[r]] # None} IN
           \E gen \in Injection(sent, nextGeneration .. nextGeneration + Cardinality(sent) - 1) :
             Numbered(lead, gen) /\ CycleEffect(sent, lead, host, gen)
  BY <1>1
<1> DEFINE sent == {r \in Candidates : host[lead[r]] # None}
<1>3. PICK gen \in Injection(sent, nextGeneration .. nextGeneration + Cardinality(sent) - 1) :
        Numbered(lead, gen) /\ CycleEffect(sent, lead, host, gen)
  BY <1>2
<1>4. Candidates \subseteq Request /\ Candidates \cap Expiring = {} /\ Expiring \subseteq Request
  BY DEF Candidates, Expiring
<1>5. sent \subseteq Candidates /\ sent \subseteq Request /\ Cardinality(sent) \in Nat
  BY <1>4, CardOfRequests
<1>6. nextGeneration' = nextGeneration + Cardinality(sent) /\ nextGeneration \in Nat
  BY <1>3 DEF CycleEffect, IInv, TypeOK
<1>7. /\ gen \in [sent -> nextGeneration .. nextGeneration + Cardinality(sent) - 1]
      /\ \A q, r \in sent : gen[q] = gen[r] => q = r
  BY <1>3 DEF Injection, IsInjective
<1>8. ASSUME NEW r \in sent
      PROVE  gen[r] \in Nat /\ gen[r] >= nextGeneration /\ gen[r] < nextGeneration'
  <2>1. gen[r] \in nextGeneration .. nextGeneration + Cardinality(sent) - 1
    BY <1>7
  <2>2. QED BY <1>5, <1>6, <2>1, SMTT(20)
<1>9. ASSUME NEW r \in sent
      PROVE  lead[r] \in sent /\ lead[lead[r]] = lead[r] /\ host[lead[r]] \in Worker
  <2>1. r \in Candidates /\ host[lead[r]] # None
    OBVIOUS
  <2>2. lead[r] \in Candidates /\ lead[lead[r]] = lead[r]
    BY <1>1, <2>1, LeadersLead
  <2>3. host[lead[r]] \in Worker \cup {None}
    BY <2>2
  <2>4. QED BY <2>1, <2>2, <2>3
<1>10. ASSUME NEW l \in Leaders(lead, host)
       PROVE  l \in sent /\ l \in Members(lead, l) /\ Members(lead, l) \subseteq sent
  BY <1>10 DEF Leaders, Members
<1>11. Leaders(lead, host) = {k \in DOMAIN host : host[k] # None}
  BY DEF Leaders
<1>12. groups' = Detached(Swept) \cup
               {[id |-> gen[l], worker |-> host[l], outstanding |-> Members(lead, l)] :
                  l \in Leaders(lead, host)}
  BY <1>3, <1>11 DEF CycleEffect
<1>13. issued' = issued \cup {Issue(r, gen[r], host[lead[r]]) : r \in sent}
  BY <1>3 DEF CycleEffect, Issue
<1>14. UNCHANGED <<epoch, nextAttempt, now, registrations>>
  BY DEF RunCycle
<1>15. Chosen(sent, lead, host)
  BY <1>1, <1>2 DEF Chosen
<1> HIDE DEF sent
<1>16. rs' = [r \in Request |->
              IF r \in sent THEN Dispatch(r, gen[r], gen[lead[r]], host[lead[r]])
              ELSE IF r \in Expiring THEN Expire(rs[r]) ELSE Age(rs[r])]
  BY <1>3 DEF CycleEffect
<1>17. /\ \A r \in sent : rs'[r] = Dispatch(r, gen[r], gen[lead[r]], host[lead[r]])
       /\ \A r \in Expiring : rs'[r] = Expire(rs[r])
       /\ \A r \in Request \ (sent \cup Expiring) : rs'[r] = Age(rs[r])
  <2>1. sent \cap Expiring = {}
    BY <1>4, <1>5
  <2>2. \A r \in Request : rs'[r] = IF r \in sent THEN Dispatch(r, gen[r], gen[lead[r]], host[lead[r]])
              ELSE IF r \in Expiring THEN Expire(rs[r]) ELSE Age(rs[r])
    BY ONLY <1>16, ZenonT(60)
  <2>3. QED BY <1>4, <1>5, <2>1, <2>2
<1>18. Cycle(sent, lead, host, gen)
  <2>1. Numbering(sent)
    BY ONLY <1>5, <1>6, <1>14, ZenonT(60) DEF Numbering
  <2>2. Assigned(sent, lead, host, gen)
    BY ONLY <1>5, <1>7, <1>8, <1>9, ZenonT(60) DEF Assigned
  <2>3. Treated(sent, lead, host, gen)
    BY ONLY <1>17, ZenonT(60) DEF Treated
  <2>4. Grouped(sent, lead, host, gen)
    BY ONLY <1>10, <1>12, ZenonT(60) DEF Grouped
  <2>5. Recorded(sent, lead, host, gen)
    BY ONLY <1>13, ZenonT(60) DEF Recorded
  <2>6. QED BY ONLY <2>1, <2>2, <2>3, <2>4, <2>5, ZenonT(60) DEF Cycle
<1>19. DOMAIN host \subseteq Request
  BY <1>4
<1>20. DOMAIN gen = sent
  BY <1>7
<1>21. QED BY <1>3, <1>15, <1>18, <1>19, <1>20

LEMMA CycleCounters ==
  ASSUME IInv, NEW sent, NEW lead, NEW host, NEW gen, Cycle(sent, lead, host, gen)
  PROVE  /\ nextGeneration \in Nat /\ nextGeneration > 0
         /\ nextGeneration' \in Nat /\ nextGeneration <= nextGeneration'
         /\ epoch' = epoch /\ nextAttempt' = nextAttempt /\ now' = now /\ registrations' = registrations
<1>1. /\ Cardinality(sent) \in Nat /\ nextGeneration' = nextGeneration + Cardinality(sent)
      /\ epoch' = epoch /\ nextAttempt' = nextAttempt /\ now' = now /\ registrations' = registrations
  BY DEF Cycle, Numbering
<1>2. nextGeneration \in Nat /\ nextGeneration > 0
  BY DEF IInv, TypeOK, Allocated
<1>3. QED BY ONLY <1>1, <1>2, SMTT(20)

LEMMA CycleTypes ==
  ASSUME IInv, NEW sent, NEW lead, NEW host, NEW gen, DOMAIN host \subseteq Request,
         Cycle(sent, lead, host, gen), CycleEffect(sent, lead, host, gen)
  PROVE  TypeOK'
<1>1. TypeOK /\ GroupsConsistent /\ Candidates \subseteq Request /\ sent \subseteq Request
  BY DEF IInv, Cycle, Assigned, Candidates
<1>2. rs' \in [Request -> RsType]
  <2>1. ASSUME NEW r \in Request
        PROVE  rs'[r] \in RsType
    <3>1. rs[r] \in RsType
      BY <1>1 DEF TypeOK
    <3>2. CASE r \in sent
      <4>1. Pending(r, rs[r].chunk)
        BY <3>2 DEF Cycle, Assigned, Candidates
      <4>2. gen[r] \in Nat /\ gen[lead[r]] \in Nat /\ host[lead[r]] \in Worker
        BY <3>2 DEF Cycle, Assigned
      <4>3. Dispatch(r, gen[r], gen[lead[r]], host[lead[r]]) \in RsType
        BY <3>1, <4>1, <4>2, DispatchTyped
      <4>4. QED BY <3>2, <4>3 DEF Cycle, Treated
    <3>3. CASE r \in Expiring
      BY <3>1, <3>3, ExpireFacts DEF Cycle, Treated
    <3>4. CASE r \in Request \ (sent \cup Expiring)
      BY <3>1, <3>4, AgeFacts DEF Cycle, Treated
    <3>5. QED BY <3>2, <3>3, <3>4
  <2>2. QED BY <2>1 DEF CycleEffect
<1>3. groups' \subseteq GroupType
  <2>1. Detached(Swept) \subseteq GroupType
    BY <1>1, DetachedFacts DEF Swept, Expiring
  <2>2. ASSUME NEW l \in Leaders(lead, host)
        PROVE  [id |-> gen[l], worker |-> host[l], outstanding |-> Members(lead, l)] \in GroupType
    <3>1. l \in sent /\ Members(lead, l) \subseteq Request /\ lead[l] = l
      BY <1>1 DEF Cycle, Grouped, Leaders
    <3>2. gen[l] \in Nat /\ host[l] \in Worker
      BY <3>1 DEF Cycle, Assigned
    <3>3. QED BY <3>1, <3>2 DEF GroupType
  <2>3. QED BY <2>1, <2>2 DEF Cycle, Grouped
<1>4. ws' \in [Worker -> WorkerType]
  <2> DEFINE f == Freed(Emptied(Swept))
             n(w) == Cardinality({l \in DOMAIN host : host[l] = w})
  <2>1. Emptied(Swept) \subseteq groups
    BY DEF Emptied
  <2>2. f \in [Worker -> WorkerType]
    BY <1>1, <2>1, FreedType
  <2>3. ws' = [w \in Worker |-> [f[w] EXCEPT !.busy = @ + n(w)]]
    BY DEF CycleEffect
  <2>4. \A w \in Worker : n(w) \in Nat
    BY CardOfRequests
  <2> HIDE DEF f, n
  <2>5. ASSUME NEW w \in Worker
        PROVE  [f[w] EXCEPT !.busy = @ + n(w)] \in WorkerType
    <3>1. f[w] \in WorkerType /\ n(w) \in Nat
      BY <2>2, <2>4
    <3>2. f[w].busy + n(w) \in Nat
      BY <3>1, SMTT(20) DEF WorkerType
    <3>3. QED BY <3>1, <3>2 DEF WorkerType
  <2>6. QED BY <2>3, <2>5
<1>5. ts' \in [Tenant -> TenantType]
  <2> DEFINE n(t) == Cardinality({r \in Expiring : Descriptor[r].tenant = t})
  <2>1. ts' = [t \in Tenant |-> [ts[t] EXCEPT !.outstanding = Monus(@, n(t))]]
    BY DEF CycleEffect, Refunded
  <2>2. \A t \in Tenant : n(t) \in Nat
    BY CardOfRequests DEF Expiring
  <2> HIDE DEF n
  <2>3. ASSUME NEW t \in Tenant
        PROVE  [ts[t] EXCEPT !.outstanding = Monus(@, n(t))] \in TenantType
    <3>1. ts[t] \in TenantType /\ n(t) \in Nat
      BY <1>1, <2>2 DEF TypeOK
    <3>2. ts[t].outstanding \in Nat
      BY ONLY <3>1, ZenonT(60) DEF TenantType
    <3>3. Monus(ts[t].outstanding, n(t)) \in Nat
      BY ONLY <3>1, <3>2, SMTT(20) DEF Monus
    <3>4. QED BY ONLY <3>1, <3>3, ZenonT(60) DEF TenantType
  <2>4. QED BY <2>1, <2>3
<1>6. issued' \subseteq DispatchType
  <2>1. ASSUME NEW r \in sent
        PROVE  Issue(r, gen[r], host[lead[r]]) \in DispatchType
    <3>1. gen[r] \in Nat /\ host[lead[r]] \in Worker /\ r \in Request
      BY <1>1 DEF Cycle, Assigned
    <3>2. rs[r].attempt \in Nat /\ rs[r].chunk \in Nat /\ epoch \in Nat /\ ws[host[lead[r]]].boot \in Nat
      BY <1>1, <3>1 DEF TypeOK, RsType, WorkerType
    <3>3. QED BY <3>1, <3>2 DEF Issue, DispatchType
  <2>2. QED BY <1>1, <2>1 DEF Cycle, Recorded, TypeOK
<1>7. /\ nextGeneration' \in Nat
      /\ epoch' = epoch /\ nextAttempt' = nextAttempt /\ now' = now /\ registrations' = registrations
  BY CycleCounters
<1>8. QED BY <1>1, <1>2, <1>3, <1>4, <1>5, <1>6, <1>7 DEF TypeOK

(* A request after the cycle: sent, expired, or as it was.                 *)
Sent(r, g, l, w) ==
  /\ rs[r].lifecycle = "queued" /\ Pending(r, rs[r].chunk)
  /\ rs'[r].lifecycle = "dispatched" /\ rs'[r].gen = g /\ rs'[r].inFlight = TRUE
  /\ rs'[r].group = l /\ rs'[r].worker = w
  /\ rs'[r].reservation = TRUE /\ rs'[r].attempt = rs[r].attempt
  /\ rs'[r].chunk = rs[r].chunk /\ rs'[r].cancelPending = rs[r].cancelPending
Kept(r) ==
  /\ rs'[r].lifecycle = rs[r].lifecycle /\ rs'[r].gen = rs[r].gen
  /\ rs'[r].inFlight = rs[r].inFlight /\ rs'[r].group = rs[r].group
  /\ rs'[r].worker = rs[r].worker /\ rs'[r].reservation = rs[r].reservation
  /\ rs'[r].attempt = rs[r].attempt /\ rs'[r].chunk = rs[r].chunk
  /\ rs'[r].cancelPending = rs[r].cancelPending

LEMMA CycleRequests ==
  ASSUME IInv, NEW sent, NEW lead, NEW host, NEW gen, Cycle(sent, lead, host, gen), NEW r \in Request
  PROVE  \/ r \in sent /\ Sent(r, gen[r], gen[lead[r]], host[lead[r]])
         \/ /\ r \notin sent /\ r \in Expiring /\ rs'[r].lifecycle = "expired"
            /\ rs'[r].reservation = FALSE /\ rs'[r].attempt = rs[r].attempt
         \/ r \notin sent /\ r \notin Expiring /\ Kept(r)
<1>1. rs[r] \in RsType
  BY DEF IInv, TypeOK
<1>2. CASE r \in sent
  <2>1. Pending(r, rs[r].chunk) /\ rs[r].lifecycle = "queued"
    BY <1>2 DEF Cycle, Assigned, Candidates
  <2>2. rs'[r] = Dispatch(r, gen[r], gen[lead[r]], host[lead[r]])
    BY <1>2 DEF Cycle, Treated
  <2> DEFINE t == Dispatch(r, gen[r], gen[lead[r]], host[lead[r]])
  <2>3. /\ t.lifecycle = "dispatched" /\ t.gen = gen[r] /\ t.inFlight = TRUE
        /\ t.group = gen[lead[r]] /\ t.worker = host[lead[r]] /\ t.reservation = TRUE
        /\ t.attempt = rs[r].attempt /\ t.chunk = rs[r].chunk
        /\ t.cancelPending = rs[r].cancelPending
    BY ONLY <1>1, ZenonT(60) DEF Dispatch, RsType
  <2> HIDE DEF t
  <2>4. rs'[r] = t
    BY <2>2 DEF t
  <2>5. QED BY <1>2, <2>1, <2>3, <2>4 DEF Sent
<1>3. CASE r \notin sent /\ r \in Expiring
  BY <1>1, <1>3, ExpireFacts DEF Cycle, Treated
<1>4. CASE r \notin sent /\ r \notin Expiring
  <2>1. rs'[r] = Age(rs[r])
    BY <1>4 DEF Cycle, Treated
  <2>2. QED BY <1>1, <1>4, <2>1, AgeFacts DEF Kept
<1>5. QED BY <1>2, <1>3, <1>4

LEMMA CycleGroups ==
  ASSUME IInv, NEW sent, NEW lead, NEW host, NEW gen, Cycle(sent, lead, host, gen)
  PROVE  GroupsConsistent' /\ \A g \in groups' : g.id < nextGeneration'
<1> DEFINE New(l) == [id |-> gen[l], worker |-> host[l], outstanding |-> Members(lead, l)]
           Old(g) == g \in Detached(Swept)
<1>1. /\ TypeOK /\ GroupsConsistent /\ nextGeneration \in Nat /\ nextGeneration' \in Nat
      /\ nextGeneration <= nextGeneration' /\ \A g \in groups : g.id \in Nat /\ g.id < nextGeneration
  <2>1. TypeOK /\ GroupsConsistent /\ \A g \in groups : g.id < nextGeneration
    BY DEF IInv, Allocated
  <2>2. \A g \in groups : g.id \in Nat
    BY <2>1 DEF TypeOK, GroupType
  <2>3. QED BY <2>1, <2>2, CycleCounters
<1>2. /\ Swept \in SUBSET Request
      /\ \A g \in groups' : Old(g) \/ \E l \in Leaders(lead, host) : g = New(l)
  BY DEF Cycle, Grouped, Swept, Expiring
<1>3. ASSUME NEW g \in groups', Old(g)
      PROVE  /\ g.outstanding # {} /\ g.id < nextGeneration
             /\ \E h \in groups : /\ g = Shrunk(h, Swept) /\ g.id = h.id /\ g.worker = h.worker
                                  /\ g.outstanding \subseteq h.outstanding
             /\ g.outstanding \cap Swept = {}
  <2>1. TypeOK /\ GroupsConsistent /\ Swept \in SUBSET Request /\ g \in Detached(Swept)
    BY <1>1, <1>2, <1>3
  <2>2. /\ g.outstanding # {} /\ g.outstanding \cap Swept = {}
        /\ \E h \in groups : /\ g = Shrunk(h, Swept) /\ g.id = h.id /\ g.worker = h.worker
                             /\ g.outstanding \subseteq h.outstanding
    <3>1. \A k \in Detached(Swept) :
            /\ k.outstanding # {} /\ k.outstanding \cap Swept = {}
            /\ \E h \in groups : /\ k = Shrunk(h, Swept) /\ k.id = h.id /\ k.worker = h.worker
                                 /\ k.outstanding \subseteq h.outstanding
      BY ONLY <2>1, DetachedFacts, ZenonT(60)
    <3>2. QED BY ONLY <2>1, <3>1, ZenonT(60)
  <2>3. QED BY ONLY <1>1, <2>2, ZenonT(60)
<1>4. ASSUME NEW l \in Leaders(lead, host)
      PROVE  /\ New(l).id = gen[l] /\ New(l).worker = host[l] /\ New(l).outstanding = Members(lead, l)
             /\ l \in Members(lead, l) /\ l \in sent
             /\ gen[l] \in Nat /\ gen[l] >= nextGeneration /\ gen[l] < nextGeneration'
             /\ \A r \in Members(lead, l) : r \in sent /\ lead[r] = l
  BY DEF Cycle, Assigned, Grouped, Members
<1>5. ASSUME NEW g \in groups', Old(g), NEW r \in g.outstanding
      PROVE  /\ rs'[r].inFlight /\ rs'[r].lifecycle = "dispatched"
             /\ rs'[r].group = g.id /\ rs'[r].worker = g.worker
  <2>1. PICK h \in groups : /\ g.id = h.id /\ g.worker = h.worker
                            /\ g.outstanding \subseteq h.outstanding /\ r \notin Swept
    BY <1>3, <1>5
  <2>2. /\ r \in Request /\ rs[r].inFlight /\ rs[r].lifecycle = "dispatched"
        /\ rs[r].group = g.id /\ rs[r].worker = g.worker
    BY <1>1, <2>1 DEF GroupsConsistent, TypeOK, GroupType
  <2>3. r \notin Expiring
    BY <2>1, <2>2 DEF Swept
  <2>4. r \notin sent
    BY <2>2 DEF Cycle, Assigned, Candidates
  <2>5. Kept(r)
    BY <2>2, <2>3, <2>4, CycleRequests
  <2>6. rs[r].inFlight = TRUE
    BY <1>1, <2>2 DEF TypeOK, RsType
  <2>7. QED BY <2>2, <2>5, <2>6 DEF Kept
<1>6. ASSUME NEW l \in Leaders(lead, host), NEW r \in Members(lead, l)
      PROVE  /\ rs'[r].inFlight /\ rs'[r].lifecycle = "dispatched"
             /\ rs'[r].group = gen[l] /\ rs'[r].worker = host[l]
  <2>1. r \in sent /\ lead[r] = l
    BY <1>4
  <2>2. r \in Request
    BY <2>1 DEF Cycle, Assigned, Candidates
  <2>3. Sent(r, gen[r], gen[lead[r]], host[lead[r]])
    BY <2>1, <2>2, CycleRequests
  <2>4. QED BY <2>1, <2>3 DEF Sent
<1>7. ASSUME NEW g \in groups', NEW h \in groups', h.id = g.id
      PROVE  h = g
  <2>1. CASE Old(g) /\ Old(h)
    <3>1. PICK x \in groups : g = Shrunk(x, Swept) /\ g.id = x.id
      BY <1>3, <2>1
    <3>2. PICK y \in groups : h = Shrunk(y, Swept) /\ h.id = y.id
      BY <1>3, <2>1
    <3>3. x = y
      BY <1>1, <1>7, <3>1, <3>2, SMTT(20) DEF GroupsConsistent
    <3>4. QED BY <3>1, <3>2, <3>3
  <2>2. ASSUME NEW x \in groups', Old(x), NEW l \in Leaders(lead, host)
        PROVE  x.id # New(l).id
    <3>1. x.id \in Nat /\ x.id < nextGeneration
      BY <1>1, <1>3, <2>2
    <3>2. gen[l] \in Nat /\ gen[l] >= nextGeneration /\ New(l).id = gen[l]
      BY <1>4
    <3>3. x.id # gen[l]
      BY <1>1, <3>1, <3>2, SMTT(20)
    <3>4. QED BY <3>2, <3>3
  <2>3. ASSUME NEW k \in Leaders(lead, host), NEW l \in Leaders(lead, host), New(k).id = New(l).id
        PROVE  k = l
    BY <1>4, <2>3 DEF Cycle, Assigned
  <2> HIDE DEF Old, New
  <2>4. QED BY <1>2, <1>7, <2>1, <2>2, <2>3
<1>8. ASSUME NEW g \in groups'
      PROVE  /\ g.outstanding # {} /\ g.id < nextGeneration'
             /\ \A r \in g.outstanding :
                  /\ rs'[r].inFlight /\ rs'[r].lifecycle = "dispatched"
                  /\ rs'[r].group = g.id /\ rs'[r].worker = g.worker
  <2>1. CASE Old(g)
    <3>1. g.id \in Nat /\ g.id < nextGeneration /\ g.outstanding # {}
      BY <1>1, <1>3, <2>1
    <3>2. g.id < nextGeneration'
      BY <1>1, <3>1, SMTT(20)
    <3>3. QED BY <1>5, <2>1, <3>1, <3>2
  <2>2. ASSUME NEW l \in Leaders(lead, host), g = New(l)
        PROVE  /\ g.outstanding # {} /\ g.id < nextGeneration'
               /\ \A r \in g.outstanding :
                    /\ rs'[r].inFlight /\ rs'[r].lifecycle = "dispatched"
                    /\ rs'[r].group = g.id /\ rs'[r].worker = g.worker
    <3> HIDE DEF New
    <3>1. g.outstanding = Members(lead, l) /\ g.id = gen[l] /\ g.worker = host[l]
      BY ONLY <1>4, <2>2, ZenonT(60)
    <3>2. l \in Members(lead, l) /\ gen[l] < nextGeneration'
      BY ONLY <1>4, ZenonT(60)
    <3>3. QED BY ONLY <1>6, <3>1, <3>2, ZenonT(60)
  <2> HIDE DEF Old, New
  <2>3. QED BY <1>2, <2>1, <2>2
<1> HIDE DEF Old, New
<1>9. QED BY <1>7, <1>8 DEF GroupsConsistent

LEMMA CycleStep ==
  ASSUME IInv, RunCycle
  PROVE  IInv'
<1>1. PICK sent, lead, host, gen : /\ Cycle(sent, lead, host, gen)
                                   /\ CycleEffect(sent, lead, host, gen)
                                   /\ DOMAIN host \subseteq Request
  BY CycleFacts
<1> DEFINE New(r) == Issue(r, gen[r], host[lead[r]])
<1>2. TypeOK' /\ GroupsConsistent' /\ \A g \in groups' : g.id < nextGeneration'
  BY <1>1, CycleTypes, CycleGroups
<1>3. /\ TypeOK /\ nextGeneration \in Nat /\ nextGeneration' \in Nat /\ nextGeneration > 0
      /\ nextGeneration <= nextGeneration' /\ nextAttempt' = nextAttempt
      /\ \A d \in issued : d \in DispatchType /\ d.req \in Request /\ d.gen \in Nat /\ d.credits \in Nat
  <2>1. TypeOK /\ issued \subseteq DispatchType
    BY DEF IInv, TypeOK
  <2>2. \A d \in issued : d \in DispatchType /\ d.req \in Request /\ d.gen \in Nat /\ d.credits \in Nat
    BY ONLY <2>1, ZenonT(60) DEF DispatchType
  <2>3. QED BY ONLY <1>1, <2>1, <2>2, IInv, CycleCounters, ZenonT(60)
<1>4. issued' = issued \cup {New(r) : r \in sent}
  BY <1>1 DEF Cycle, Recorded
<1>5. ASSUME NEW r \in sent
      PROVE  /\ r \in Request /\ gen[r] \in Nat /\ gen[r] >= nextGeneration /\ gen[r] < nextGeneration'
             /\ New(r).gen = gen[r] /\ New(r).req = r /\ New(r).attempt = rs[r].attempt
             /\ New(r).chunk = rs[r].chunk /\ New(r).credits = 0
  BY <1>1 DEF Cycle, Assigned, Candidates, Issue
<1> HIDE DEF New
<1>6. PlanInv'
  <2>1. ASSUME NEW r \in Request
        PROVE  /\ rs'[r].lifecycle \in {"queued", "dispatched"} => Pending(r, rs'[r].chunk)
               /\ rs'[r].lifecycle = "queued" => ~rs'[r].inFlight
    BY <1>1, CycleRequests DEF Sent, Kept, IInv, PlanInv, Live
  <2>2. QED BY <2>1 DEF PlanInv, Live
<1>7. Allocated'
  <2>1. ASSUME NEW d \in issued'
        PROVE  d.gen > 0 /\ d.gen < nextGeneration' /\ d.attempt < nextAttempt
    <3>1. CASE d \in issued
      <4>1. d.gen \in Nat /\ d.gen > 0 /\ d.gen < nextGeneration /\ d.attempt < nextAttempt
        BY <1>3, <3>1 DEF IInv, Allocated
      <4>2. QED BY <1>3, <4>1, SMTT(20)
    <3>2. ASSUME NEW r \in sent, d = New(r)
          PROVE  d.gen > 0 /\ d.gen < nextGeneration' /\ d.attempt < nextAttempt
      <4>1. d.gen = gen[r] /\ d.attempt = rs[r].attempt /\ rs[r].attempt < nextAttempt
        BY <1>5, <3>2 DEF IInv, Allocated
      <4>2. gen[r] > 0
        BY <1>3, <1>5, SMTT(20)
      <4>3. QED BY <1>5, <4>1, <4>2
    <3>3. QED BY <1>4, <3>1, <3>2
  <2>2. ASSUME NEW r \in Request
        PROVE  rs'[r].attempt < nextAttempt
    BY <1>1, CycleRequests DEF Sent, Kept, IInv, Allocated
  <2>3. nextGeneration' > 0 /\ nextAttempt > 0
    BY <1>3, SMTT(20) DEF IInv, Allocated
  <2>4. QED BY <1>2, <1>3, <2>1, <2>2, <2>3 DEF Allocated
<1>8. GenerationsDiffer'
  <2>1. ASSUME NEW d \in issued, NEW r \in sent
        PROVE  d.gen # New(r).gen
    <3>1. d.gen \in Nat /\ d.gen < nextGeneration
      BY <1>3 DEF IInv, Allocated
    <3>2. QED BY <1>3, <1>5, <3>1, SMTT(20)
  <2>2. ASSUME NEW q \in sent, NEW r \in sent, New(q).gen = New(r).gen
        PROVE  New(q) = New(r)
    <3>1. gen[q] = gen[r]
      BY <1>5, <2>2
    <3>2. q = r
      BY <1>1, <3>1 DEF Cycle, Assigned
    <3>3. QED BY <3>2
  <2>3. QED BY <1>4, <2>1, <2>2, SMTT(20) DEF IInv, GenerationsDiffer
<1>9. ReservedIffInFlight'
  <2>1. ASSUME NEW r \in Request
        PROVE  rs'[r].reservation <=> rs'[r].inFlight /\ rs'[r].lifecycle = "dispatched"
    BY <1>1, CycleRequests DEF Sent, Kept, IInv, ReservedIffInFlight
  <2>2. QED BY <2>1 DEF ReservedIffInFlight
<1>10. InFlightIssued'
  <2>1. ASSUME NEW r \in Request, rs'[r].inFlight, rs'[r].lifecycle = "dispatched"
        PROVE  \E d \in issued' : /\ d.gen = rs'[r].gen /\ d.req = r /\ d.attempt = rs'[r].attempt
                                  /\ d.chunk = rs'[r].chunk /\ d.credits = 0
    <3>1. CASE r \in sent
      <4>1. New(r) \in issued'
        BY <1>4, <3>1
      <4>2. Sent(r, gen[r], gen[lead[r]], host[lead[r]])
        BY <1>1, <3>1, CycleRequests
      <4>3. QED BY <1>5, <3>1, <4>1, <4>2 DEF Sent
    <3>2. CASE r \notin sent
      <4>1. /\ rs'[r].gen = rs[r].gen /\ rs'[r].attempt = rs[r].attempt /\ rs'[r].chunk = rs[r].chunk
            /\ rs'[r].inFlight = rs[r].inFlight /\ rs'[r].lifecycle = rs[r].lifecycle
        BY <1>1, <2>1, <3>2, CycleRequests DEF Kept
      <4>2. rs'[r] \in RsType /\ rs'[r].inFlight = TRUE
        BY <1>2, <2>1 DEF TypeOK, RsType
      <4>3. PICK d \in issued : /\ d.gen = rs[r].gen /\ d.req = r /\ d.attempt = rs[r].attempt
                                /\ d.chunk = rs[r].chunk /\ d.credits = 0
        BY <2>1, <4>1, <4>2 DEF IInv, InFlightIssued
      <4>4. QED BY <1>4, <4>1, <4>3
    <3>3. QED BY <3>1, <3>2
  <2>2. QED BY <2>1 DEF InFlightIssued
<1>11. \A d \in issued' : d.credits > 0 => d \in issued
  BY <1>4, <1>5, SMTT(20)
<1>12. CreditedBefore'
  <2>1. ASSUME NEW d \in issued, d.credits > 0, Active(d.req)', d.attempt = rs'[d.req].attempt
        PROVE  d.chunk < rs'[d.req].chunk
    <3>1. d.req \in Request
      BY <1>3
    <3>2. /\ Active(d.req) /\ rs'[d.req].attempt = rs[d.req].attempt
          /\ rs'[d.req].chunk = rs[d.req].chunk
      BY <1>1, <2>1, <3>1, CycleRequests DEF Sent, Kept, Active
    <3>3. QED BY <2>1, <3>2 DEF IInv, CreditedBefore
  <2>2. QED BY <1>11, <2>1 DEF CreditedBefore
<1>13. ChunkAppliedOnce'
  <2>1. \A d \in issued' : d.credits <= 1
    BY <1>4, <1>5, SMTT(20) DEF IInv, ChunkAppliedOnce
  <2>2. QED BY <1>11, <2>1 DEF IInv, ChunkAppliedOnce
<1>14. QED BY <1>2, <1>6, <1>7, <1>8, <1>9, <1>10, <1>12, <1>13 DEF IInv

-----------------------------------------------------------------------------
(* report_completion.                                                      *)

(* An authoritative report is about the current dispatch of a request in   *)
(* flight, which was not credited yet.                                     *)
LEMMA AuthoritativeFacts ==
  ASSUME IInv, NEW d \in issued, NEW m \in Reports(d), Authoritative(d, m)
  PROVE  /\ d.req \in Request /\ rs[d.req] \in RsType
         /\ rs[d.req].inFlight /\ rs[d.req].lifecycle = "dispatched"
         /\ d.attempt = rs[d.req].attempt /\ d.chunk = rs[d.req].chunk /\ d.credits = 0
         /\ Pending(d.req, d.chunk)
<1>1. d.req \in Request /\ rs[d.req] \in RsType
  BY DEF IInv, TypeOK, DispatchType
<1>2. rs[d.req].inFlight /\ rs[d.req].lifecycle = "dispatched" /\ Live(d.req)
      /\ d.gen = rs[d.req].gen /\ d.attempt = rs[d.req].attempt
  BY <1>1 DEF Authoritative, Live, IInv, PlanInv
<1>3. PICK e \in issued : /\ e.gen = rs[d.req].gen /\ e.req = d.req /\ e.attempt = rs[d.req].attempt
                          /\ e.chunk = rs[d.req].chunk /\ e.credits = 0
  BY <1>1, <1>2 DEF IInv, InFlightIssued
<1>4. d = e
  BY <1>2, <1>3 DEF IInv, GenerationsDiffer
<1>5. QED BY <1>1, <1>2, <1>3, <1>4 DEF IInv, PlanInv

(* The common part of the handler, for any outcome that leaves the request *)
(* at rest, moves it to its next chunk, or starts a new attempt.           *)
LEMMA FinishStep ==
  ASSUME IInv, NEW d \in issued, NEW m \in Reports(d), Authoritative(d, m),
         NEW outcome \in Outcome, NEW s \in RsType, Finish(d, outcome, s),
         nextAttempt' = nextAttempt \/ nextAttempt' = nextAttempt + 1,
         s.inFlight = FALSE, s.attempt < nextAttempt',
         s.lifecycle \in {"queued", "dispatched"} => Pending(d.req, s.chunk),
         s.lifecycle = "queued" => \/ s.attempt = nextAttempt
                                   \/ s.attempt = d.attempt /\ s.chunk = d.chunk + 1
  PROVE  IInv'
<1> DEFINE r == d.req
           t == [ReleaseReservation(s) EXCEPT !.group = 0]
           c == [d EXCEPT !.credits = @ + 1, !.outcome = outcome]
<1>1. TypeOK /\ GroupsConsistent /\ nextAttempt \in Nat /\ d \in DispatchType
  BY DEF IInv, TypeOK
<1>2. /\ r \in Request /\ rs[r] \in RsType /\ rs[r].inFlight /\ rs[r].lifecycle = "dispatched"
      /\ d.attempt = rs[r].attempt /\ d.chunk = rs[r].chunk /\ d.credits = 0
  BY AuthoritativeFacts
<1>3. /\ rs' = [rs EXCEPT ![r] = t] /\ groups' = Detached({r}) /\ ws' = Freed(Emptied({r}))
      /\ ts' = IF s.lifecycle \in Terminal THEN Settled(r) ELSE ts
      /\ issued' = (issued \ {d}) \cup {c}
      /\ UNCHANGED <<epoch, nextGeneration, now, registrations>>
  BY DEF Finish
<1>4. /\ t \in RsType /\ t.inFlight = FALSE /\ t.reservation = FALSE /\ t.attempt = s.attempt
      /\ t.chunk = s.chunk /\ t.lifecycle = s.lifecycle
  BY ReleaseFacts DEF RsType
<1>5. /\ c \in DispatchType /\ c.gen = d.gen /\ c.req = r /\ c.attempt = d.attempt
      /\ c.chunk = d.chunk /\ c.credits = 1
  <2>1. d.credits + 1 \in Nat /\ d.credits + 1 = 1 /\ outcome \in Outcome \cup {"none"}
    BY <1>2, SMTT(20)
  <2>2. c \in DispatchType
    BY ONLY <1>1, <2>1, ZenonT(60) DEF DispatchType
  <2>3. QED BY <1>1, <2>1, <2>2 DEF DispatchType
<1> HIDE DEF t, c, r
<1>6. rs'[r] = t /\ \A q \in Request \ {r} : rs'[q] = rs[q]
  BY <1>1, <1>2, <1>3 DEF TypeOK
<1>7. TypeOK'
  <2>1. ts' \in [Tenant -> TenantType]
    BY <1>1, <1>2, <1>3, SettledType DEF TypeOK
  <2>2. nextAttempt' \in Nat
    BY <1>1, SMTT(20)
  <2>3. QED BY <1>1, <1>2, <1>3, <1>4, <1>5, <2>1, <2>2, DetachTypes DEF TypeOK
<1>8. PlanInv'
  BY <1>4, <1>6 DEF IInv, PlanInv, Live, r
<1>9. Allocated'
  <2>1. \A g \in groups' : g.id < nextGeneration
    BY <1>2, <1>3, DetachTypes
  <2>2. \A e \in issued' : e.gen > 0 /\ e.gen < nextGeneration /\ e.attempt < nextAttempt
    BY <1>3, <1>5 DEF IInv, Allocated
  <2>3. \A e \in issued' : e.attempt \in Nat
    BY <1>7 DEF TypeOK, DispatchType
  <2>4. \A q \in Request : rs[q].attempt < nextAttempt /\ rs[q].attempt \in Nat
    BY <1>1 DEF IInv, Allocated, TypeOK, RsType
  <2>5. ASSUME NEW q \in Request
        PROVE  rs'[q].attempt < nextAttempt'
    <3>1. CASE q = r
      BY <1>4, <1>6, <3>1
    <3>2. CASE q # r
      <4>1. rs'[q] = rs[q] /\ rs[q].attempt < nextAttempt /\ rs[q].attempt \in Nat
        BY ONLY <1>6, <2>4, <3>2, q \in Request, ZenonT(60)
      <4>2. nextAttempt \in Nat /\ (nextAttempt' = nextAttempt \/ nextAttempt' = nextAttempt + 1)
        BY <1>1
      <4>3. QED BY ONLY <4>1, <4>2, SMTT(20)
    <3>3. QED BY ONLY <3>1, <3>2, ZenonT(60)
  <2>6. \A e \in issued' : e.attempt < nextAttempt'
    BY <1>1, <2>2, <2>3, SMTT(20)
  <2>7. nextGeneration > 0 /\ nextAttempt' > 0
    BY <1>1, SMTT(20) DEF IInv, Allocated
  <2>8. QED BY <1>3, <2>1, <2>2, <2>5, <2>6, <2>7 DEF Allocated
<1>10. GenerationsDiffer'
  BY <1>3, <1>5, SMTT(20) DEF IInv, GenerationsDiffer
<1>11. ReservedIffInFlight'
  BY <1>4, <1>6 DEF IInv, ReservedIffInFlight
<1>12. GroupsConsistent'
  <2>1. \A q \in Request \ {r} : SameDispatch(q)
    BY <1>6 DEF SameDispatch
  <2>2. QED BY <1>1, <1>2, <1>3, <2>1, DetachKeepsGroups
<1>13. InFlightIssued'
  <2> SUFFICES ASSUME NEW q \in Request, rs'[q].inFlight /\ rs'[q].lifecycle = "dispatched"
               PROVE  \E e \in issued' : /\ e.gen = rs'[q].gen /\ e.req = q
                                         /\ e.attempt = rs'[q].attempt
                                         /\ e.chunk = rs'[q].chunk /\ e.credits = 0
    BY DEF InFlightIssued
  <2>1. q # r /\ rs'[q] = rs[q]
    BY <1>4, <1>6
  <2>2. PICK e \in issued : /\ e.gen = rs[q].gen /\ e.req = q /\ e.attempt = rs[q].attempt
                            /\ e.chunk = rs[q].chunk /\ e.credits = 0
    BY <2>1 DEF IInv, InFlightIssued
  <2>3. e # d
    BY ONLY <2>1, <2>2, ZenonT(60) DEF r
  <2>4. e \in issued'
    BY ONLY <1>3, <2>3, ZenonT(60)
  <2>5. QED BY ONLY <2>1, <2>2, <2>4, ZenonT(60)
<1>14. CreditedBefore'
  <2> SUFFICES ASSUME NEW e \in issued', e.credits > 0, Active(e.req)', e.attempt = rs'[e.req].attempt
               PROVE  e.chunk < rs'[e.req].chunk
    BY DEF CreditedBefore
  <2>1. e.req \in Request /\ e.chunk \in Nat /\ d.chunk \in Nat
    BY <1>1, <1>7 DEF TypeOK, DispatchType
  <2>2. CASE e.req # r
    BY <1>3, <1>5, <1>6, <2>1, <2>2 DEF IInv, CreditedBefore, Active
  <2>3. CASE e.req = r
    <3>1. s.lifecycle = "queued" /\ e.attempt = s.attempt
      BY <1>4, <1>6, <2>3 DEF Active
    <3>2. e.attempt < nextAttempt
      BY <1>3, <1>5 DEF IInv, Allocated
    <3>3. s.attempt # nextAttempt
      <4>1. nextAttempt \in Nat
        BY <1>1
      <4>2. QED BY ONLY <3>1, <3>2, <4>1, SMTT(20)
    <3>4. s.attempt = d.attempt /\ s.chunk = d.chunk + 1
      BY ONLY <3>1, <3>3, s.lifecycle = "queued" => \/ s.attempt = nextAttempt
                                                    \/ s.attempt = d.attempt /\ s.chunk = d.chunk + 1, ZenonT(60)
    <3>5. e = c \/ (e \in issued /\ e.chunk < d.chunk)
      BY <1>2, <1>3, <2>3, <3>1, <3>4 DEF IInv, CreditedBefore, Active
    <3>6. rs'[e.req].chunk = d.chunk + 1 /\ (e = c => e.chunk = d.chunk)
      BY ONLY <1>4, <1>5, <1>6, <2>3, <3>4, ZenonT(60)
    <3>7. QED BY ONLY <2>1, <3>5, <3>6, SMTT(20)
  <2>4. QED BY <2>2, <2>3
<1>15. ChunkAppliedOnce'
  <2>1. ASSUME NEW e \in issued \ {d}, e.credits > 0, e.req = r, e.attempt = d.attempt
        PROVE  e.chunk < d.chunk
    BY <1>2, <2>1 DEF IInv, CreditedBefore, Active
  <2>2. \A e \in issued' : e.chunk \in Nat /\ e.credits \in Nat
    BY <1>7 DEF TypeOK, DispatchType
  <2>3. \A e \in issued \ {d} : e \in issued'
    BY <1>3
  <2>4. \A e \in issued' : e.credits <= 1
    BY <1>3, <1>5, SMTT(20) DEF IInv, ChunkAppliedOnce
  <2>5. QED
    BY <1>1, <1>3, <1>5, <2>1, <2>2, <2>3, <2>4, SMTT(20) DEF IInv, ChunkAppliedOnce, DispatchType
<1>16. QED BY <1>7, <1>8, <1>9, <1>10, <1>11, <1>12, <1>13, <1>14, <1>15 DEF IInv

(* Counting the chunk's tokens ends the flight and changes nothing else.   *)
LEMMA CountedFacts ==
  ASSUME NEW r \in Request, rs[r] \in RsType, Pending(r, rs[r].chunk)
  PROVE  /\ Counted(r) \in RsType /\ Counted(r).inFlight = FALSE
         /\ Counted(r).attempt = rs[r].attempt /\ Counted(r).chunk = rs[r].chunk
         /\ Counted(r).lifecycle = rs[r].lifecycle
         /\ Counted(r).cancelPending = rs[r].cancelPending
<1>1. Tokens(r, rs[r].chunk) \in Nat
  BY ChunkTypes DEF RsType
<1>2. rs[r].completed + Tokens(r, rs[r].chunk) \in Nat
  BY <1>1, SMTT(20) DEF RsType
<1>3. Counted(r) \in RsType
  BY <1>2 DEF Counted, RsType
<1>4. QED BY <1>3 DEF Counted, RsType

(* A record that ends.                                                     *)
LEMMA EndFacts ==
  ASSUME NEW s \in RsType, NEW l \in Terminal
  PROVE  /\ [s EXCEPT !.lifecycle = l] \in RsType
         /\ [s EXCEPT !.lifecycle = l].lifecycle = l
         /\ [s EXCEPT !.lifecycle = l].inFlight = s.inFlight
         /\ [s EXCEPT !.lifecycle = l].attempt = s.attempt
         /\ [s EXCEPT !.lifecycle = l, !.cancelPending = FALSE] \in RsType
         /\ [s EXCEPT !.lifecycle = l, !.cancelPending = FALSE].lifecycle = l
         /\ [s EXCEPT !.lifecycle = l, !.cancelPending = FALSE].inFlight = s.inFlight
         /\ [s EXCEPT !.lifecycle = l, !.cancelPending = FALSE].attempt = s.attempt
<1>1. l \in Lifecycle
  BY DEF Lifecycle
<1>2. [s EXCEPT !.lifecycle = l] \in RsType
  BY <1>1 DEF RsType
<1>3. [s EXCEPT !.lifecycle = l, !.cancelPending = FALSE] \in RsType
  BY <1>1 DEF RsType
<1>4. QED BY <1>2, <1>3 DEF RsType

(* What a success makes of a request.                                      *)
LEMMA AfterSuccessFacts ==
  ASSUME NEW r \in Request, rs[r] \in RsType, Pending(r, rs[r].chunk)
  PROVE  LET s == AfterSuccess(r) IN
         /\ s \in RsType /\ s.inFlight = FALSE /\ s.attempt = rs[r].attempt
         /\ \/ s.lifecycle = "cancelled" /\ rs[r].cancelPending
            \/ s.lifecycle = "completed" /\ ~rs[r].cancelPending
            \/ /\ s.lifecycle = "queued" /\ ~rs[r].cancelPending
               /\ s.chunk = rs[r].chunk + 1 /\ Pending(r, s.chunk)
<1> DEFINE c == Counted(r)
<1>1. /\ c \in RsType /\ c.inFlight = FALSE /\ c.attempt = rs[r].attempt /\ c.chunk = rs[r].chunk
      /\ c.cancelPending = rs[r].cancelPending
  BY CountedFacts
<1>2. AfterSuccess(r) = IF c.cancelPending THEN [c EXCEPT !.lifecycle = "cancelled", !.cancelPending = FALSE]
                        ELSE IF Pending(r, c.chunk + 1) THEN [c EXCEPT !.lifecycle = "queued", !.chunk = @ + 1]
                        ELSE [c EXCEPT !.lifecycle = "completed"]
  BY DEF AfterSuccess
<1> HIDE DEF c
<1>3. CASE c.cancelPending
  <2>1. AfterSuccess(r) = [c EXCEPT !.lifecycle = "cancelled", !.cancelPending = FALSE]
    BY <1>2, <1>3
  <2>2. "cancelled" \in Terminal
    BY DEF Terminal
  <2>3. LET e == [c EXCEPT !.lifecycle = "cancelled", !.cancelPending = FALSE]
        IN  e \in RsType /\ e.lifecycle = "cancelled" /\ e.inFlight = c.inFlight /\ e.attempt = c.attempt
    BY <1>1, <2>2, EndFacts
  <2>4. QED BY <1>1, <1>3, <2>1, <2>3
<1>4. CASE ~c.cancelPending /\ Pending(r, c.chunk + 1)
  <2>1. AfterSuccess(r) = [c EXCEPT !.lifecycle = "queued", !.chunk = @ + 1]
    BY <1>2, <1>4
  <2>2. "queued" \in Lifecycle /\ c.chunk + 1 \in Nat
    BY <1>1, SMTT(20) DEF Lifecycle, RsType
  <2>3. [c EXCEPT !.lifecycle = "queued", !.chunk = @ + 1] \in RsType
    BY <1>1, <2>2 DEF RsType
  <2>4. QED BY <1>1, <1>4, <2>1, <2>3 DEF RsType
<1>5. CASE ~c.cancelPending /\ ~Pending(r, c.chunk + 1)
  <2>1. AfterSuccess(r) = [c EXCEPT !.lifecycle = "completed"]
    BY <1>2, <1>5
  <2>2. "completed" \in Terminal
    BY DEF Terminal
  <2>3. LET e == [c EXCEPT !.lifecycle = "completed"]
        IN  e \in RsType /\ e.lifecycle = "completed" /\ e.inFlight = c.inFlight /\ e.attempt = c.attempt
    BY <1>1, <2>2, EndFacts
  <2>4. QED BY <1>1, <1>5, <2>1, <2>3
<1>6. QED BY <1>3, <1>4, <1>5

LEMMA ReportStep ==
  ASSUME IInv, NEW d \in issued, ReportCompletion(d)
  PROVE  IInv'
<1> DEFINE r == d.req
           c == Counted(r)
<1>1. PICK m \in Reports(d) : Authoritative(d, m)
  BY DEF ReportCompletion
<1>2. /\ r \in Request /\ rs[r] \in RsType /\ rs[r].lifecycle = "dispatched"
      /\ d.attempt = rs[r].attempt /\ d.chunk = rs[r].chunk /\ Pending(r, rs[r].chunk)
  BY <1>1, AuthoritativeFacts
<1>3. /\ c \in RsType /\ c.inFlight = FALSE /\ c.attempt = rs[r].attempt
      /\ c.chunk = rs[r].chunk /\ c.lifecycle = "dispatched"
  BY <1>2, CountedFacts
<1>4. rs[r].attempt < nextAttempt /\ nextAttempt \in Nat /\ rs[r].attempt \in Nat
  BY <1>2 DEF IInv, TypeOK, Allocated, RsType
<1>5. ASSUME NEW outcome \in Outcome, NEW s \in RsType, Finish(d, outcome, s),
             s.inFlight = FALSE, s.attempt = rs[r].attempt, s.lifecycle \in Terminal,
             nextAttempt' = nextAttempt
      PROVE  IInv'
  BY <1>1, <1>4, <1>5, FinishStep DEF Terminal
<1> HIDE DEF c
<1>6. CASE ReportStaleRejected(d)
  <2>1. Finish(d, "stale_rejected", c) /\ nextAttempt' = nextAttempt /\ "stale_rejected" \in Outcome
    BY <1>6 DEF ReportStaleRejected, Outcome, c
  <2>2. QED BY <1>1, <1>2, <1>3, <1>4, <2>1, FinishStep
<1>7. CASE ReportRetryable(d)
  <2>1. "retryable_failure" \in Outcome /\ "failed_non_retryable" \in Terminal
    BY DEF Outcome, Terminal
  <2>2. CASE /\ Finish(d, "retryable_failure", Restart(c)) /\ nextAttempt' = nextAttempt + 1
    <3>1. Pending(r, 0)
      BY <1>2, ChunkTypes DEF RsType
    <3>2. /\ Restart(c) \in RsType /\ Restart(c).attempt = nextAttempt /\ Restart(c).chunk = 0
          /\ Restart(c).lifecycle = "queued" /\ Restart(c).inFlight = FALSE
      BY <1>3, RestartFacts
    <3>3. Restart(c).attempt < nextAttempt'
      BY <1>4, <2>2, <3>2, SMTT(20)
    <3>4. Restart(c).lifecycle \in {"queued", "dispatched"} => Pending(d.req, Restart(c).chunk)
      BY <3>1, <3>2
    <3>5. QED BY <1>1, <2>1, <2>2, <3>2, <3>3, <3>4, FinishStep
  <2>3. CASE /\ Finish(d, "retryable_failure", [c EXCEPT !.lifecycle = "failed_non_retryable"])
             /\ nextAttempt' = nextAttempt
    BY <1>3, <1>5, <2>1, <2>3, EndFacts
  <2>4. QED BY <1>7, <2>2, <2>3 DEF ReportRetryable, c
<1>8. CASE ReportNonRetryable(d)
  <2>1. "non_retryable_failure" \in Outcome /\ "failed_non_retryable" \in Terminal
    BY DEF Outcome, Terminal
  <2>2. /\ Finish(d, "non_retryable_failure", [c EXCEPT !.lifecycle = "failed_non_retryable"])
        /\ nextAttempt' = nextAttempt
    BY <1>8 DEF ReportNonRetryable, c
  <2>3. QED BY <1>3, <1>5, <2>1, <2>2, EndFacts
<1>9. CASE ReportCancelled(d)
  <2>1. "cancelled" \in Outcome /\ "cancelled" \in Terminal
    BY DEF Outcome, Terminal
  <2>2. /\ Finish(d, "cancelled", [c EXCEPT !.lifecycle = "cancelled", !.cancelPending = FALSE])
        /\ nextAttempt' = nextAttempt
    BY <1>9 DEF ReportCancelled, c
  <2>3. QED BY <1>3, <1>5, <2>1, <2>2, EndFacts
<1>10. CASE ReportExpired(d)
  <2>1. "expired" \in Outcome /\ "expired" \in Terminal
    BY DEF Outcome, Terminal
  <2>2. /\ Finish(d, "expired", [c EXCEPT !.lifecycle = "expired"]) /\ nextAttempt' = nextAttempt
    BY <1>10 DEF ReportExpired, c
  <2>3. QED BY <1>3, <1>5, <2>1, <2>2, EndFacts
<1>11. CASE ReportSuccess(d)
  <2> DEFINE s == AfterSuccess(r)
  <2>1. Finish(d, "success", s) /\ nextAttempt' = nextAttempt /\ "success" \in Outcome
    BY <1>11 DEF ReportSuccess, Outcome
  <2>2. /\ s \in RsType /\ s.inFlight = FALSE /\ s.attempt = rs[r].attempt
        /\ \/ s.lifecycle \in Terminal
           \/ s.lifecycle = "queued" /\ s.chunk = rs[r].chunk + 1 /\ Pending(r, s.chunk)
    BY <1>2, AfterSuccessFacts DEF Terminal
  <2> HIDE DEF s
  <2>3. CASE s.lifecycle \in Terminal
    BY <1>5, <2>1, <2>2, <2>3
  <2>4. CASE s.lifecycle = "queued" /\ s.chunk = rs[r].chunk + 1 /\ Pending(r, s.chunk)
    BY <1>1, <1>2, <1>4, <2>1, <2>2, <2>4, FinishStep
  <2>5. QED BY <2>2, <2>3, <2>4
<1>12. QED BY <1>6, <1>7, <1>8, <1>9, <1>10, <1>11 DEF ReportCompletion, Report

-----------------------------------------------------------------------------
LEMMA NextStep ==
  ASSUME IInv, [Next]_vars
  PROVE  IInv'
<1>1. CASE Next
  <2>1. ASSUME NEW r \in Request, Submit(r) \/ Cancel(r) \/ ForceRetry(r)
        PROVE  IInv'
    BY <2>1, SubmitStep, CancelStep, ForceRetryStep
  <2>2. ASSUME NEW d \in issued, ReportCompletion(d) \/ CancelGeneration(d)
        PROVE  IInv'
    BY <2>2, ReportStep, CancelGenerationStep
  <2>3. ASSUME NEW w \in Worker, WorkerLost(w)
        PROVE  IInv'
    BY <2>3, WorkerLostStep
  <2>4. CASE RunCycle
    BY <2>4, CycleStep
  <2>5. CASE \/ \E w \in Worker : UnregisterWorker(w)
             \/ \E w \in Worker, boot \in 1 .. MaxRegistrations : RegisterWorker(w, boot)
             \/ AttachExecutor \/ RollEpoch \/ Tick
    BY <2>5, WorkerSteps
  <2>6. QED BY <1>1, <2>1, <2>2, <2>3, <2>4, <2>5 DEF Next
<1>2. CASE UNCHANGED vars
  <2>1. TypeOK'
    BY <1>2 DEF vars, IInv, TypeOK
  <2>2. QED BY <1>2, <2>1, IdleStep DEF vars
<1>3. QED BY <1>1, <1>2

(* The inductive invariant holds of every state the scheduler's calls can  *)
(* reach.                                                                  *)
THEOREM Invariance == Spec => []IInv
<1>1. Init => IInv
  BY InitIInv
<1>2. IInv /\ [Next]_vars => IInv'
  BY NextStep
<1>3. QED BY <1>1, <1>2, PTL DEF Spec

(* Every call leaves the scheduler's tables well formed: the counters that *)
(* decrement (busy units, tenant totals) never leave the naturals.         *)
THEOREM TypeCorrect == Spec => []TypeOK
<1>1. IInv => TypeOK
  BY DEF IInv
<1>2. QED BY <1>1, Invariance, PTL

(* Memory is held for a request exactly while it executes: no handler      *)
(* leaks a reservation or drops one early, whatever the order of calls.    *)
THEOREM MemoryHeldWhileExecuting == Spec => []ReservedIffInFlight
<1>1. IInv => ReservedIffInFlight
  BY DEF IInv
<1>2. QED BY <1>1, Invariance, PTL

(* The group table and the request table agree, on whichever of the paths  *)
(* completion, expiry, retry and worker loss the members left.             *)
THEOREM GroupsAgreeWithRequests == Spec => []GroupsConsistent
<1>1. IInv => GroupsConsistent
  BY DEF IInv
<1>2. QED BY <1>1, Invariance, PTL

(* A chunk is credited at most once per attempt, however often and late    *)
(* its reports arrive and whatever is retried, lost or rolled between.     *)
THEOREM ChunksAppliedOnce == Spec => []ChunkAppliedOnce
<1>1. IInv => ChunkAppliedOnce
  BY DEF IInv
<1>2. QED BY <1>1, Invariance, PTL

-----------------------------------------------------------------------------
(* What the scheduler's calls do to workers, dispatches and flights.       *)

Flies(s) == s.inFlight /\ s.lifecycle = "dispatched"

(* A call that moves no worker in or out of service.                       *)
KeepsWorkers == \A w \in Worker : ws'[w].state = ws[w].state /\ ws'[w].boot = ws[w].boot

LEMMA FreedKeeps ==
  ASSUME TypeOK, NEW gone, NEW w \in Worker
  PROVE  Freed(gone)[w].state = ws[w].state /\ Freed(gone)[w].boot = ws[w].boot
<1>1. ws[w] \in WorkerType
  BY DEF TypeOK
<1>2. Freed(gone)[w] = [ws[w] EXCEPT !.busy = Monus(ws[w].busy, Cardinality({g \in gone : g.worker = w}))]
  BY DEF Freed
<1>3. QED BY <1>1, <1>2 DEF WorkerType

LEMMA CycleKeepsWorkers ==
  ASSUME IInv, RunCycle
  PROVE  KeepsWorkers
<1>1. PICK sent, lead, host, gen : CycleEffect(sent, lead, host, gen)
  BY CycleFacts
<1> DEFINE gone == Emptied(Swept)
<1> SUFFICES ASSUME NEW w \in Worker
             PROVE  ws'[w].state = ws[w].state /\ ws'[w].boot = ws[w].boot
  BY DEF KeepsWorkers
<1>2. ws'[w] = [Freed(gone)[w] EXCEPT !.busy = @ + Cardinality({l \in DOMAIN host : host[l] = w})]
  BY <1>1 DEF CycleEffect
<1>3. gone \in SUBSET groups
  BY DEF Emptied
<1>4. Freed(gone)[w] \in WorkerType
  BY <1>3, FreedType DEF IInv
<1>5. Freed(gone)[w].state = ws[w].state /\ Freed(gone)[w].boot = ws[w].boot
  BY FreedKeeps DEF IInv
<1> HIDE DEF gone
<1>6. QED BY ONLY <1>2, <1>4, <1>5, ZenonT(60) DEF WorkerType

(* Every outcome of a report leaves the request known and on the ground.   *)
LEMMA ReportFinishes ==
  ASSUME IInv, NEW d \in issued, ReportCompletion(d)
  PROVE  \E outcome \in Outcome : \E s \in RsType :
           s.inFlight = FALSE /\ s.lifecycle # "absent" /\ Finish(d, outcome, s)
<1> DEFINE r == d.req
           c == Counted(r)
<1>1. r \in Request /\ rs[r] \in RsType /\ rs[r].lifecycle = "dispatched" /\ Pending(r, rs[r].chunk)
  BY AuthoritativeFacts DEF ReportCompletion
<1>2. c \in RsType /\ c.inFlight = FALSE /\ c.lifecycle = "dispatched"
  BY <1>1, CountedFacts
<1>3. {"cancelled", "expired", "failed_non_retryable"} \subseteq Terminal
  BY DEF Terminal
<1>4. {"success", "retryable_failure", "non_retryable_failure", "cancelled", "expired", "stale_rejected"}
        \subseteq Outcome
  BY DEF Outcome
<1> HIDE DEF c
<1>5. CASE ReportStaleRejected(d)
  BY <1>2, <1>4, <1>5 DEF ReportStaleRejected, c
<1>6. CASE ReportRetryable(d)
  <2>1. Restart(c) \in RsType /\ Restart(c).inFlight = FALSE /\ Restart(c).lifecycle = "queued"
    BY <1>2, RestartFacts DEF IInv, TypeOK
  <2>2. QED BY <1>2, <1>3, <1>4, <1>6, <2>1, EndFacts DEF ReportRetryable, c
<1>7. CASE ReportNonRetryable(d)
  BY <1>2, <1>3, <1>4, <1>7, EndFacts DEF ReportNonRetryable, c
<1>8. CASE ReportCancelled(d)
  BY <1>2, <1>3, <1>4, <1>8, EndFacts DEF ReportCancelled, c
<1>9. CASE ReportExpired(d)
  BY <1>2, <1>3, <1>4, <1>9, EndFacts DEF ReportExpired, c
<1>10. CASE ReportSuccess(d)
  <2>1. /\ AfterSuccess(r) \in RsType /\ AfterSuccess(r).inFlight = FALSE
        /\ AfterSuccess(r).lifecycle # "absent"
    BY <1>1, AfterSuccessFacts
  <2>2. QED BY <1>4, <1>10, <2>1 DEF ReportSuccess
<1>11. QED BY <1>5, <1>6, <1>7, <1>8, <1>9, <1>10 DEF ReportCompletion, Report

-----------------------------------------------------------------------------
(* What a dispatch was stamped with lies in the past of the scheduler, and *)
(* a request flies with the worker its dispatch names.                     *)
History ==
  /\ \A d \in issued : d.epoch <= epoch /\ d.boot <= ws[d.worker].boot
  /\ \A d \in issued : Flies(rs[d.req]) /\ rs[d.req].gen = d.gen => rs[d.req].worker = d.worker
  /\ \A w \in Worker \ {0} : ws[w].boot <= registrations

(* Calls that dispatch nothing keep stamps and flights.                    *)
KeepsStamps ==
  \A d \in issued' : \E e \in issued :
    d.gen = e.gen /\ d.req = e.req /\ d.worker = e.worker /\ d.boot = e.boot /\ d.epoch = e.epoch

SameFlight(s, t) ==
  /\ t.gen = s.gen /\ t.worker = s.worker
  /\ t.chunk = s.chunk /\ t.reservedBytes = s.reservedBytes

KeepsFlights ==
  \A r \in Request :
    /\ rs'[r].inFlight => rs[r].inFlight
    /\ Flies(rs'[r]) => Flies(rs[r]) /\ SameFlight(rs[r], rs'[r])

LaterTimes ==
  /\ epoch <= epoch' /\ registrations <= registrations'
  /\ \A w \in Worker : /\ ws[w].boot <= ws'[w].boot
                       /\ w # 0 => ws'[w].boot = ws[w].boot \/ ws'[w].boot <= registrations'

LEMMA HistoryKept ==
  ASSUME IInv, IInv', History, KeepsStamps, KeepsFlights, LaterTimes
  PROVE  History'
<1>1. /\ epoch \in Nat /\ epoch' \in Nat /\ registrations \in Nat /\ registrations' \in Nat
      /\ \A w \in Worker : ws[w].boot \in Nat /\ ws'[w].boot \in Nat
      /\ \A d \in issued : d.req \in Request /\ d.worker \in Worker /\ d.epoch \in Nat /\ d.boot \in Nat
  BY DEF IInv, TypeOK, WorkerType, DispatchType
<1>2. ASSUME NEW d \in issued'
      PROVE  /\ d.epoch <= epoch' /\ d.boot <= ws'[d.worker].boot
             /\ Flies(rs'[d.req]) /\ rs'[d.req].gen = d.gen => rs'[d.req].worker = d.worker
  <2>1. PICK e \in issued : d.gen = e.gen /\ d.req = e.req /\ d.worker = e.worker
                            /\ d.boot = e.boot /\ d.epoch = e.epoch
    BY DEF KeepsStamps
  <2>2. e.epoch <= epoch /\ e.boot <= ws[e.worker].boot
    BY DEF History
  <2>3. d.epoch <= epoch' /\ d.boot <= ws'[d.worker].boot
    BY <1>1, <2>1, <2>2, SMTT(20) DEF LaterTimes
  <2>4. QED BY <1>1, <2>1, <2>3, SMTT(20) DEF History, KeepsFlights, SameFlight
<1>3. ASSUME NEW w \in Worker \ {0}
      PROVE  ws'[w].boot <= registrations'
  <2>1. ws[w].boot <= registrations /\ w \in Worker /\ w # 0
    BY DEF History
  <2>2. /\ registrations <= registrations'
        /\ ws'[w].boot = ws[w].boot \/ ws'[w].boot <= registrations'
    BY <2>1 DEF LaterTimes
  <2>3. QED BY <1>1, <2>1, <2>2, SMTT(20)
<1>4. QED BY <1>2, <1>3 DEF History

LEMMA CycleHistory ==
  ASSUME IInv, IInv', History, RunCycle
  PROVE  History'
<1>1. PICK sent, lead, host, gen : Cycle(sent, lead, host, gen)
  BY CycleFacts
<1>2. /\ KeepsWorkers /\ epoch' = epoch /\ registrations' = registrations
      /\ issued' = issued \cup {Issue(r, gen[r], host[lead[r]]) : r \in sent}
  BY <1>1, CycleKeepsWorkers, CycleCounters DEF Cycle, Recorded
<1>3. /\ rs \in [Request -> RsType] /\ epoch \in Nat /\ nextGeneration \in Nat
      /\ \A w \in Worker : ws[w].boot \in Nat
  BY DEF IInv, TypeOK, WorkerType
<1>4. ASSUME NEW r \in sent
      PROVE  /\ rs'[r].gen = gen[r] /\ rs'[r].worker = host[lead[r]] /\ r \in Request
             /\ gen[r] \in Nat /\ gen[r] >= nextGeneration /\ host[lead[r]] \in Worker
  <2>1. rs'[r] = Dispatch(r, gen[r], gen[lead[r]], host[lead[r]]) /\ r \in Request
    BY <1>1 DEF Cycle, Treated, Assigned, Candidates
  <2>2. rs[r] \in RsType
    BY <1>3, <2>1
  <2>3. rs'[r].gen = gen[r] /\ rs'[r].worker = host[lead[r]]
    BY ONLY <2>1, <2>2, ZenonT(60) DEF Dispatch, RsType
  <2>4. QED BY <1>1, <2>1, <2>3 DEF Cycle, Assigned
<1>5. ASSUME NEW r \in Request \ sent, Flies(rs'[r])
      PROVE  Flies(rs[r]) /\ rs'[r].gen = rs[r].gen /\ rs'[r].worker = rs[r].worker
  <2>1. rs[r] \in RsType
    BY <1>3
  <2>2. CASE r \in Expiring
    <3>1. rs'[r] = Expire(rs[r])
      BY <1>1, <2>2 DEF Cycle, Treated
    <3>2. rs'[r].lifecycle = "expired"
      BY ONLY <2>1, <3>1, ZenonT(60) DEF Expire, ReleaseReservation, RsType
    <3>3. QED BY <1>5, <3>2 DEF Flies
  <2>3. CASE r \notin Expiring
    <3>1. rs'[r] = Age(rs[r])
      BY <1>1, <2>3 DEF Cycle, Treated
    <3>2. /\ rs'[r].lifecycle = rs[r].lifecycle /\ rs'[r].inFlight = rs[r].inFlight
          /\ rs'[r].gen = rs[r].gen /\ rs'[r].worker = rs[r].worker
      BY ONLY <2>1, <3>1, ZenonT(60) DEF Age, RsType
    <3>3. QED BY <1>5, <3>2 DEF Flies
  <2>4. QED BY <2>2, <2>3
<1>6. ASSUME NEW d \in issued'
      PROVE  /\ d.epoch <= epoch' /\ d.boot <= ws'[d.worker].boot
             /\ Flies(rs'[d.req]) /\ rs'[d.req].gen = d.gen => rs'[d.req].worker = d.worker
  <2>1. CASE d \in issued
    <3>1. d.gen \in Nat /\ d.gen < nextGeneration /\ d.req \in Request /\ d.worker \in Worker
      BY <2>1 DEF IInv, TypeOK, Allocated, DispatchType
    <3>2. d.epoch <= epoch' /\ d.boot <= ws'[d.worker].boot
      BY <1>2, <2>1, <3>1 DEF History, KeepsWorkers
    <3>3. CASE d.req \in sent
      <4>1. rs'[d.req].gen = gen[d.req] /\ gen[d.req] \in Nat /\ gen[d.req] >= nextGeneration
        BY <1>4, <3>3
      <4>2. rs'[d.req].gen # d.gen
        BY <1>3, <3>1, <4>1, SMTT(20)
      <4>3. QED BY <3>2, <4>2
    <3>4. CASE d.req \notin sent
      BY <1>5, <2>1, <3>1, <3>2, <3>4 DEF History
    <3>5. QED BY <3>3, <3>4
  <2>2. CASE d \notin issued
    <3>1. PICK r \in sent : d = Issue(r, gen[r], host[lead[r]])
      BY <1>2, <1>6, <2>2
    <3>2. d.epoch = epoch /\ d.worker = host[lead[r]] /\ d.boot = ws[host[lead[r]]].boot /\ d.req = r
      BY ONLY <3>1, ZenonT(60) DEF Issue
    <3>3. rs'[r].worker = host[lead[r]] /\ host[lead[r]] \in Worker
      BY <1>4
    <3>4. ws'[d.worker].boot = d.boot /\ d.boot \in Nat
      BY <1>2, <1>3, <3>2, <3>3 DEF KeepsWorkers
    <3>5. d.epoch <= epoch'
      BY <1>2, <1>3, <3>2, SMTT(20)
    <3>6. d.boot <= ws'[d.worker].boot
      BY <3>4, SMTT(20)
    <3>7. rs'[d.req].worker = d.worker
      BY <3>2, <3>3
    <3>8. QED BY <3>5, <3>6, <3>7
  <2>3. QED BY <2>1, <2>2
<1>7. ASSUME NEW w \in Worker \ {0}
      PROVE  ws'[w].boot <= registrations'
  BY <1>2 DEF History, KeepsWorkers
<1>8. QED BY <1>6, <1>7 DEF History

(* A call that changes the record of one request, leaving it on the ground *)
(* or flying as before.                                                    *)
LEMMA OneRequestFlights ==
  ASSUME IInv, NEW q \in Request, NEW s, rs' = [rs EXCEPT ![q] = s],
         s.inFlight => rs[q].inFlight,
         Flies(s) => Flies(rs[q]) /\ SameFlight(rs[q], s)
  PROVE  KeepsFlights
<1>1. rs \in [Request -> RsType]
  BY DEF IInv, TypeOK
<1>2. QED BY <1>1 DEF KeepsFlights, SameFlight

LEMMA RequestFlights ==
  ASSUME IInv, NEW q \in Request, Submit(q) \/ Cancel(q) \/ ForceRetry(q)
  PROVE  KeepsFlights
<1>1. rs \in [Request -> RsType] /\ rs[q] \in RsType
  BY DEF IInv, TypeOK
<1>2. CASE Submit(q)
  <2> DEFINE s == [Absent EXCEPT !.lifecycle = IF Uncached(q) = 0 THEN "completed" ELSE "queued",
                                 !.attempt = nextAttempt, !.admitTime = now]
  <2>1. rs' = [rs EXCEPT ![q] = s]
    BY <1>2 DEF Submit
  <2>2. ~s.inFlight
    BY DEF Absent
  <2> HIDE DEF s
  <2>3. QED BY <2>1, <2>2, OneRequestFlights DEF Flies
<1>3. CASE Cancel(q) /\ rs[q].inFlight
  <2> DEFINE s == [rs[q] EXCEPT !.cancelPending = TRUE]
  <2>1. rs' = [rs EXCEPT ![q] = s]
    BY <1>3 DEF Cancel
  <2>2. s.lifecycle = rs[q].lifecycle /\ s.inFlight = rs[q].inFlight /\ SameFlight(rs[q], s)
    BY ONLY <1>1, ZenonT(60) DEF RsType, SameFlight
  <2> HIDE DEF s
  <2>3. QED BY <2>1, <2>2, OneRequestFlights DEF Flies
<1>4. CASE Cancel(q) /\ ~rs[q].inFlight
  <2> DEFINE s == [ReleaseReservation(rs[q]) EXCEPT !.lifecycle = "cancelled", !.group = 0]
  <2>1. rs' = [rs EXCEPT ![q] = s]
    BY <1>4 DEF Cancel
  <2>2. s.inFlight = rs[q].inFlight
    BY ONLY <1>1, ZenonT(60) DEF ReleaseReservation, RsType
  <2> HIDE DEF s
  <2>3. QED BY <1>4, <2>1, <2>2, OneRequestFlights DEF Flies
<1>5. CASE ForceRetry(q)
  <2> DEFINE a == Abandon(rs[q])
             t == Restart(a)
  <2>1. rs' = [rs EXCEPT ![q] = a] \/ rs' = [rs EXCEPT ![q] = t]
    BY <1>5 DEF ForceRetry
  <2>2. a \in RsType /\ ~a.inFlight
    BY <1>1, AbandonFacts
  <2>3. ~t.inFlight
    BY <2>2, RestartFacts
  <2> HIDE DEF a, t
  <2>4. QED BY <2>1, <2>2, <2>3, OneRequestFlights DEF Flies
<1>6. QED BY <1>2, <1>3, <1>4, <1>5

(* Only a cycle makes a request fly.                                       *)
LEMMA CallFlights ==
  ASSUME IInv,
         \/ \E r \in Request : Submit(r) \/ Cancel(r) \/ ForceRetry(r)
         \/ \E d \in issued : ReportCompletion(d) \/ CancelGeneration(d)
         \/ \E w \in Worker : WorkerLost(w)
         \/ UNCHANGED rs
  PROVE  KeepsFlights
<1>1. rs \in [Request -> RsType] /\ issued \subseteq DispatchType
  BY DEF IInv, TypeOK
<1>2. rs' = rs => KeepsFlights
  BY DEF KeepsFlights, SameFlight
<1>3. ASSUME NEW d \in issued, ReportCompletion(d)
      PROVE  KeepsFlights
  <2>1. PICK outcome \in Outcome, s \in RsType : s.inFlight = FALSE /\ Finish(d, outcome, s)
    BY <1>3, ReportFinishes
  <2> DEFINE t == [ReleaseReservation(s) EXCEPT !.group = 0]
  <2>2. rs' = [rs EXCEPT ![d.req] = t] /\ d.req \in Request
    BY <1>1, <2>1 DEF Finish, DispatchType
  <2>3. t.inFlight = FALSE
    BY ONLY <2>1, s \in RsType, ZenonT(60) DEF ReleaseReservation, RsType
  <2> HIDE DEF t
  <2>4. QED BY <2>2, <2>3, OneRequestFlights DEF Flies
<1>4. ASSUME NEW d \in issued, CancelGeneration(d)
      PROVE  KeepsFlights
  <2> DEFINE s == [rs[d.req] EXCEPT !.cancelPending = TRUE]
  <2>1. d.req \in Request /\ rs[d.req] \in RsType
    BY <1>1 DEF DispatchType
  <2>2. /\ s.lifecycle = rs[d.req].lifecycle /\ s.inFlight = rs[d.req].inFlight
        /\ SameFlight(rs[d.req], s)
    BY ONLY <2>1, ZenonT(60) DEF RsType, SameFlight
  <2>3. rs' = [rs EXCEPT ![d.req] = s]
    BY <1>4 DEF CancelGeneration
  <2> HIDE DEF s
  <2>4. QED BY <2>1, <2>2, <2>3, OneRequestFlights DEF Flies
<1>5. ASSUME NEW w \in Worker, WorkerLost(w)
      PROVE  KeepsFlights
  <2> SUFFICES ASSUME NEW r \in Request, rs'[r].inFlight
               PROVE  rs'[r] = rs[r]
    BY DEF KeepsFlights, Flies, SameFlight
  <2>1. rs'[r] = rs[r] \/ rs'[r] = Recovered(rs[r])
    BY <1>5 DEF WorkerLost
  <2>2. ~Recovered(rs[r]).inFlight
    BY <1>1, RecoveredFacts
  <2>3. QED BY <2>1, <2>2
<1>6. QED BY <1>2, <1>3, <1>4, <1>5, RequestFlights

LEMMA FlightsStep ==
  ASSUME IInv, [Next]_vars
  PROVE  KeepsFlights \/ RunCycle
<1>1. CASE \/ \E w \in Worker : UnregisterWorker(w)
           \/ \E w \in Worker, boot \in 1 .. MaxRegistrations : RegisterWorker(w, boot)
           \/ AttachExecutor \/ RollEpoch \/ Tick \/ UNCHANGED vars
  <2>1. UNCHANGED rs
    BY <1>1 DEF UnregisterWorker, RegisterWorker, AttachExecutor, RollEpoch, Tick, vars
  <2>2. QED BY <2>1, CallFlights
<1>2. QED BY <1>1, CallFlights DEF Next

(* Epochs and boot ids only grow, and stamps are never changed.            *)
LEMMA StampsStep ==
  ASSUME IInv, History, [Next]_vars
  PROVE  (LaterTimes /\ KeepsStamps) \/ RunCycle
<1>1. /\ ws \in [Worker -> WorkerType] /\ \A w \in Worker : ws[w].boot \in Nat
      /\ epoch \in Nat /\ registrations \in Nat /\ issued \subseteq DispatchType
  BY DEF IInv, TypeOK, WorkerType
<1>3. /\ epoch' = epoch /\ registrations' = registrations /\ KeepsWorkers => LaterTimes
      /\ issued' = issued => KeepsStamps
  BY <1>1, SMTT(20) DEF LaterTimes, KeepsWorkers, KeepsStamps
<1>4. ws' = ws \/ (\E gone : ws' = Freed(gone)) => KeepsWorkers
  BY FreedKeeps DEF KeepsWorkers, IInv
<1>5. ASSUME NEW q \in Request, Submit(q) \/ Cancel(q) \/ ForceRetry(q)
      PROVE  LaterTimes /\ KeepsStamps
  <2>1. epoch' = epoch /\ registrations' = registrations /\ issued' = issued
    BY <1>5 DEF Submit, Cancel, ForceRetry
  <2>2. ws' = ws \/ \E gone : ws' = Freed(gone)
    BY <1>5 DEF Submit, Cancel, ForceRetry
  <2>3. QED BY <1>3, <1>4, <2>1, <2>2
<1>6. ASSUME NEW d \in issued, ReportCompletion(d)
      PROVE  LaterTimes /\ KeepsStamps
  <2>1. PICK outcome \in Outcome, s \in RsType : Finish(d, outcome, s)
    BY <1>6, ReportFinishes
  <2> DEFINE c == [d EXCEPT !.credits = @ + 1, !.outcome = outcome]
  <2>2. /\ issued' = (issued \ {d}) \cup {c}
        /\ ws' = Freed(Emptied({d.req})) /\ epoch' = epoch /\ registrations' = registrations
    BY <2>1 DEF Finish
  <2>3. c.gen = d.gen /\ c.req = d.req /\ c.worker = d.worker /\ c.boot = d.boot /\ c.epoch = d.epoch
    BY ONLY <1>1, d \in issued, ZenonT(60) DEF DispatchType
  <2> HIDE DEF c
  <2>4. KeepsStamps
    BY <2>2, <2>3 DEF KeepsStamps
  <2>5. QED BY <1>3, <1>4, <2>2, <2>4
<1>7. ASSUME NEW d \in issued, CancelGeneration(d)
      PROVE  LaterTimes /\ KeepsStamps
  BY <1>3, <1>4, <1>7 DEF CancelGeneration
<1>8. ASSUME NEW w \in Worker, NEW boot \in 1 .. MaxRegistrations, RegisterWorker(w, boot)
      PROVE  LaterTimes /\ KeepsStamps
  <2>1. /\ w # 0 /\ boot \in {ws[w].boot, ws[w].boot + 1}
        /\ ws' = [ws EXCEPT ![w] = [state |-> "ready", boot |-> boot, busy |-> 0]]
        /\ registrations' = registrations + 1 /\ epoch' = epoch /\ issued' = issued
    BY <1>8 DEF RegisterWorker
  <2>2. ws[w].boot <= registrations
    BY <2>1 DEF History
  <2>3. LaterTimes
    BY <1>1, <2>1, <2>2, SMTT(20) DEF LaterTimes
  <2>4. QED BY <1>3, <2>1, <2>3
<1>9. ASSUME NEW w \in Worker, WorkerLost(w)
      PROVE  LaterTimes /\ KeepsStamps
  <2>1. /\ ws' = [ws EXCEPT ![w].busy = 0, ![w].state = "lost"]
        /\ issued' = issued /\ epoch' = epoch /\ registrations' = registrations
    BY <1>9 DEF WorkerLost
  <2>2. \A v \in Worker : ws'[v].boot = ws[v].boot
    BY <1>1, <2>1 DEF WorkerType
  <2>3. QED BY <1>1, <1>3, <2>1, <2>2, SMTT(20) DEF LaterTimes
<1>10. CASE \/ \E w \in Worker : UnregisterWorker(w)
           \/ AttachExecutor \/ RollEpoch \/ Tick \/ UNCHANGED vars
  <2>1. issued' = issued /\ epoch <= epoch' /\ registrations <= registrations'
    BY <1>1, <1>10, SMTT(20) DEF UnregisterWorker, AttachExecutor, RollEpoch, Tick, vars
  <2>2. \A v \in Worker : ws'[v].boot = ws[v].boot
    BY <1>1, <1>10, SchedulerAssumption, SMTT(20)
       DEF ConstantsOK, UnregisterWorker, AttachExecutor, RollEpoch, Tick, vars, WorkerType
  <2>3. LaterTimes
    BY <1>1, <2>1, <2>2, SMTT(20) DEF LaterTimes
  <2>4. QED BY <1>3, <2>1, <2>3
<1>11. QED BY <1>5, <1>6, <1>7, <1>8, <1>9, <1>10 DEF Next

LEMMA HistoryStep ==
  ASSUME IInv, IInv', History, [Next]_vars
  PROVE  History'
BY StampsStep, FlightsStep, HistoryKept, CycleHistory

LEMMA HistoryInit == Init => History
BY SchedulerAssumption, SMTT(20) DEF ConstantsOK, Init, History

-----------------------------------------------------------------------------
(* The sweep of run_cycle comes before the dispatch: for any deadlines and *)
(* queue delays, whatever calls come in between, no request is dispatched  *)
(* in a cycle that finds it overdue.                                       *)
THEOREM NeverDispatchedLate == Spec => NoLateDispatch
<1>1. ASSUME IInv, [Next]_vars, NEW r \in Request, ~rs[r].inFlight, rs'[r].inFlight
      PROVE  ~Overdue(r)
  <2>1. CASE KeepsFlights
    BY <1>1, <2>1 DEF KeepsFlights
  <2>2. CASE RunCycle
    <3>1. PICK sent, lead, host, gen : Cycle(sent, lead, host, gen)
      BY <1>1, <2>2, CycleFacts
    <3>2. rs[r] \in RsType
      BY <1>1 DEF IInv, TypeOK
    <3>3. CASE r \in sent
      BY <3>1, <3>3 DEF Cycle, Assigned, Candidates, Expiring
    <3>4. CASE r \in Expiring
      <4>1. rs'[r] = Expire(rs[r])
        BY <3>1, <3>4 DEF Cycle, Treated
      <4>2. rs'[r].inFlight = rs[r].inFlight
        BY ONLY <3>2, <4>1, ZenonT(60) DEF Expire, ReleaseReservation, RsType
      <4>3. QED BY <1>1, <4>2
    <3>5. CASE r \notin sent /\ r \notin Expiring
      BY <3>5 DEF Expiring
    <3>6. QED BY <3>3, <3>4, <3>5
  <2>3. QED BY <1>1, <2>1, <2>2, FlightsStep
<1>2. IInv /\ [Next]_vars => [\A r \in Request : ~rs[r].inFlight /\ rs'[r].inFlight => ~Overdue(r)]_vars
  BY <1>1
<1>3. QED BY <1>2, Invariance, PTL DEF Spec, NoLateDispatch
-----------------------------------------------------------------------------
(* What was executed.  X records <<request, attempt, token>> for the       *)
(* tokens of every chunk whose success was applied.                        *)

(* The first n uncached tokens of r were executed in attempt a.            *)
Ran(X, r, a, n) == \A t \in 0 .. (n - 1) : <<r, a, t>> \in X

(* A live request had the chunks before its current one executed in its    *)
(* current attempt, and a completed one its whole uncached suffix.         *)
Progress(X) ==
  \A r \in Request :
    /\ Live(r) => Ran(X, r, rs[r].attempt, rs[r].chunk * Size(r))
    /\ rs[r].lifecycle = "completed" => Ran(X, r, rs[r].attempt, Uncached(r))

(* A request that gets no further: it ends without being complete, stays   *)
(* where it is, or starts at the first chunk or with nothing to execute.   *)
Steady(r) ==
  LET s == rs[r]
      t == rs'[r]
  IN  \/ t.lifecycle \notin {"queued", "dispatched", "completed"}
      \/ t.lifecycle \in {"queued", "dispatched"} /\ t.chunk = 0
      \/ t.lifecycle = "completed" /\ Uncached(r) = 0
      \/ /\ t.attempt = s.attempt /\ t.chunk = s.chunk
         /\ \/ t.lifecycle = s.lifecycle
            \/ t.lifecycle \in {"queued", "dispatched"} /\ s.lifecycle \in {"queued", "dispatched"}

LEMMA SteadyProgress ==
  ASSUME NEW X, NEW Y, X \subseteq Y, NEW r \in Request, Steady(r),
         Live(r) => Ran(X, r, rs[r].attempt, rs[r].chunk * Size(r)),
         rs[r].lifecycle = "completed" => Ran(X, r, rs[r].attempt, Uncached(r))
  PROVE  /\ rs'[r].lifecycle \in {"queued", "dispatched"} =>
              Ran(Y, r, rs'[r].attempt, rs'[r].chunk * Size(r))
         /\ rs'[r].lifecycle = "completed" => Ran(Y, r, rs'[r].attempt, Uncached(r))
<1>1. Size(r) \in Nat /\ 0 * Size(r) = 0
  BY SizeType, SMTT(20)
<1>2. \A a : Ran(Y, r, a, 0)
  BY SMTT(20) DEF Ran
<1>3. \A a, n : Ran(X, r, a, n) => Ran(Y, r, a, n)
  BY DEF Ran
<1>4. QED BY <1>1, <1>2, <1>3 DEF Steady, Live

(* Submissions, retries, failures and cycles execute nothing.              *)
LEMMA CallsAreSteady ==
  ASSUME IInv,
         \/ \E q \in Request : Submit(q) \/ ForceRetry(q)
         \/ RunCycle
         \/ \E d \in issued : (\E m \in Reports(d) : Authoritative(d, m)) /\ ReportRetryable(d)
  PROVE  \A r \in Request : Steady(r)
<1>1. rs \in [Request -> RsType] /\ nextAttempt \in Nat /\ now \in Nat
  BY DEF IInv, TypeOK
<1>2. ASSUME NEW q \in Request, NEW s, rs' = [rs EXCEPT ![q] = s],
             \/ s.lifecycle \notin {"queued", "dispatched", "completed"}
             \/ s.lifecycle \in {"queued", "dispatched"} /\ s.chunk = 0
             \/ s.lifecycle = "completed" /\ Uncached(q) = 0
             \/ s.attempt = rs[q].attempt /\ s.chunk = rs[q].chunk /\ s.lifecycle = rs[q].lifecycle
      PROVE  \A r \in Request : Steady(r)
  BY <1>1, <1>2 DEF Steady
<1>3. ASSUME NEW q \in Request, Submit(q)
      PROVE  \A r \in Request : Steady(r)
  <2> DEFINE s == [Absent EXCEPT !.lifecycle = IF Uncached(q) = 0 THEN "completed" ELSE "queued",
                                 !.attempt = nextAttempt, !.admitTime = now]
  <2>1. s.chunk = 0 /\ s.lifecycle = (IF Uncached(q) = 0 THEN "completed" ELSE "queued")
    BY DEF Absent
  <2>2. rs' = [rs EXCEPT ![q] = s]
    BY <1>3 DEF Submit
  <2> HIDE DEF s
  <2>3. QED BY <1>2, <2>1, <2>2
<1>4. ASSUME NEW q \in Request, ForceRetry(q)
      PROVE  \A r \in Request : Steady(r)
  <2> DEFINE a == Abandon(rs[q])
             t == Restart(a)
  <2>1. rs' = [rs EXCEPT ![q] = a] \/ rs' = [rs EXCEPT ![q] = t]
    BY <1>4 DEF ForceRetry
  <2>2. /\ a \in RsType /\ a.lifecycle = rs[q].lifecycle
        /\ a.attempt = rs[q].attempt /\ a.chunk = rs[q].chunk
    BY <1>1, AbandonFacts
  <2>3. t.lifecycle = "queued" /\ t.chunk = 0
    BY <2>2, RestartFacts
  <2> HIDE DEF a, t
  <2>4. QED BY <1>2, <2>1, <2>2, <2>3
<1>5. ASSUME RunCycle, NEW r \in Request
      PROVE  Steady(r)
  <2>1. PICK sent, lead, host, gen : Cycle(sent, lead, host, gen)
    BY <1>5, CycleFacts
  <2>2. \/ Sent(r, gen[r], gen[lead[r]], host[lead[r]])
        \/ rs'[r].lifecycle = "expired"
        \/ Kept(r)
    BY <2>1, CycleRequests
  <2>3. QED BY <2>2 DEF Sent, Kept, Steady
<1>6. ASSUME NEW d \in issued, NEW m \in Reports(d), Authoritative(d, m), ReportRetryable(d)
      PROVE  \A r \in Request : Steady(r)
  <2> DEFINE c == Counted(d.req)
             f == [c EXCEPT !.lifecycle = "failed_non_retryable"]
             R(s) == [ReleaseReservation(s) EXCEPT !.group = 0]
  <2>1. d.req \in Request /\ rs[d.req] \in RsType /\ Pending(d.req, rs[d.req].chunk)
    BY <1>6, AuthoritativeFacts
  <2>2. c \in RsType
    BY <2>1, CountedFacts
  <2>3. Restart(c) \in RsType /\ Restart(c).lifecycle = "queued" /\ Restart(c).chunk = 0
    BY <2>2, RestartFacts
  <2>4. f \in RsType /\ f.lifecycle = "failed_non_retryable"
    BY <2>2, EndFacts DEF Terminal
  <2>5. rs' = [rs EXCEPT ![d.req] = R(Restart(c))] \/ rs' = [rs EXCEPT ![d.req] = R(f)]
    BY <1>6 DEF ReportRetryable, Finish
  <2>6. \A s \in RsType : R(s).lifecycle = s.lifecycle /\ R(s).chunk = s.chunk
    BY ONLY ZenonT(60) DEF ReleaseReservation, RsType
  <2> HIDE DEF c, f, R
  <2>7. QED BY <1>2, <2>1, <2>3, <2>4, <2>5, <2>6
<1>7. QED BY <1>3, <1>4, <1>5, <1>6

(* Chunk i of a plan ends where chunk i + 1 starts, or at the end.         *)
LEMMA ChunkEnd ==
  ASSUME NEW r \in Request, NEW i \in Nat, Pending(r, i)
  PROVE  /\ i * Size(r) \in Nat /\ Tokens(r, i) \in Nat
         /\ Pending(r, i + 1) => i * Size(r) + Tokens(r, i) = (i + 1) * Size(r)
         /\ ~Pending(r, i + 1) => i * Size(r) + Tokens(r, i) = Uncached(r)
<1> DEFINE a == i * Size(r)
           b == (i + 1) * Size(r)
<1>1. Size(r) \in Nat /\ Uncached(r) \in Nat /\ Tokens(r, i) \in Nat
  BY SizeType, DescriptorFacts, ChunkTypes
<1>2. a \in Nat /\ b = a + Size(r)
  BY <1>1, TimesType, SMTT(20)
<1>3. /\ a < Uncached(r) /\ Tokens(r, i) = Lower(Size(r), Uncached(r) - a)
      /\ Pending(r, i + 1) <=> b < Uncached(r)
  BY DEF Pending, HasChunk, Tokens, ChunkTokens, Uncached
<1> HIDE DEF a, b
<1>4. /\ b < Uncached(r) => a + Tokens(r, i) = b
      /\ ~(b < Uncached(r)) => a + Tokens(r, i) = Uncached(r)
  BY <1>1, <1>2, <1>3, SMTT(20) DEF Lower
<1>5. QED BY <1>1, <1>2, <1>3, <1>4 DEF a, b

LEMMA SuccessProgress ==
  ASSUME IInv, NEW d \in issued, NEW m \in Reports(d), Authoritative(d, m), ReportSuccess(d),
         NEW X, NEW Y, Progress(X),
         Y = X \cup {<<d.req, d.attempt, t>> :
                       t \in d.chunk * Size(d.req) .. (d.chunk * Size(d.req) + Tokens(d.req, d.chunk) - 1)}
  PROVE  Progress(Y)'
<1> DEFINE q == d.req
           i == d.chunk
           s == AfterSuccess(q)
           from == i * Size(q)
           n == Tokens(q, i)
<1>1. /\ q \in Request /\ rs[q] \in RsType /\ rs[q].lifecycle = "dispatched" /\ i \in Nat
      /\ d.attempt = rs[q].attempt /\ i = rs[q].chunk /\ Pending(q, i)
  <2>1. /\ q \in Request /\ rs[q] \in RsType /\ rs[q].lifecycle = "dispatched"
        /\ d.attempt = rs[q].attempt /\ i = rs[q].chunk /\ Pending(q, i)
    BY AuthoritativeFacts
  <2>2. QED BY <2>1 DEF RsType
<1>2. /\ s \in RsType /\ s.attempt = rs[q].attempt
      /\ \/ s.lifecycle = "cancelled"
         \/ s.lifecycle = "completed" /\ ~Pending(q, i + 1)
         \/ s.lifecycle = "queued" /\ s.chunk = i + 1 /\ Pending(q, i + 1)
  <2>1. /\ s \in RsType /\ s.attempt = rs[q].attempt
        /\ \/ s.lifecycle = "cancelled" /\ rs[q].cancelPending
           \/ s.lifecycle = "completed" /\ ~rs[q].cancelPending
           \/ s.lifecycle = "queued" /\ s.chunk = rs[q].chunk + 1 /\ Pending(q, s.chunk)
    BY <1>1, AfterSuccessFacts
  <2> DEFINE c == Counted(q)
  <2>2. c \in RsType /\ c.chunk = i /\ c.cancelPending = rs[q].cancelPending
    BY <1>1, CountedFacts
  <2>3. ~rs[q].cancelPending /\ Pending(q, i + 1) => s.lifecycle = "queued"
    <3>1. ~rs[q].cancelPending /\ Pending(q, i + 1) => s = [c EXCEPT !.lifecycle = "queued", !.chunk = @ + 1]
      BY <2>2 DEF AfterSuccess
    <3> HIDE DEF c, s
    <3>2. QED BY <2>2, <3>1 DEF RsType
  <2> HIDE DEF s, c
  <2>4. QED BY <1>1, <2>1, <2>3
<1>3. /\ from \in Nat /\ n \in Nat
      /\ Pending(q, i + 1) => from + n = (i + 1) * Size(q)
      /\ ~Pending(q, i + 1) => from + n = Uncached(q)
  BY <1>1, ChunkEnd
<1>4. Ran(X, q, rs[q].attempt, from)
  BY <1>1 DEF Progress, Live
<1>5. Y = X \cup {<<q, rs[q].attempt, t>> : t \in from .. (from + n - 1)}
  BY <1>1
<1> HIDE DEF s, q, i, from, n
<1>6. Ran(Y, q, rs[q].attempt, from + n)
  <2>1. ASSUME NEW t \in 0 .. ((from + n) - 1)
        PROVE  <<q, rs[q].attempt, t>> \in Y
    <3>1. t \in 0 .. (from - 1) \/ t \in from .. (from + n - 1)
      BY <1>3, SMTT(20)
    <3>2. QED BY ONLY <1>4, <1>5, <3>1, SMTT(20) DEF Ran
  <2>2. QED BY ONLY <2>1, ZenonT(60) DEF Ran
<1>7. \A r \in Request \ {q} : rs'[r] = rs[r]
  BY DEF ReportSuccess, Finish, IInv, TypeOK, q
<1>8. rs'[q].lifecycle = s.lifecycle /\ rs'[q].attempt = s.attempt /\ rs'[q].chunk = s.chunk
  <2>1. rs'[q] = [ReleaseReservation(s) EXCEPT !.group = 0]
    BY <1>1 DEF ReportSuccess, Finish, IInv, TypeOK, q, s
  <2>2. QED BY ONLY <1>2, <2>1, ZenonT(60) DEF ReleaseReservation, RsType
<1>9. /\ rs'[q].lifecycle \in {"queued", "dispatched"} => Ran(Y, q, rs'[q].attempt, rs'[q].chunk * Size(q))
      /\ rs'[q].lifecycle = "completed" => Ran(Y, q, rs'[q].attempt, Uncached(q))
  BY <1>2, <1>3, <1>6, <1>8
<1>10. ASSUME NEW r \in Request \ {q}
       PROVE  /\ rs'[r].lifecycle \in {"queued", "dispatched"} =>
                   Ran(Y, r, rs'[r].attempt, rs'[r].chunk * Size(r))
              /\ rs'[r].lifecycle = "completed" => Ran(Y, r, rs'[r].attempt, Uncached(r))
  <2>1. Steady(r) /\ X \subseteq Y
    BY <1>5, <1>7 DEF Steady
  <2>2. QED BY <2>1, SteadyProgress DEF Progress
<1>11. QED BY <1>9, <1>10 DEF Progress, Live

(* A report as its driver stamped it at the dispatch is one it can send.   *)
LEMMA StampReports ==
  ASSUME IInv, NEW d \in issued, Authoritative(d, Stamp(d))
  PROVE  Stamp(d) \in Reports(d)
<1>1. d \in DispatchType /\ ws[d.worker] \in WorkerType /\ epoch \in Nat
  BY DEF IInv, TypeOK, DispatchType
<1>2. d.epoch = epoch /\ (<<d.worker, d.boot>> # Anonymous => ws[d.worker].boot = d.boot)
  BY DEF Authoritative, Stamp
<1>3. d.epoch \in d.epoch .. epoch
  BY <1>1, <1>2, SMTT(20) DEF DispatchType
<1>4. <<d.worker, d.boot>> \in {Anonymous} \cup {<<d.worker, b>> : b \in d.boot .. ws[d.worker].boot}
  BY <1>1, <1>2, SMTT(20) DEF DispatchType, WorkerType
<1>5. QED BY <1>3, <1>4 DEF Stamp, Reports

-----------------------------------------------------------------------------
(* The places of the tenants: outstanding counts the live requests.        *)

Charged(s) == s.lifecycle \in {"queued", "dispatched"}

ChargedTo(t) == {r \in Request : Charged(rs'[r]) /\ Descriptor[r].tenant = t}

Places == \A t \in Tenant : ts[t].outstanding = Cardinality(LiveOf(t))

LEMMA PlacesAre ==
  Places' <=> \A t \in Tenant : ts'[t].outstanding = Cardinality(ChargedTo(t))
BY DEF Places, LiveOf, Live, Charged, ChargedTo

LEMMA LiveFacts ==
  ASSUME TypeOK, NEW t \in Tenant
  PROVE  /\ LiveOf(t) \in SUBSET Request /\ IsFiniteSet(LiveOf(t)) /\ Cardinality(LiveOf(t)) \in Nat
         /\ ts[t].outstanding \in Nat /\ ts[t].admitted \in Nat
<1>1. LiveOf(t) \in SUBSET Request
  BY DEF LiveOf
<1>2. ts[t].outstanding \in Nat /\ ts[t].admitted \in Nat
  BY DEF TypeOK, TenantType
<1>3. QED BY <1>1, <1>2, CardOfRequests

(* What a step that charges the requests q to their tenants as before does *)
(* to the live requests of a tenant.                                       *)
LEMMA ChargesKept ==
  ASSUME NEW t, \A r \in Request : Charged(rs'[r]) <=> Charged(rs[r])
  PROVE  ChargedTo(t) = LiveOf(t)
BY DEF LiveOf, Live, Charged, ChargedTo

LEMMA PlacesKept ==
  ASSUME Places, ts' = ts, \A r \in Request : Charged(rs'[r]) <=> Charged(rs[r])
  PROVE  Places'
BY PlacesAre, ChargesKept DEF Places

(* A request that ends gives back its place.                               *)
LEMMA PlaceSettled ==
  ASSUME TypeOK, Places, NEW q \in Request, Live(q), ts' = Settled(q),
         ~Charged(rs'[q]), \A r \in Request \ {q} : Charged(rs'[r]) <=> Charged(rs[r])
  PROVE  Places'
<1> SUFFICES ASSUME NEW t \in Tenant
             PROVE  ts'[t].outstanding = Cardinality(ChargedTo(t))
  BY PlacesAre
<1>1. ts \in [Tenant -> TenantType] /\ ts[t].outstanding = Cardinality(LiveOf(t))
  BY DEF TypeOK, Places
<1>2. CASE t # Descriptor[q].tenant
  <2>1. ChargedTo(t) = LiveOf(t)
    BY <1>2 DEF LiveOf, Live, Charged, ChargedTo
  <2>2. ts'[t] = ts[t]
    BY <1>1, <1>2 DEF Settled
  <2>3. QED BY <1>1, <2>1, <2>2
<1>3. CASE t = Descriptor[q].tenant
  <2>1. ChargedTo(t) = LiveOf(t) \ {q} /\ q \in LiveOf(t)
    BY <1>3 DEF LiveOf, Live, Charged, ChargedTo
  <2>2. ts'[t].outstanding = Monus(ts[t].outstanding, 1)
    BY <1>1, <1>3 DEF Settled
  <2>3. IsFiniteSet(LiveOf(t)) /\ Cardinality(LiveOf(t)) \in Nat
    BY LiveFacts
  <2>4. Cardinality(LiveOf(t) \ {q}) = Cardinality(LiveOf(t)) - 1
        /\ Cardinality(LiveOf(t) \ {q}) \in Nat
    BY <2>1, <2>3, FS_RemoveElement, FS_CardinalityType
  <2>5. QED BY <1>1, <2>1, <2>2, <2>3, <2>4, SMTT(20) DEF Monus
<1>4. QED BY <1>2, <1>3

(* A submitted request with work to do takes a place.                      *)
LEMMA PlaceTaken ==
  ASSUME TypeOK, Places, NEW q \in Request, Submit(q)
  PROVE  Places'
<1> SUFFICES ASSUME NEW t \in Tenant
             PROVE  ts'[t].outstanding = Cardinality(ChargedTo(t))
  BY PlacesAre
<1>1. /\ ts \in [Tenant -> TenantType] /\ ts[t].outstanding = Cardinality(LiveOf(t))
      /\ rs \in [Request -> RsType] /\ Uncached(q) \in Nat
  BY DescriptorFacts DEF TypeOK, Places
<1>2. /\ \A r \in Request \ {q} : rs'[r] = rs[r]
      /\ rs'[q].lifecycle = (IF Uncached(q) = 0 THEN "completed" ELSE "queued") /\ ~Charged(rs[q])
  BY <1>1 DEF Submit, Absent, Known, Charged
<1>3. CASE t # Descriptor[q].tenant
  <2>1. ChargedTo(t) = LiveOf(t)
    BY <1>2, <1>3 DEF LiveOf, Live, Charged, ChargedTo
  <2>2. ts'[t] = ts[t]
    BY <1>1, <1>3 DEF Submit
  <2>3. QED BY <1>1, <2>1, <2>2
<1>4. CASE t = Descriptor[q].tenant
  <2>1. ts'[t].outstanding = ts[t].outstanding + (IF Uncached(q) = 0 THEN 0 ELSE 1)
    BY <1>1, <1>4 DEF Submit
  <2>2. q \notin LiveOf(t)
    BY <1>2 DEF LiveOf, Live, Charged
  <2>3. IsFiniteSet(LiveOf(t)) /\ Cardinality(LiveOf(t)) \in Nat
    BY LiveFacts
  <2>4. CASE Uncached(q) = 0
    <3>1. ChargedTo(t) = LiveOf(t)
      BY <1>2, <2>4 DEF LiveOf, Live, Charged, ChargedTo
    <3>2. QED BY <1>1, <2>1, <2>3, <2>4, <3>1, SMTT(20)
  <2>5. CASE Uncached(q) # 0
    <3>1. ChargedTo(t) = LiveOf(t) \cup {q}
      BY <1>2, <1>4, <2>5 DEF LiveOf, Live, Charged, ChargedTo
    <3>2. Cardinality(LiveOf(t) \cup {q}) = Cardinality(LiveOf(t)) + 1
      BY <2>2, <2>3, FS_AddElement
    <3>3. QED BY <1>1, <2>1, <2>3, <2>5, <3>1, <3>2
  <2>6. QED BY <2>4, <2>5
<1>5. QED BY <1>3, <1>4

(* The sweep gives back the places of the requests it ends.                *)
LEMMA CycleCharges ==
  ASSUME IInv, RunCycle
  PROVE  /\ ts' = Refunded
         /\ \A r \in Request : Charged(rs'[r]) <=> Charged(rs[r]) /\ r \notin Expiring
<1>1. PICK sent, lead, host, gen : Cycle(sent, lead, host, gen) /\ CycleEffect(sent, lead, host, gen)
  BY CycleFacts
<1>2. ts' = Refunded
  BY <1>1 DEF CycleEffect
<1>3. ASSUME NEW r \in Request
      PROVE  Charged(rs'[r]) <=> Charged(rs[r]) /\ r \notin Expiring
  <2>1. CASE r \in sent
    <3>1. Sent(r, gen[r], gen[lead[r]], host[lead[r]])
      BY <1>1, <2>1, CycleRequests
    <3>2. r \notin Expiring
      BY <1>1, <2>1 DEF Cycle, Assigned, Candidates
    <3>3. QED BY <3>1, <3>2 DEF Sent, Charged
  <2>2. CASE r \notin sent
    <3>1. \/ r \in Expiring /\ rs'[r].lifecycle = "expired"
          \/ r \notin Expiring /\ Kept(r)
      BY <1>1, <2>2, CycleRequests
    <3>2. QED BY <3>1 DEF Kept, Charged
  <2>3. QED BY <2>1, <2>2
<1>4. QED BY <1>2, <1>3

LEMMA SweptFacts ==
  ASSUME IInv, RunCycle, NEW t \in Tenant
  PROVE  LET E == {r \in Expiring : Descriptor[r].tenant = t} IN
         /\ ts'[t].outstanding = Monus(ts[t].outstanding, Cardinality(E))
         /\ ts'[t].admitted = ts[t].admitted
         /\ ChargedTo(t) = LiveOf(t) \ E /\ ChargedTo(t) \in SUBSET LiveOf(t)
         /\ Cardinality(ChargedTo(t)) = Cardinality(LiveOf(t)) - Cardinality(E)
         /\ Cardinality(ChargedTo(t)) \in Nat /\ Cardinality(E) \in Nat
<1> DEFINE E == {r \in Expiring : Descriptor[r].tenant = t}
<1>1. ts[t] \in TenantType /\ IsFiniteSet(LiveOf(t)) /\ LiveOf(t) \in SUBSET Request
  BY LiveFacts DEF IInv, TypeOK
<1>2. ts'[t] = [ts[t] EXCEPT !.outstanding = Monus(@, Cardinality(E))]
  BY CycleCharges DEF Refunded
<1>3. ChargedTo(t) = LiveOf(t) \ E
  BY CycleCharges DEF LiveOf, Live, Charged, ChargedTo
<1>4. LiveOf(t) \cap E = E
  BY DEF LiveOf, Expiring, Overdue
<1> HIDE DEF E
<1>5. ts'[t].outstanding = Monus(ts[t].outstanding, Cardinality(E)) /\ ts'[t].admitted = ts[t].admitted
  BY ONLY <1>1, <1>2, ZenonT(60) DEF TenantType
<1>6. Cardinality(LiveOf(t) \ E) = Cardinality(LiveOf(t)) - Cardinality(E)
  BY <1>1, <1>4, FS_Difference
<1>7. Cardinality(ChargedTo(t)) \in Nat /\ Cardinality(E) \in Nat
  <2>1. ChargedTo(t) \in SUBSET Request /\ E \in SUBSET Request
    BY <1>1, <1>3, <1>4
  <2>2. QED BY <2>1, CardOfRequests
<1>8. QED BY <1>3, <1>5, <1>6, <1>7 DEF E

LEMMA PlacesSwept ==
  ASSUME IInv, Places, RunCycle
  PROVE  Places'
<1> SUFFICES ASSUME NEW t \in Tenant
             PROVE  ts'[t].outstanding = Cardinality(ChargedTo(t))
  BY PlacesAre
<1> DEFINE e == Cardinality({r \in Expiring : Descriptor[r].tenant = t})
<1>1. /\ ts'[t].outstanding = Monus(ts[t].outstanding, e)
      /\ Cardinality(ChargedTo(t)) = Cardinality(LiveOf(t)) - e
      /\ Cardinality(ChargedTo(t)) \in Nat /\ e \in Nat
  BY SweptFacts
<1> HIDE DEF e
<1>2. ts[t].outstanding = Cardinality(LiveOf(t)) /\ ts[t].outstanding \in Nat
  BY LiveFacts DEF IInv, Places
<1>3. QED BY <1>1, <1>2, SMTT(20) DEF Monus
(* What a call does to the accounts: nothing, or it ends a request, or it  *)
(* submits one, or it is a cycle.                                          *)
SameCharges == ts' = ts /\ \A r \in Request : Charged(rs'[r]) <=> Charged(rs[r])

Ends(q) ==
  /\ Live(q) /\ ts' = Settled(q) /\ ~Charged(rs'[q])
  /\ \A r \in Request \ {q} : Charged(rs'[r]) <=> Charged(rs[r])

LEMMA ChargeSteps ==
  ASSUME IInv, [Next]_vars
  PROVE  SameCharges \/ (\E q \in Request : Ends(q) \/ Submit(q)) \/ RunCycle
<1>1. TypeOK /\ rs \in [Request -> RsType] /\ issued \subseteq DispatchType
  BY DEF IInv, TypeOK
<1>2. ASSUME NEW q \in Request, NEW s, rs' = [rs EXCEPT ![q] = s]
      PROVE  rs'[q] = s /\ \A r \in Request \ {q} : Charged(rs'[r]) <=> Charged(rs[r])
  BY <1>1, <1>2
<1>3. ASSUME NEW q \in Request, NEW s, rs' = [rs EXCEPT ![q] = s], ts' = ts, Charged(s) <=> Charged(rs[q])
      PROVE  SameCharges
  BY <1>2, <1>3 DEF SameCharges
<1>4. ASSUME NEW q \in Request, NEW s, rs' = [rs EXCEPT ![q] = s], ts' = Settled(q), Live(q), ~Charged(s)
      PROVE  Ends(q)
  BY <1>2, <1>4 DEF Ends
<1>5. ASSUME NEW q \in Request, rs' = [rs EXCEPT ![q].cancelPending = TRUE], ts' = ts
      PROVE  SameCharges
  <2> DEFINE s == [rs[q] EXCEPT !.cancelPending = TRUE]
  <2>1. rs' = [rs EXCEPT ![q] = s]
    BY <1>5
  <2>2. s.lifecycle = rs[q].lifecycle
    BY <1>1 DEF RsType
  <2> HIDE DEF s
  <2>3. QED BY <1>3, <1>5, <2>1, <2>2 DEF Charged
<1>6. ASSUME NEW q \in Request, Cancel(q)
      PROVE  SameCharges \/ Ends(q)
  <2> DEFINE s == [ReleaseReservation(rs[q]) EXCEPT !.lifecycle = "cancelled", !.group = 0]
  <2>1. CASE rs' = [rs EXCEPT ![q] = s] /\ ts' = Settled(q)
    <3>1. s.lifecycle = "cancelled"
      BY <1>1 DEF ReleaseReservation, RsType
    <3>2. Live(q)
      BY <1>6 DEF Cancel
    <3> HIDE DEF s
    <3>3. QED BY <1>4, <2>1, <3>1, <3>2 DEF Charged
  <2>2. QED BY <1>5, <1>6, <2>1 DEF Cancel
<1>7. ASSUME NEW q \in Request, ForceRetry(q)
      PROVE  SameCharges
  <2> DEFINE a == Abandon(rs[q])
             t == Restart(a)
  <2>1. /\ rs' = [rs EXCEPT ![q] = a] \/ rs' = [rs EXCEPT ![q] = t]
        /\ ts' = ts /\ Charged(rs[q])
    BY <1>7 DEF ForceRetry, Live, Charged
  <2>2. a \in RsType /\ a.lifecycle = rs[q].lifecycle
    BY <1>1, AbandonFacts
  <2>3. t.lifecycle = "queued"
    BY <2>2, RestartFacts
  <2> HIDE DEF a, t
  <2>4. QED BY <1>3, <2>1, <2>2, <2>3 DEF Charged
<1>8. ASSUME NEW d \in issued, ReportCompletion(d)
      PROVE  SameCharges \/ \E q \in Request : Ends(q)
  <2>1. PICK outcome \in Outcome, s \in RsType : s.lifecycle # "absent" /\ Finish(d, outcome, s)
    BY <1>8, ReportFinishes
  <2> DEFINE t == [ReleaseReservation(s) EXCEPT !.group = 0]
  <2>2. /\ rs' = [rs EXCEPT ![d.req] = t] /\ d.req \in Request /\ Live(d.req)
        /\ ts' = IF s.lifecycle \in Terminal THEN Settled(d.req) ELSE ts
    BY <1>1, <1>8, <2>1 DEF Finish, DispatchType, ReportCompletion, Authoritative
  <2>3. t.lifecycle = s.lifecycle
    BY ONLY <2>1, s \in RsType, ZenonT(60) DEF ReleaseReservation, RsType
  <2>4. s.lifecycle \in Terminal <=> ~Charged(s)
    BY <2>1 DEF RsType, Lifecycle, Terminal, Charged
  <2> HIDE DEF t
  <2>5. CASE Charged(s)
    BY <1>3, <2>2, <2>3, <2>4, <2>5 DEF Live, Charged
  <2>6. CASE ~Charged(s)
    BY <1>4, <2>2, <2>3, <2>4, <2>6 DEF Charged
  <2>7. QED BY <2>5, <2>6
<1>9. ASSUME NEW d \in issued, CancelGeneration(d)
      PROVE  SameCharges
  <2>1. d.req \in Request /\ rs' = [rs EXCEPT ![d.req].cancelPending = TRUE] /\ ts' = ts
    BY <1>1, <1>9 DEF CancelGeneration, DispatchType
  <2>2. QED BY <1>5, <2>1
<1>10. ASSUME NEW w \in Worker, WorkerLost(w)
       PROVE  SameCharges
  <2>1. ASSUME NEW r \in Request
        PROVE  Charged(rs'[r]) <=> Charged(rs[r])
    <3>1. rs'[r] = rs[r] \/ (rs'[r] = Recovered(rs[r]) /\ rs[r].lifecycle = "dispatched")
      BY <1>10 DEF WorkerLost
    <3>2. Recovered(rs[r]).lifecycle = "queued"
      BY <1>1, RecoveredFacts
    <3>3. QED BY <3>1, <3>2 DEF Charged
  <2>2. ts' = ts
    BY <1>10 DEF WorkerLost
  <2>3. QED BY <2>1, <2>2 DEF SameCharges
<1>11. CASE \/ \E w \in Worker : UnregisterWorker(w)
            \/ \E w \in Worker, boot \in 1 .. MaxRegistrations : RegisterWorker(w, boot)
            \/ AttachExecutor \/ RollEpoch \/ Tick \/ UNCHANGED vars
  <2>1. rs' = rs /\ ts' = ts
    BY <1>11 DEF UnregisterWorker, RegisterWorker, AttachExecutor, RollEpoch, Tick, vars
  <2>2. QED BY <2>1 DEF SameCharges
<1>12. QED BY <1>6, <1>7, <1>8, <1>9, <1>10, <1>11 DEF Next

LEMMA PlacesStep ==
  ASSUME IInv, Places, [Next]_vars
  PROVE  Places'
<1>1. TypeOK
  BY DEF IInv
<1>2. SameCharges => Places'
  BY PlacesKept DEF SameCharges
<1>3. ASSUME NEW q \in Request, Ends(q) \/ Submit(q)
      PROVE  Places'
  BY <1>1, <1>3, PlaceSettled, PlaceTaken DEF Ends
<1>4. QED BY <1>2, <1>3, ChargeSteps, PlacesSwept

-----------------------------------------------------------------------------
(* One life of a scheduler: the calls of an orderly system, with X what    *)
(* was executed so far, and E dispatches of an earlier life.               *)

(* The dispatches of E were numbered before the ones of this life.         *)
Stale(E) ==
  \A e \in E : /\ e.req \in Request /\ e.gen \in Nat /\ e.gen < nextGeneration
               /\ \A d \in issued : d.gen # e.gen

RunInv(X, E) == IInv /\ Progress(X) /\ Places /\ Stale(E)

(* A call of the life, after which Y was executed.                         *)
Executes(X, Y) ==
  \/ /\ \/ \E q \in Request : Submit(q) \/ ForceRetry(q)
        \/ RunCycle
        \/ \E d \in issued : Authoritative(d, Stamp(d)) /\ ReportRetryable(d)
     /\ Y = X
  \/ \E d \in issued :
       /\ Authoritative(d, Stamp(d)) /\ ReportSuccess(d)
       /\ Y = X \cup {<<d.req, d.attempt, t>> :
                        t \in d.chunk * Size(d.req) .. (d.chunk * Size(d.req) + Tokens(d.req, d.chunk) - 1)}

LEMMA StaleStep ==
  ASSUME IInv, NEW X, NEW Y, NEW E, Stale(E), Executes(X, Y)
  PROVE  Stale(E)'
<1>1. ASSUME nextGeneration' = nextGeneration, \A d \in issued' : \E e \in issued : d.gen = e.gen
      PROVE  Stale(E)'
  BY <1>1 DEF Stale
<1>2. CASE \E q \in Request : Submit(q) \/ ForceRetry(q)
  <2>1. nextGeneration' = nextGeneration /\ issued' = issued
    BY <1>2 DEF Submit, ForceRetry
  <2>2. QED BY <1>1, <2>1
<1>3. ASSUME NEW d \in issued, ReportRetryable(d) \/ ReportSuccess(d)
      PROVE  Stale(E)'
  <2>1. PICK outcome : /\ issued' = (issued \ {d}) \cup {[d EXCEPT !.credits = @ + 1, !.outcome = outcome]}
                       /\ nextGeneration' = nextGeneration
    BY <1>3 DEF ReportRetryable, ReportSuccess, Finish
  <2>2. [d EXCEPT !.credits = @ + 1, !.outcome = outcome].gen = d.gen
    BY DEF IInv, TypeOK, DispatchType
  <2>3. QED BY <1>1, <2>1, <2>2
<1>4. CASE RunCycle
  <2>1. PICK sent, lead, host, gen : Cycle(sent, lead, host, gen)
    BY <1>4, CycleFacts
  <2>2. nextGeneration \in Nat /\ nextGeneration' \in Nat /\ nextGeneration <= nextGeneration'
    BY <2>1, CycleCounters
  <2>3. ASSUME NEW d \in issued'
        PROVE  d \in issued \/ (d.gen \in Nat /\ d.gen >= nextGeneration)
    <3>1. d \in issued \/ \E r \in sent : d = Issue(r, gen[r], host[lead[r]])
      BY <2>1 DEF Cycle, Recorded
    <3>2. \A r \in sent : gen[r] \in Nat /\ gen[r] >= nextGeneration
      BY <2>1 DEF Cycle, Assigned
    <3>3. QED BY <3>1, <3>2, SMTT(20) DEF Issue
  <2>4. QED BY <2>2, <2>3, SMTT(20) DEF Stale
<1>5. QED BY <1>2, <1>3, <1>4 DEF Executes

LEMMA RunStep ==
  ASSUME NEW X, NEW Y, NEW E, RunInv(X, E), Executes(X, Y)
  PROVE  RunInv(Y, E)'
<1>1. IInv /\ Progress(X) /\ Places /\ Stale(E)
  BY DEF RunInv
<1>2. \A d \in issued : Authoritative(d, Stamp(d)) => Stamp(d) \in Reports(d)
  BY <1>1, StampReports
<1>3. Next
  BY <1>2 DEF Executes, Next, ReportCompletion, Report
<1>4. IInv' /\ Places'
  BY <1>1, <1>3, NextStep, PlacesStep
<1>5. Stale(E)'
  BY <1>1, StaleStep
<1>6. Progress(Y)'
  <2>1. CASE \E d \in issued :
               /\ Authoritative(d, Stamp(d)) /\ ReportSuccess(d)
               /\ Y = X \cup {<<d.req, d.attempt, t>> :
                                t \in d.chunk * Size(d.req) ..
                                      (d.chunk * Size(d.req) + Tokens(d.req, d.chunk) - 1)}
    BY <1>1, <1>2, <2>1, SuccessProgress
  <2>2. CASE Y = X /\ \A r \in Request : Steady(r)
    <3>1. ASSUME NEW r \in Request
          PROVE  /\ rs'[r].lifecycle \in {"queued", "dispatched"} =>
                      Ran(Y, r, rs'[r].attempt, rs'[r].chunk * Size(r))
                 /\ rs'[r].lifecycle = "completed" => Ran(Y, r, rs'[r].attempt, Uncached(r))
      BY <1>1, <2>2, SteadyProgress DEF Progress
    <3>2. QED BY <3>1 DEF Progress, Live
  <2>3. QED BY <1>1, <1>2, <2>1, <2>2, CallsAreSteady DEF Executes
<1>7. QED BY <1>4, <1>5, <1>6 DEF RunInv

LEMMA RunStutters ==
  ASSUME NEW X, NEW E, RunInv(X, E), UNCHANGED vars
  PROVE  RunInv(X, E)'
<1>1. IInv /\ Progress(X) /\ Places /\ Stale(E) /\ [Next]_vars
  BY DEF RunInv
<1>2. IInv' /\ Places'
  BY <1>1, NextStep, PlacesStep
<1>3. Progress(X)' /\ Stale(E)'
  BY <1>1 DEF Progress, Stale, Live, vars
<1>4. QED BY <1>2, <1>3 DEF RunInv

(* A life starts with no dispatch out, nothing skipped and the accounts    *)
(* right.                                                                  *)
Starts(X, E) ==
  /\ TypeOK /\ Places /\ groups = {} /\ issued = {} /\ nextGeneration > 0 /\ nextAttempt > 0
  /\ \A r \in Request :
       /\ rs[r].lifecycle # "dispatched" /\ ~rs[r].inFlight /\ ~rs[r].reservation
       /\ rs[r].attempt < nextAttempt
       /\ rs[r].lifecycle = "queued" =>
            Pending(r, rs[r].chunk) /\ Ran(X, r, rs[r].attempt, rs[r].chunk * Size(r))
       /\ rs[r].lifecycle = "completed" => Ran(X, r, rs[r].attempt, Uncached(r))
  /\ \A e \in E : e.req \in Request /\ e.gen \in Nat /\ e.gen < nextGeneration

LEMMA RunStarts ==
  ASSUME NEW X, NEW E, Starts(X, E)
  PROVE  RunInv(X, E)
<1>1. PlanInv /\ Progress(X)
  BY DEF Starts, PlanInv, Progress, Live
<1>2. Allocated /\ GenerationsDiffer /\ CreditedBefore /\ ChunkAppliedOnce /\ GroupsConsistent /\ Stale(E)
  BY DEF Starts, Allocated, GenerationsDiffer, CreditedBefore, ChunkAppliedOnce, GroupsConsistent, Stale
<1>3. ReservedIffInFlight /\ InFlightIssued
  BY DEF Starts, ReservedIffInFlight, InFlightIssued
<1>4. QED BY <1>1, <1>2, <1>3 DEF Starts, IInv, RunInv

(* The state of a fresh scheduler.                                         *)
Fresh ==
  /\ rs = [r \in Request |-> Absent] /\ groups = {} /\ issued = {}
  /\ ws = [w \in Worker |-> IF w = 0 THEN [state |-> "ready", boot |-> 1, busy |-> 0]
                                     ELSE [state |-> "unknown", boot |-> 0, busy |-> 0]]
  /\ ts = [t \in Tenant |-> [outstanding |-> 0, admitted |-> 0]]
  /\ epoch = 1 /\ nextGeneration = 1 /\ nextAttempt = 1 /\ now \in Nat /\ registrations \in Nat

LEMMA FreshStarts ==
  ASSUME Fresh
  PROVE  RunInv({}, {})
<1>1. Absent \in RsType /\ Absent.lifecycle = "absent" /\ Absent.attempt = 0
      /\ Absent.inFlight = FALSE /\ Absent.reservation = FALSE
  BY SchedulerAssumption DEF ConstantsOK, Absent, RsType, Lifecycle
<1>2. TypeOK
  BY <1>1 DEF Fresh, TypeOK, WorkerType, TenantType
<1>3. Places
  <2>1. ASSUME NEW t \in Tenant
        PROVE  ts[t].outstanding = Cardinality(LiveOf(t))
    <3>1. LiveOf(t) = {}
      BY <1>1 DEF Fresh, LiveOf, Live
    <3>2. QED BY <3>1, FS_EmptySet DEF Fresh
  <2>2. QED BY <2>1 DEF Places
<1>4. Starts({}, {})
  BY <1>1, <1>2, <1>3, SMTT(20) DEF Fresh, Starts
<1>5. QED BY <1>4, RunStarts

(* No dispatch of the earlier life is authoritative in this one.           *)
LEMMA RunStale ==
  ASSUME NEW X, NEW E, RunInv(X, E), NEW e \in E
  PROVE  ~Authoritative(e, Stamp(e))
<1>1. e.req \in Request /\ PlanInv /\ InFlightIssued /\ \A d \in issued : d.gen # e.gen
  BY DEF RunInv, Stale, IInv
<1>2. Authoritative(e, Stamp(e)) =>
        rs[e.req].lifecycle = "dispatched" /\ rs[e.req].inFlight /\ rs[e.req].gen = e.gen
  BY <1>1 DEF Authoritative, PlanInv, Live
<1>3. QED BY <1>1, <1>2, SMTT(20) DEF InFlightIssued
=============================================================================
