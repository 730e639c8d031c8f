-------------------------- MODULE SchedulerAccounts --------------------------
(***************************************************************************)
(* What the scheduler counts, for every set of requests, workers and       *)
(* tenants and every configuration: tokens, units, memory, admissions, and *)
(* what is packed together.                                                *)
(***************************************************************************)
EXTENDS SchedulerProofs, Sums

(* Zenon takes the steps; one that needs arithmetic names SMT.             *)
USE ZenonT(60)

-----------------------------------------------------------------------------
(* Groups and the workers they are sent to.                                *)

(* A request that does not lead a group joined one that was open, and was  *)
(* compatible with those who had joined it before.                         *)
LEMMA JoinedFits ==
  ASSUME NEW lead \in [Candidates -> Candidates], FirstFit(lead), NEW r \in Candidates, lead[r] # r
  PROVE  LET l == lead[r] IN
         /\ lead[l] = l /\ Before(l, r)
         /\ Compatible(r, {q \in Candidates : lead[q] = l /\ Before(q, r)})
<1> DEFINE Joined(l) == {q \in DOMAIN lead : lead[q] = l /\ Before(q, r)}
           fitting == {l \in DOMAIN lead : lead[l] = l /\ Before(l, r) /\ Compatible(r, Joined(l))}
<1>1. lead[r] \in fitting
  BY DEF FirstFit
<1>2. lead[lead[r]] = lead[r] /\ Before(lead[r], r) /\ Compatible(r, Joined(lead[r]))
  BY <1>1
<1>3. DOMAIN lead = Candidates
  OBVIOUS
<1>4. QED BY <1>2, <1>3

LEMMA LeadersShareBackend ==
  ASSUME NEW lead \in [Candidates -> Candidates], FirstFit(lead), NEW r \in Candidates
  PROVE  Descriptor[r].backend = Descriptor[lead[r]].backend
<1> DEFINE l == lead[r]
           M == {q \in Candidates : lead[q] = l /\ Before(q, r)}
<1>1. CASE l # r
  <2>1. l \in M /\ Compatible(r, M)
    BY <1>1, JoinedFits
  <2>2. CompatKey(l) = CompatKey(r)
    BY <2>1 DEF Compatible
  <2>3. QED BY <2>2 DEF CompatKey
<1>2. QED BY <1>1

LEMMA HostsAccept ==
  ASSUME NEW lead, NEW host, Hosted(lead, host), NEW l \in DOMAIN host, host[l] # None
  PROVE  Accepts(host[l], l)
BY DEF Hosted

(* What is left of a group stays with its worker.                          *)
PartOfGroup(g) == \E h \in groups : g.worker = h.worker /\ g.outstanding \subseteq h.outstanding

LEMMA DetachedParts ==
  ASSUME IInv, NEW S \in SUBSET Request, NEW g \in Detached(S)
  PROVE  PartOfGroup(g)
BY DetachedFacts, SMTT(20) DEF IInv, PartOfGroup

GroupsOnlyShrink == \A g \in groups' : PartOfGroup(g)

(* Only a cycle forms groups.                                              *)
LEMMA GroupsShrink ==
  ASSUME IInv, [Next]_vars
  PROVE  RunCycle \/ GroupsOnlyShrink
<1>1. ASSUME groups' \subseteq groups \/ \E S \in SUBSET Request : groups' = Detached(S)
      PROVE  GroupsOnlyShrink
  BY <1>1, DetachedParts DEF PartOfGroup, GroupsOnlyShrink
<1>2. ASSUME NEW r \in Request, Submit(r) \/ Cancel(r) \/ ForceRetry(r)
      PROVE  GroupsOnlyShrink
  <2>1. groups' \subseteq groups \/ groups' = Detached({r})
    BY <1>2 DEF Submit, Cancel, ForceRetry
  <2>2. QED BY <1>1, <2>1
<1>3. ASSUME NEW d \in issued, ReportCompletion(d) \/ CancelGeneration(d)
      PROVE  GroupsOnlyShrink
  <2>1. d.req \in Request
    BY DEF IInv, TypeOK, DispatchType
  <2>2. groups' = groups \/ groups' = Detached({d.req})
    BY <1>3, ReportFinishes DEF CancelGeneration, Finish
  <2>3. QED BY <1>1, <2>1, <2>2
<1>4. CASE \/ \E w \in Worker : UnregisterWorker(w) \/ WorkerLost(w)
           \/ \E w \in Worker, boot \in 1 .. MaxRegistrations : RegisterWorker(w, boot)
           \/ AttachExecutor \/ RollEpoch \/ Tick \/ UNCHANGED vars
  <2>1. groups' \subseteq groups
    BY <1>4 DEF UnregisterWorker, WorkerLost, RegisterWorker, AttachExecutor, RollEpoch, Tick, vars
  <2>2. QED BY <1>1, <2>1
<1>5. QED BY <1>2, <1>3, <1>4 DEF Next

LEMMA AcceptingStep ==
  ASSUME IInv, GroupsOnAcceptingWorkers, [Next]_vars
  PROVE  GroupsOnAcceptingWorkers'
<1>1. ASSUME NEW g, PartOfGroup(g)
      PROVE  \A r \in g.outstanding : Accepts(g.worker, r)
  BY <1>1 DEF PartOfGroup, GroupsOnAcceptingWorkers
<1>2. CASE GroupsOnlyShrink
  BY <1>1, <1>2 DEF GroupsOnlyShrink, GroupsOnAcceptingWorkers, Accepts
<1>3. CASE RunCycle
  <2>1. PICK lead \in [Candidates -> Candidates] :
          /\ FirstFit(lead)
          /\ \E host \in [{r \in Candidates : lead[r] = r} -> Worker \cup {None}] :
               /\ Hosted(lead, host)
               /\ \E sent, gen : CycleEffect(sent, lead, host, gen)
    BY <1>3 DEF RunCycle
  <2>2. PICK host \in [{r \in Candidates : lead[r] = r} -> Worker \cup {None}] :
          /\ Hosted(lead, host)
          /\ \E sent, gen : CycleEffect(sent, lead, host, gen)
    BY <2>1
  <2>3. PICK sent, gen : CycleEffect(sent, lead, host, gen)
    BY <2>2
  <2>4. ASSUME NEW g \in groups', NEW r \in g.outstanding
        PROVE  Accepts(g.worker, r)
    <3>1. CASE g \in Detached(Swept)
      <4>1. Swept \in SUBSET Request
        BY DEF Swept, Expiring
      <4>2. QED BY <1>1, <2>4, <3>1, <4>1, DetachedParts
    <3>2. CASE g \notin Detached(Swept)
      <4>1. PICK l \in {k \in DOMAIN host : host[k] # None} :
              g = [id |-> gen[l], worker |-> host[l], outstanding |-> Members(lead, l)]
        BY <2>3, <2>4, <3>2 DEF CycleEffect
      <4>2. r \in Candidates /\ lead[r] = l /\ g.worker = host[l]
        BY <2>4, <4>1 DEF Members
      <4>3. Accepts(host[l], l)
        BY <2>2, <4>1, HostsAccept
      <4>4. Descriptor[r].backend = Descriptor[l].backend
        BY <2>1, <4>2, LeadersShareBackend
      <4>5. QED BY <4>2, <4>3, <4>4 DEF Accepts
    <3>3. QED BY <3>1, <3>2
  <2>5. QED BY <2>4 DEF GroupsOnAcceptingWorkers, Accepts
<1>4. QED BY <1>2, <1>3, GroupsShrink

(* The worker of a group is chosen for the group's leader: for any         *)
(* backends and any mixture of candidates, it accepts every member, also   *)
(* when the group shrinks by reports, sweeps and cancellations.            *)
THEOREM WorkersAcceptTheirGroups == Spec => []GroupsOnAcceptingWorkers
<1>1. Init => GroupsOnAcceptingWorkers
  BY DEF Init, GroupsOnAcceptingWorkers
<1>2. IInv /\ GroupsOnAcceptingWorkers /\ [Next]_vars => GroupsOnAcceptingWorkers'
  BY AcceptingStep
<1>3. QED BY <1>1, <1>2, Invariance, PTL DEF Spec

-----------------------------------------------------------------------------
(* So whatever a cycle has chosen, one of the chosen came last.            *)
IsLast(m, S) == m \in S /\ \A q \in S \ {m} : Before(q, m) /\ ~Before(m, q)

LEMMA SomeIsLast ==
  ASSUME TypeOK, NEW S \in SUBSET Request, S # {}
  PROVE  \E m : IsLast(m, S)
<1> DEFINE G == {T \in SUBSET S : T = {} \/ \E m : IsLast(m, T)}
<1>1. IsFiniteSet(S) /\ {} \in G
  BY CardOfRequests
<1>2. ASSUME NEW T \in SUBSET S, NEW x \in S \ T, T \in G
      PROVE  T \cup {x} \in G
  <2>1. CASE T = {}
    <3>1. IsLast(x, T \cup {x})
      BY <2>1 DEF IsLast
    <3>2. QED BY <3>1
  <2>2. ASSUME NEW m, IsLast(m, T)
        PROVE  \E n : IsLast(n, T \cup {x})
    <3>1. x # m /\ x \in Request /\ m \in Request /\ T \in SUBSET Request
      BY <2>2 DEF IsLast
    <3>2. CASE Before(x, m)
      <4>1. ~Before(m, x)
        BY <3>1, <3>2, BeforeOrder
      <4>2. IsLast(m, T \cup {x})
        BY <2>2, <3>2, <4>1 DEF IsLast
      <4>3. QED BY <4>2
    <3>3. CASE Before(m, x)
      <4>1. \A q \in T : Before(q, x)
        BY <2>2, <3>1, <3>3, BeforeOrder DEF IsLast
      <4>2. \A q \in T : ~Before(x, q)
        BY <3>1, <4>1, BeforeOrder
      <4>3. IsLast(x, T \cup {x})
        BY <4>1, <4>2 DEF IsLast
      <4>4. QED BY <4>3
    <3>4. QED BY <3>1, <3>2, <3>3, BeforeOrder
  <2>3. QED BY <1>2, <2>1, <2>2
<1> HIDE DEF G
<1>3. S \in G
  BY <1>1, <1>2, SubsetInduction
<1>4. QED BY <1>3 DEF G

-----------------------------------------------------------------------------
(* The memory that is reserved.                                            *)

(* A step after which fewer requests hold what they held.                  *)
LEMMA FewerReservations ==
  ASSUME TypeOK, TypeOK', WithinBudget,
         \A r \in Request : rs'[r].reservation =>
           rs[r].reservation /\ rs'[r].reservedBytes = rs[r].reservedBytes
  PROVE  WithinBudget'
<1> DEFINE f == [r \in Request |-> rs[r].reservedBytes]
           g == [r \in Request |-> rs'[r].reservedBytes]
           A == {r \in Request : rs[r].reservation}
           B == {r \in Request : rs'[r].reservation}
<1>1. /\ IsFiniteSet(A) /\ IsFiniteSet(B) /\ B \in SUBSET A
      /\ \A r \in A : f[r] \in Nat
      /\ \A r \in B : f[r] \in Int /\ g[r] = f[r]
  <2>1. A \in SUBSET Request /\ B \in SUBSET Request /\ B \in SUBSET A
    OBVIOUS
  <2>2. \A r \in Request : rs[r].reservedBytes \in Nat
    BY DEF TypeOK, RsType
  <2>3. QED BY <2>1, <2>2, CardOfRequests, SMTT(20)
<1>2. ReservedBytes(Request) = SumFunctionOnSet(f, A) /\ ReservedBytes(Request)' = SumFunctionOnSet(g, B)
  BY DEF ReservedBytes
<1> HIDE DEF f, g, A, B
<1>3. SumFunctionOnSet(g, B) = SumFunctionOnSet(f, B)
  BY ONLY <1>1, SumSame, ZenonT(60)
<1>4. SumFunctionOnSet(f, B) <= SumFunctionOnSet(f, A)
  BY ONLY <1>1, SumSubset, ZenonT(60)
<1>5. SumFunctionOnSet(f, A) \in Nat /\ SumFunctionOnSet(f, B) \in Nat
  <2>1. \A r \in B : f[r] \in Nat
    BY <1>1
  <2>2. QED BY ONLY <1>1, <2>1, SumNat, ZenonT(60)
<1>6. SumFunctionOnSet(f, A) <= Budget /\ Budget \in Nat
  BY <1>2, SchedulerAssumption DEF ConstantsOK, WithinBudget
<1>7. SumFunctionOnSet(g, B) <= Budget
  BY ONLY <1>3, <1>4, <1>5, <1>6, SMTT(20)
<1>8. QED BY <1>2, <1>7 DEF WithinBudget

(* What the last group of a cycle was checked against is everything that   *)
(* is reserved after the cycle.                                            *)
LEMMA LastGroupFits ==
  ASSUME IInv, NEW sent, NEW lead, NEW host, Chosen(sent, lead, host), sent # {}
  PROVE  ReservedBytes(Request \ Expiring) + MemoryIn(sent) <= Budget
<1> DEFINE L == {l \in DOMAIN host : host[l] # None}
           Earlier(l) == {k \in DOMAIN host : host[k] # None /\ Before(k, l)}
<1>1. /\ lead \in [Candidates -> Candidates] /\ Candidates \subseteq Request
      /\ DOMAIN host = {r \in Candidates : lead[r] = r} /\ Hosted(lead, host)
      /\ sent = {r \in Candidates : host[lead[r]] # None}
  BY DEF Chosen, Candidates
<1>2. \A r \in Candidates : lead[r] \in DOMAIN host
  BY <1>1, LeadersLead DEF Chosen
<1>3. L \in SUBSET Request /\ L # {}
  BY <1>1, <1>2
<1>4. PICK m : IsLast(m, L)
  BY <1>3, SomeIsLast DEF IInv
<1>5. m \in L /\ Earlier(m) \cup {m} = L
  <2>1. ~Before(m, m)
    BY <1>3, <1>4, BeforeOrder DEF IInv, IsLast
  <2>2. QED BY <1>4, <2>1 DEF IsLast
<1>6. Placed(lead, Earlier(m), m) = sent
  <2>1. Placed(lead, Earlier(m), m) = UNION {Members(lead, k) : k \in L}
    BY <1>5 DEF Placed
  <2>2. ASSUME NEW r \in sent
        PROVE  lead[r] \in L /\ r \in Members(lead, lead[r])
    BY <1>1, <1>2 DEF Members
  <2>3. ASSUME NEW k \in L, NEW r \in Members(lead, k)
        PROVE  r \in sent
    BY <1>1 DEF Members
  <2>4. QED BY <2>1, <2>2, <2>3
<1>7. ReservedBytes(Request \ Expiring) + MemoryIn(Placed(lead, Earlier(m), m)) <= Budget
  BY <1>1, <1>5 DEF Hosted
<1>8. QED BY <1>6, <1>7

LEMMA CycleWithinBudget ==
  ASSUME IInv, IInv', WithinBudget, RunCycle
  PROVE  WithinBudget'
<1>1. PICK sent, lead, host, gen : /\ Cycle(sent, lead, host, gen) /\ Chosen(sent, lead, host)
  BY CycleFacts
<1> DEFINE f == [r \in Request |-> rs[r].reservedBytes]
           n == [r \in Request |-> NextMemory(r)]
           g == [r \in Request |-> rs'[r].reservedBytes]
           A == {r \in Request \ Expiring : rs[r].reservation}
           B == {r \in Request : rs'[r].reservation}
<1>2. /\ sent \in SUBSET Request /\ A \in SUBSET Request
      /\ \A r \in sent : rs[r].lifecycle = "queued" /\ Pending(r, rs[r].chunk) /\ r \notin Expiring
  BY <1>1 DEF Cycle, Assigned, Candidates
<1>3. /\ \A r \in Request : rs[r] \in RsType /\ rs[r].reservedBytes \in Nat
      /\ \A r \in sent : NextMemory(r) \in Nat
  <2>1. \A r \in Request : rs[r] \in RsType /\ rs[r].reservedBytes \in Nat /\ rs[r].chunk \in Nat
    BY DEF IInv, TypeOK, RsType
  <2>2. QED BY <1>2, <2>1, ChunkTypes DEF NextMemory
<1>4. ASSUME NEW r \in sent
      PROVE  rs'[r].reservation = TRUE /\ rs'[r].reservedBytes = NextMemory(r)
  <2>1. rs'[r] = Dispatch(r, gen[r], gen[lead[r]], host[lead[r]])
    BY <1>1 DEF Cycle, Treated
  <2>2. rs[r] \in RsType
    BY <1>2, <1>3
  <2>3. QED BY ONLY <2>1, <2>2, ZenonT(60) DEF Dispatch, RsType
<1>5. ASSUME NEW r \in Request \ sent
      PROVE  /\ r \in Expiring => ~rs'[r].reservation
             /\ r \notin Expiring => /\ rs'[r].reservation = rs[r].reservation
                                     /\ rs'[r].reservedBytes = rs[r].reservedBytes
  <2>1. rs[r] \in RsType
    BY <1>3
  <2>2. CASE r \in Expiring
    <3>1. rs'[r] = Expire(rs[r])
      BY <1>1, <2>2 DEF Cycle, Treated
    <3>2. QED BY <2>1, <2>2, <3>1, ExpireFacts
  <2>3. CASE r \notin Expiring
    <3>1. rs'[r] = Age(rs[r])
      BY <1>1, <2>3 DEF Cycle, Treated
    <3>2. rs'[r].reservation = rs[r].reservation /\ rs'[r].reservedBytes = rs[r].reservedBytes
      BY ONLY <2>1, <3>1, ZenonT(60) DEF Age, RsType
    <3>3. QED BY <2>3, <3>2
  <2>4. QED BY <2>2, <2>3
<1>6. CASE sent = {}
  <2>1. TypeOK /\ TypeOK'
    BY DEF IInv
  <2>2. \A r \in Request : rs'[r].reservation =>
           rs[r].reservation /\ rs'[r].reservedBytes = rs[r].reservedBytes
    BY <1>5, <1>6
  <2>3. QED BY <2>1, <2>2, FewerReservations
<1>7. CASE sent # {}
  <2>1. ReservedBytes(Request \ Expiring) + MemoryIn(sent) <= Budget
    BY <1>1, <1>7, LastGroupFits
  <2>2. /\ ReservedBytes(Request \ Expiring) = SumFunctionOnSet(f, A)
        /\ MemoryIn(sent) = SumFunctionOnSet(n, sent)
        /\ ReservedBytes(Request)' = SumFunctionOnSet(g, B)
    BY DEF ReservedBytes, MemoryIn
  <2>3. B = A \cup sent /\ A \cap sent = {}
    <3>1. \A r \in sent : ~rs[r].reservation
      BY <1>2 DEF IInv, ReservedIffInFlight
    <3>2. QED BY <1>2, <1>4, <1>5, <3>1
  <2>4. IsFiniteSet(A) /\ IsFiniteSet(sent)
    BY <1>2, CardOfRequests
  <2>5. /\ \A r \in A : f[r] \in Int /\ g[r] = f[r]
        /\ \A r \in sent : n[r] \in Int /\ g[r] = n[r]
    <3>1. ASSUME NEW r \in A
          PROVE  f[r] \in Int /\ g[r] = f[r]
      <4>1. r \in Request \ sent /\ r \notin Expiring
        BY <2>3
      <4>2. rs'[r].reservedBytes = rs[r].reservedBytes /\ rs[r].reservedBytes \in Nat
        BY <1>3, <1>5, <4>1
      <4>3. QED BY <4>1, <4>2, SMTT(20)
    <3>2. ASSUME NEW r \in sent
          PROVE  n[r] \in Int /\ g[r] = n[r]
      <4>1. r \in Request
        BY <1>2
      <4>2. NextMemory(r) \in Nat /\ rs'[r].reservedBytes = NextMemory(r)
        BY <1>3, <1>4
      <4>3. n[r] = NextMemory(r) /\ g[r] = rs'[r].reservedBytes
        BY <4>1
      <4>4. QED BY <4>2, <4>3, SMTT(20)
    <3>3. QED BY <3>1, <3>2
  <2> HIDE DEF f, n, g, A, B
  <2>6. SumFunctionOnSet(g, A) = SumFunctionOnSet(f, A)
    BY ONLY <2>4, <2>5, SumSame, ZenonT(60)
  <2>7. SumFunctionOnSet(g, sent) = SumFunctionOnSet(n, sent)
    BY ONLY <2>4, <2>5, SumSame, ZenonT(60)
  <2>8. \A r \in A \cup sent : g[r] \in Int
    BY ONLY <2>5, ZenonT(60)
  <2>9. SumFunctionOnSet(g, A \cup sent) = SumFunctionOnSet(g, A) + SumFunctionOnSet(g, sent)
    BY ONLY <2>3, <2>4, <2>8, SumUnion, ZenonT(60)
  <2>10. ReservedBytes(Request)' <= Budget
    BY ONLY <2>1, <2>2, <2>3, <2>6, <2>7, <2>9, ZenonT(60)
  <2>11. QED BY <2>10 DEF WithinBudget
<1>8. QED BY <1>6, <1>7

(* The governor is asked group by group, each time with what earlier       *)
(* groups of the cycle took: for any estimates and any budget, what is     *)
(* reserved at one time stays within it.                                   *)
THEOREM MemoryWithinBudget == Spec => []WithinBudget
<1>1. Init => WithinBudget
  <2> SUFFICES ASSUME Init PROVE WithinBudget
    OBVIOUS
  <2>1. {r \in Request : rs[r].reservation} = {}
    <3>1. \A r \in Request : ~rs[r].reservation
      BY DEF Init, Absent
    <3>2. QED BY <3>1
  <2>2. ReservedBytes(Request) = SumFunctionOnSet([r \in Request |-> rs[r].reservedBytes], {})
    BY <2>1 DEF ReservedBytes
  <2>3. ReservedBytes(Request) = 0
    BY ONLY <2>2, SumEmpty, ZenonT(60)
  <2>4. QED BY <2>3, SchedulerAssumption, SMTT(20) DEF ConstantsOK, WithinBudget
<1>2. IInv /\ IInv' /\ WithinBudget /\ [Next]_vars => WithinBudget'
  <2> SUFFICES ASSUME IInv, IInv', WithinBudget, KeepsFlights PROVE WithinBudget'
    BY FlightsStep, CycleWithinBudget
  <2>1. \A r \in Request : rs'[r].reservation =>
           rs[r].reservation /\ rs'[r].reservedBytes = rs[r].reservedBytes
    BY DEF IInv, ReservedIffInFlight, KeepsFlights, Flies, SameFlight
  <2>2. QED BY <2>1, FewerReservations DEF IInv
<1>3. QED BY <1>1, <1>2, Invariance, PTL DEF Spec
-----------------------------------------------------------------------------
(* The accounts of the tenants.                                            *)

(* The uncached tokens of requests: one more request, or fewer of them.    *)
LEMMA UncachedFacts ==
  ASSUME NEW S \in SUBSET Request
  PROVE  /\ UncachedOf(S) \in Nat
         /\ \A r \in Request \ S : UncachedOf(S \cup {r}) = Uncached(r) + UncachedOf(S)
         /\ \A r \in S : UncachedOf(S) = Uncached(r) + UncachedOf(S \ {r})
         /\ \A T \in SUBSET S : UncachedOf(T) <= UncachedOf(S)
<1> DEFINE f == [r \in Request |-> Uncached(r)]
<1>1. \A r \in Request : f[r] = Uncached(r) /\ f[r] \in Nat
  BY DescriptorFacts
<1>2. \A T : UncachedOf(T) = SumFunctionOnSet(f, T)
  BY DEF UncachedOf
<1> HIDE DEF f
<1>3. IsFiniteSet(S) /\ (\A x \in S : f[x] \in Nat) /\ (\A x \in S : f[x] \in Int)
  BY <1>1, CardOfRequests, SMTT(20)
<1>4. SumFunctionOnSet(f, S) \in Nat
  BY ONLY <1>3, SumNat, ZenonT(60)
<1>5. ASSUME NEW r \in Request \ S
      PROVE  UncachedOf(S \cup {r}) = Uncached(r) + UncachedOf(S)
  <2>1. f[r] \in Int /\ r \notin S
    BY <1>1, SMTT(20)
  <2>2. SumFunctionOnSet(f, S \cup {r}) = f[r] + SumFunctionOnSet(f, S)
    BY ONLY <1>3, <2>1, SumAdd, ZenonT(60)
  <2>3. QED BY <1>1, <1>2, <2>2
<1>6. ASSUME NEW r \in S
      PROVE  UncachedOf(S) = Uncached(r) + UncachedOf(S \ {r})
  <2>1. SumFunctionOnSet(f, S) = f[r] + SumFunctionOnSet(f, S \ {r})
    BY ONLY <1>3, r \in S, SumRemove, SMTT(20)
  <2>2. QED BY <1>1, <1>2, <2>1
<1>7. ASSUME NEW T \in SUBSET S
      PROVE  UncachedOf(T) <= UncachedOf(S)
  <2>1. SumFunctionOnSet(f, T) <= SumFunctionOnSet(f, S)
    BY ONLY <1>3, T \in SUBSET S, SumSubset, ZenonT(60)
  <2>2. QED BY <1>2, <2>1
<1>8. QED BY <1>2, <1>4, <1>5, <1>6, <1>7

(* The account of one tenant, of which S are the live requests.            *)
Account(a, S) ==
  /\ a.outstanding = Cardinality(S) /\ a.outstanding <= TenantOutstandingLimit
  /\ UncachedOf(S) <= a.admitted /\ a.admitted <= TenantTokenLimit

LEMMA AccountsAre ==
  /\ TenantsAccounted <=> \A t \in Tenant : Account(ts[t], LiveOf(t))
  /\ TenantsAccounted' <=> \A t \in Tenant :
       Account(ts'[t], ChargedTo(t))
BY DEF TenantsAccounted, Account, LiveOf, Live, Charged, ChargedTo, UncachedOf, Uncached, Remaining

LEMMA AccountsKept ==
  ASSUME TenantsAccounted, SameCharges
  PROVE  TenantsAccounted'
BY ChargesKept, AccountsAre DEF SameCharges

(* A request that ends gives back its place and its tokens, which its      *)
(* tenant's account covers.                                                *)
LEMMA AccountSettled ==
  ASSUME TypeOK, TenantsAccounted, NEW q \in Request, Ends(q)
  PROVE  TenantsAccounted'
<1> SUFFICES ASSUME NEW t \in Tenant
             PROVE  Account(ts'[t], ChargedTo(t))
  BY AccountsAre
<1> DEFINE S == ChargedTo(t)
<1>1. Account(ts[t], LiveOf(t)) /\ ts \in [Tenant -> TenantType]
  BY AccountsAre DEF TypeOK
<1>2. CASE t # Descriptor[q].tenant
  <2>1. S = LiveOf(t)
    BY <1>2 DEF Ends, LiveOf, Live, Charged, ChargedTo
  <2>2. ts'[t] = ts[t]
    BY <1>1, <1>2 DEF Ends, Settled
  <2>3. QED BY <1>1, <2>1, <2>2
<1>3. CASE t = Descriptor[q].tenant
  <2> DEFINE a == ts[t]
             u == Uncached(q)
  <2>1. S = LiveOf(t) \ {q} /\ q \in LiveOf(t)
    BY <1>3 DEF Ends, LiveOf, Live, Charged, ChargedTo
  <2>2. ts'[t] = [outstanding |-> Monus(a.outstanding, 1),
                  admitted    |-> IF a.admitted >= u THEN a.admitted - u ELSE a.admitted]
    BY <1>1, <1>3 DEF Ends, Settled
  <2>3. /\ ts'[t].outstanding = Monus(a.outstanding, 1)
        /\ ts'[t].admitted = IF a.admitted >= u THEN a.admitted - u ELSE a.admitted
    BY ONLY <2>2, SMTT(20)
  <2>4. /\ a.outstanding = Cardinality(LiveOf(t)) /\ a.outstanding <= TenantOutstandingLimit
        /\ UncachedOf(LiveOf(t)) <= a.admitted /\ a.admitted <= TenantTokenLimit
    BY <1>1 DEF Account
  <2>5. LiveOf(t) \in SUBSET Request /\ IsFiniteSet(LiveOf(t)) /\ Cardinality(LiveOf(t)) \in Nat
        /\ a.admitted \in Nat
    BY LiveFacts
  <2>6. Cardinality(S) = Cardinality(LiveOf(t)) - 1 /\ Cardinality(S) \in Nat
    <3>1. Cardinality(LiveOf(t) \ {q}) = Cardinality(LiveOf(t)) - 1
      BY <2>1, <2>5, FS_RemoveElement
    <3>2. S \in SUBSET Request
      BY DEF ChargedTo
    <3>3. QED BY <2>1, <3>1, <3>2, CardOfRequests
  <2>7. UncachedOf(LiveOf(t)) = u + UncachedOf(S)
    BY <2>1, <2>5, UncachedFacts
  <2>8. UncachedOf(S) \in Nat /\ u \in Nat
    BY UncachedFacts, DescriptorFacts DEF ChargedTo
  <2>9. TenantOutstandingLimit \in Nat /\ TenantTokenLimit \in Nat
    BY SchedulerAssumption DEF ConstantsOK
  <2> HIDE DEF S, a, u
  <2>10. Account(ts'[t], S)
    BY ONLY <2>3, <2>4, <2>5, <2>6, <2>7, <2>8, <2>9, SMTT(20) DEF Account, Monus
  <2>11. QED BY <2>10 DEF S
<1>4. QED BY <1>2, <1>3

LEMMA AccountOpened ==
  ASSUME TypeOK, TenantsAccounted, NEW q \in Request, Submit(q)
  PROVE  TenantsAccounted'
<1> SUFFICES ASSUME NEW t \in Tenant
             PROVE  Account(ts'[t], ChargedTo(t))
  BY AccountsAre
<1> DEFINE S == ChargedTo(t)
           a == ts[t]
           u == Uncached(q)
           n == IF u = 0 THEN 0 ELSE 1
<1>1. Account(a, LiveOf(t)) /\ ts \in [Tenant -> TenantType] /\ rs \in [Request -> RsType]
  BY AccountsAre DEF TypeOK
<1>2. /\ \A r \in Request \ {q} : rs'[r] = rs[r]
      /\ rs'[q].lifecycle = (IF u = 0 THEN "completed" ELSE "queued") /\ ~Charged(rs[q])
  BY <1>1 DEF Submit, Absent, Known, Charged
<1>3. CASE t # Descriptor[q].tenant
  <2>1. S = LiveOf(t)
    BY <1>2, <1>3 DEF LiveOf, Live, Charged, ChargedTo
  <2>2. ts'[t] = ts[t]
    BY <1>1, <1>3 DEF Submit
  <2>3. QED BY <1>1, <2>1, <2>2
<1>4. CASE t = Descriptor[q].tenant
  <2>1. /\ ts'[t] = [outstanding |-> a.outstanding + n, admitted |-> a.admitted + u]
        /\ a.outstanding < TenantOutstandingLimit /\ a.admitted + u <= TenantTokenLimit
    BY <1>1, <1>4 DEF Submit
  <2>2. ts'[t].outstanding = a.outstanding + n /\ ts'[t].admitted = a.admitted + u
    BY ONLY <2>1, SMTT(20)
  <2>3. a.outstanding = Cardinality(LiveOf(t)) /\ UncachedOf(LiveOf(t)) <= a.admitted
    BY <1>1 DEF Account
  <2>4. LiveOf(t) \in SUBSET Request /\ IsFiniteSet(LiveOf(t)) /\ Cardinality(LiveOf(t)) \in Nat
        /\ a.admitted \in Nat
    BY LiveFacts
  <2>5. UncachedOf(LiveOf(t)) \in Nat /\ u \in Nat /\ TenantOutstandingLimit \in Nat
    BY <2>4, UncachedFacts, DescriptorFacts, SchedulerAssumption DEF ConstantsOK
  <2>6. q \notin LiveOf(t)
    BY <1>2 DEF LiveOf, Live, Charged, ChargedTo
  <2>7. S = IF u = 0 THEN LiveOf(t) ELSE LiveOf(t) \cup {q}
    <3>1. Charged(rs'[q]) <=> u # 0
      BY <1>2 DEF Charged
    <3>2. \A r \in Request \ {q} : r \in S <=> r \in LiveOf(t)
      BY <1>2 DEF LiveOf, Live, Charged, ChargedTo
    <3>3. (q \in S <=> u # 0) /\ S \in SUBSET Request
      BY <1>4, <3>1 DEF ChargedTo
    <3> HIDE DEF S, u
    <3>4. QED BY ONLY <2>4, <2>6, <3>2, <3>3, q \in Request, SMTT(20)
  <2>8. Cardinality(S) = Cardinality(LiveOf(t)) + n
    <3>1. Cardinality(LiveOf(t) \cup {q}) = Cardinality(LiveOf(t)) + 1
      BY <2>4, <2>6, FS_AddElement
    <3> HIDE DEF S, u
    <3>2. QED BY <2>4, <2>7, <3>1, SMTT(20)
  <2>9. UncachedOf(S) = UncachedOf(LiveOf(t)) + u
    <3>1. UncachedOf(LiveOf(t) \cup {q}) = u + UncachedOf(LiveOf(t))
      BY <2>4, <2>6, UncachedFacts
    <3> HIDE DEF S, u
    <3>2. QED BY ONLY <2>5, <2>7, <3>1, SMTT(20)
  <2>10. n \in {0, 1}
    OBVIOUS
  <2> HIDE DEF S, a, u, n
  <2>11. Account(ts'[t], S)
    BY ONLY <2>1, <2>2, <2>3, <2>4, <2>5, <2>8, <2>9, <2>10, SMTT(20) DEF Account
  <2>12. QED BY <2>11 DEF S
<1>5. QED BY <1>3, <1>4
(* The sweep gives back the places of the requests it ends.                *)
LEMMA AccountsSwept ==
  ASSUME IInv, TenantsAccounted, RunCycle
  PROVE  TenantsAccounted'
<1> SUFFICES ASSUME NEW t \in Tenant
             PROVE  Account(ts'[t], ChargedTo(t))
  BY AccountsAre
<1> DEFINE S == ChargedTo(t)
           e == Cardinality({r \in Expiring : Descriptor[r].tenant = t})
           L == LiveOf(t)
           a == ts[t]
<1>1. /\ a.outstanding = Cardinality(L) /\ a.outstanding <= TenantOutstandingLimit
      /\ UncachedOf(L) <= a.admitted /\ a.admitted <= TenantTokenLimit
  BY AccountsAre DEF Account
<1>2. L \in SUBSET Request /\ Cardinality(L) \in Nat /\ a.admitted \in Nat
  BY LiveFacts DEF IInv
<1>3. ts'[t].outstanding = Monus(a.outstanding, e) /\ ts'[t].admitted = a.admitted
  BY SweptFacts
<1>4. /\ S \in SUBSET L /\ Cardinality(S) = Cardinality(L) - e
      /\ Cardinality(S) \in Nat /\ e \in Nat
  BY SweptFacts
<1>5. UncachedOf(S) <= UncachedOf(L) /\ UncachedOf(S) \in Nat /\ UncachedOf(L) \in Nat
  <2>1. S \in SUBSET Request
    BY <1>2, <1>4
  <2>2. QED BY <1>2, <1>4, <2>1, UncachedFacts
<1>6. TenantOutstandingLimit \in Nat /\ TenantTokenLimit \in Nat
  BY SchedulerAssumption DEF ConstantsOK
<1> HIDE DEF S, e, L, a
<1>7. Account(ts'[t], S)
  BY ONLY <1>1, <1>2, <1>3, <1>4, <1>5, <1>6, SMTT(20) DEF Account, Monus
<1>8. QED BY <1>7 DEF S

LEMMA AccountsStep ==
  ASSUME IInv, TenantsAccounted, [Next]_vars
  PROVE  TenantsAccounted'
<1>1. TypeOK
  BY DEF IInv
<1>2. QED BY <1>1, ChargeSteps, AccountsKept, AccountSettled, AccountOpened, AccountsSwept

(* However requests of a tenant end (by a report, a cancellation or the    *)
(* sweep), and for any limits, the counters that admission looks at match  *)
(* the requests that are not terminal: no place leaks, none is given back  *)
(* twice, and the tokens of live requests stay admitted.                   *)
THEOREM AdmissionAccounted == Spec => []TenantsAccounted
<1>1. Init => TenantsAccounted
  <2> SUFFICES ASSUME Init, NEW t \in Tenant PROVE Account(ts[t], LiveOf(t))
    BY AccountsAre
  <2>1. LiveOf(t) = {}
    <3>1. \A r \in Request : ~Live(r)
      BY DEF Init, Absent, Live
    <3>2. QED BY <3>1 DEF LiveOf
  <2>2. ts[t].outstanding = 0 /\ ts[t].admitted = 0
    BY DEF Init
  <2>3. UncachedOf({}) = 0
    BY SumEmpty DEF UncachedOf
  <2>4. Cardinality({}) = 0
    BY FS_EmptySet
  <2>5. QED BY <2>1, <2>2, <2>3, <2>4, SchedulerAssumption, SMTT(20) DEF ConstantsOK, Account
<1>2. IInv /\ TenantsAccounted /\ [Next]_vars => TenantsAccounted'
  BY AccountsStep
<1>3. QED BY <1>1, <1>2, Invariance, PTL DEF Spec
-----------------------------------------------------------------------------
(* The units of the workers.                                               *)

LEMMA SameCardinality ==
  ASSUME NEW S, IsFiniteSet(S), NEW T, NEW f \in [S -> T],
         \A x, y \in S : f[x] = f[y] => x = y, \A z \in T : \E x \in S : f[x] = z
  PROVE  IsFiniteSet(T) /\ Cardinality(T) = Cardinality(S)
<1>1. f \in Surjection(S, T)
  BY DEF Surjection
<1>2. f \in Injection(S, T)
  BY DEF Injection, IsInjective
<1>3. QED BY <1>1, <1>2, FS_Surjection

LEMMA GroupsOnFinite ==
  ASSUME TypeOK, GroupsConsistent, NEW w
  PROVE  IsFiniteSet(GroupsOn(w)) /\ Cardinality(GroupsOn(w)) \in Nat /\ GroupsOn(w) \in SUBSET groups
<1>1. GroupsOn(w) \in SUBSET groups
  BY DEF GroupsOn
<1>2. QED BY <1>1, GroupsFinite, FS_Subset, CardOfGroups

LEMMA UnitsKept ==
  ASSUME IInv, UnitsAccounted, groups' \subseteq groups,
         \A w \in Worker : \/ ws'[w].busy = 0
                           \/ ws'[w].busy = ws[w].busy /\ GroupsOn(w)' = GroupsOn(w)
  PROVE  UnitsAccounted'
<1> SUFFICES ASSUME NEW w \in Worker
             PROVE  ws'[w].busy <= Capacity[w] /\ ws'[w].busy <= Cardinality(GroupsOn(w)')
  BY DEF UnitsAccounted
<1>1. CASE ws'[w].busy = 0
  <2>1. Cardinality(GroupsOn(w)') \in Nat
    <3>1. GroupsOn(w)' \in SUBSET groups
      BY DEF GroupsOn
    <3>2. QED BY <3>1, CardOfGroups DEF IInv
  <2>2. Capacity[w] \in Nat
    BY SchedulerAssumption DEF ConstantsOK
  <2>3. QED BY <1>1, <2>1, <2>2, SMTT(20)
<1>2. CASE ws'[w].busy = ws[w].busy /\ GroupsOn(w)' = GroupsOn(w)
  BY <1>2 DEF UnitsAccounted
<1>3. QED BY <1>1, <1>2

(* A unit is given back with every group that goes.                        *)
LEMMA FreedUnits ==
  ASSUME IInv, UnitsAccounted, NEW gone \in SUBSET groups, NEW w \in Worker
  PROVE  /\ Freed(gone)[w].busy \in Nat /\ Freed(gone)[w].busy <= Capacity[w]
         /\ Freed(gone)[w].busy <= Cardinality(GroupsOn(w) \ gone)
         /\ Cardinality(GroupsOn(w) \ gone) \in Nat
<1> DEFINE G == GroupsOn(w)
           n == Cardinality({g \in gone : g.worker = w})
<1>1. ws[w] \in WorkerType /\ ws[w].busy \in Nat
  BY DEF IInv, TypeOK, WorkerType
<1>2. Freed(gone)[w] = [ws[w] EXCEPT !.busy = Monus(ws[w].busy, n)]
  BY DEF Freed
<1>3. n = Cardinality(G \cap gone)
  <2>1. {g \in gone : g.worker = w} = G \cap gone
    BY DEF GroupsOn
  <2>2. QED BY <2>1
<1>4. IsFiniteSet(G) /\ Cardinality(G) \in Nat /\ n \in Nat /\ Cardinality(G \ gone) \in Nat
  <2>1. IsFiniteSet(G) /\ Cardinality(G) \in Nat
    BY GroupsOnFinite DEF IInv
  <2>2. IsFiniteSet(G \cap gone) /\ IsFiniteSet(G \ gone)
    BY <2>1, FS_Subset
  <2>3. QED BY <1>3, <2>1, <2>2, FS_CardinalityType
<1>5. Cardinality(G \ gone) = Cardinality(G) - n
  <2>1. Cardinality(G \ gone) = Cardinality(G) - Cardinality(G \cap gone)
    BY <1>4, FS_Difference
  <2>2. QED BY <1>3, <2>1
<1>6. ws[w].busy <= Capacity[w] /\ ws[w].busy <= Cardinality(G) /\ Capacity[w] \in Nat
  BY SchedulerAssumption DEF ConstantsOK, UnitsAccounted
<1> HIDE DEF n, G
<1>7. Freed(gone)[w].busy = Monus(ws[w].busy, n)
  BY ONLY <1>1, <1>2, ZenonT(60) DEF WorkerType
<1>8. /\ Freed(gone)[w].busy \in Nat /\ Freed(gone)[w].busy <= Capacity[w]
      /\ Freed(gone)[w].busy <= Cardinality(G \ gone) /\ Cardinality(G \ gone) \in Nat
  BY ONLY <1>1, <1>4, <1>5, <1>6, <1>7, SMTT(20) DEF Monus
<1>9. QED BY <1>8 DEF G

(* Every group that is not emptied leaves one part of itself.              *)
LEMMA DetachedCount ==
  ASSUME TypeOK, GroupsConsistent, NEW S, NEW w
  PROVE  /\ IsFiniteSet({g \in Detached(S) : g.worker = w})
         /\ Cardinality({g \in Detached(S) : g.worker = w}) = Cardinality(GroupsOn(w) \ Emptied(S))
<1> DEFINE A == GroupsOn(w) \ Emptied(S)
           B == {g \in Detached(S) : g.worker = w}
           f == [h \in A |-> Shrunk(h, S)]
<1>1. ASSUME NEW h \in groups
      PROVE  Shrunk(h, S).id = h.id /\ Shrunk(h, S).worker = h.worker
  <2>1. h \in GroupType
    BY DEF TypeOK
  <2>2. QED BY <2>1 DEF Shrunk, GroupType
<1>2. f \in [A -> B]
  BY <1>1 DEF GroupsOn, Emptied, Detached
<1>3. \A x, y \in A : f[x] = f[y] => x = y
  BY <1>1, SMTT(20) DEF GroupsOn, GroupsConsistent
<1>4. \A z \in B : \E x \in A : f[x] = z
  <2> SUFFICES ASSUME NEW z \in B PROVE \E x \in A : f[x] = z
    OBVIOUS
  <2>1. PICK h \in groups : z = Shrunk(h, S) /\ Shrunk(h, S).outstanding # {}
    BY DEF Detached
  <2>2. h \in A
    BY <1>1, <2>1 DEF GroupsOn, Emptied
  <2>3. QED BY <2>1, <2>2
<1>5. IsFiniteSet(A)
  <2>1. IsFiniteSet(GroupsOn(w)) /\ A \in SUBSET GroupsOn(w)
    BY GroupsOnFinite
  <2>2. QED BY <2>1, FS_Subset
<1> HIDE DEF A, B, f
<1>6. IsFiniteSet(B) /\ Cardinality(B) = Cardinality(A)
  BY ONLY <1>2, <1>3, <1>4, <1>5, SameCardinality, ZenonT(60)
<1>7. QED BY <1>6 DEF A, B

LEMMA DetachKeepsUnits ==
  ASSUME IInv, UnitsAccounted, NEW S, groups' = Detached(S), ws' = Freed(Emptied(S))
  PROVE  UnitsAccounted'
<1> SUFFICES ASSUME NEW w \in Worker
             PROVE  ws'[w].busy <= Capacity[w] /\ ws'[w].busy <= Cardinality(GroupsOn(w)')
  BY DEF UnitsAccounted
<1>1. Emptied(S) \in SUBSET groups
  BY DEF Emptied
<1>2. GroupsOn(w)' = {g \in Detached(S) : g.worker = w}
  BY DEF GroupsOn
<1>3. Cardinality(GroupsOn(w)') = Cardinality(GroupsOn(w) \ Emptied(S))
  BY <1>2, DetachedCount DEF IInv
<1>4. QED BY <1>1, <1>3, FreedUnits

(* What the last group placed on a worker found in use is everything that  *)
(* is in use after the cycle, but for its own unit.                        *)
LEMMA LastGroupHasUnit ==
  ASSUME IInv, NEW sent, NEW lead, NEW host, Chosen(sent, lead, host), NEW w \in Worker,
         {l \in DOMAIN host : host[l] = w} # {}
  PROVE  Freed(Emptied(Swept))[w].busy + (Cardinality({l \in DOMAIN host : host[l] = w}) - 1) < Capacity[w]
<1> DEFINE L == {l \in DOMAIN host : host[l] = w}
           Earlier(l) == {k \in DOMAIN host : host[k] # None /\ Before(k, l)}
<1>1. /\ L \in SUBSET Request /\ Hosted(lead, host) /\ L # {}
  BY DEF Chosen, Candidates
<1>2. PICK m : IsLast(m, L)
  BY <1>1, SomeIsLast DEF IInv
<1>3. m \in L /\ m \in DOMAIN host /\ host[m] = w
  BY <1>2 DEF IsLast
<1>4. w # None
  BY SchedulerAssumption, SMTT(20) DEF ConstantsOK, None
<1>5. {k \in Earlier(m) : host[k] = w} = L \ {m}
  <2>1. ~Before(m, m)
    BY <1>1, <1>3, BeforeOrder DEF IInv
  <2>2. QED BY <1>2, <1>4, <2>1 DEF IsLast
<1>6. Freed(Emptied(Swept))[w].busy + Cardinality({k \in Earlier(m) : host[k] = w}) < Capacity[w]
  <2> DEFINE Used(v) == Freed(Emptied(Swept))[v].busy + Cardinality({k \in Earlier(m) : host[k] = v})
             free == {v \in Worker : ws[v].state = "ready" /\ Accepts(v, m) /\ Used(v) < Capacity[v]}
  <2>1. host[m] \in free \/ host[m] = None
    BY <1>1, <1>3 DEF Hosted
  <2>2. w \in free
    BY <1>3, <1>4, <2>1
  <2>3. QED BY <2>2
<1>7. Cardinality(L \ {m}) = Cardinality(L) - 1
  BY <1>1, <1>3, CardOfRequests, FS_RemoveElement
<1>8. QED BY <1>5, <1>6, <1>7

LEMMA CycleKeepsUnits ==
  ASSUME IInv, UnitsAccounted, RunCycle
  PROVE  UnitsAccounted'
<1>1. PICK sent, lead, host, gen :
        /\ Cycle(sent, lead, host, gen) /\ CycleEffect(sent, lead, host, gen)
        /\ DOMAIN host \subseteq Request /\ Chosen(sent, lead, host)
  BY CycleFacts
<1> SUFFICES ASSUME NEW w \in Worker
             PROVE  ws'[w].busy <= Capacity[w] /\ ws'[w].busy <= Cardinality(GroupsOn(w)')
  BY DEF UnitsAccounted
<1> DEFINE gone == Emptied(Swept)
           L == {l \in DOMAIN host : host[l] = w}
           New(l) == [id |-> gen[l], worker |-> host[l], outstanding |-> Members(lead, l)]
           A == {g \in Detached(Swept) : g.worker = w}
           B == {New(l) : l \in L}
           b == Freed(gone)[w].busy
<1>2. w # None /\ Capacity[w] \in Nat
  BY SchedulerAssumption, SMTT(20) DEF ConstantsOK, None
<1>3. /\ b \in Nat /\ b <= Capacity[w] /\ b <= Cardinality(GroupsOn(w) \ gone)
      /\ Freed(gone)[w] \in WorkerType
  <2>1. gone \in SUBSET groups
    BY DEF Emptied
  <2>2. QED BY <2>1, FreedUnits, FreedType DEF IInv
<1>4. IsFiniteSet(A) /\ Cardinality(A) = Cardinality(GroupsOn(w) \ gone) /\ Cardinality(A) \in Nat
  BY DetachedCount, FS_CardinalityType DEF IInv
<1>5. L \in SUBSET Request /\ IsFiniteSet(L) /\ Cardinality(L) \in Nat
  BY <1>1, CardOfRequests
<1>6. ASSUME NEW l \in L
      PROVE  l \in Leaders(lead, host) /\ l \in sent /\ gen[l] \in Nat /\ gen[l] >= nextGeneration
  <2>1. l \in Leaders(lead, host)
    BY <1>1, <1>2 DEF Chosen, Leaders
  <2>2. l \in sent
    BY <1>1, <2>1 DEF Cycle, Grouped
  <2>3. QED BY <1>1, <2>1, <2>2 DEF Cycle, Assigned
<1>7. IsFiniteSet(B) /\ Cardinality(B) = Cardinality(L)
  <2> DEFINE f == [l \in L |-> New(l)]
  <2>1. f \in [L -> B] /\ \A z \in B : \E x \in L : f[x] = z
    OBVIOUS
  <2>2. ASSUME NEW x \in L, NEW y \in L, f[x] = f[y]
        PROVE  x = y
    <3>1. gen[x] = gen[y]
      BY <2>2
    <3>2. \A q, r \in sent : gen[q] = gen[r] => q = r
      BY <1>1 DEF Cycle, Assigned
    <3>3. QED BY <1>6, <3>1, <3>2
  <2> HIDE DEF f, B, L
  <2>3. QED BY <1>5, <2>1, <2>2, SameCardinality
<1>8. GroupsOn(w)' = A \cup B
  <2>1. groups' = Detached(Swept) \cup {New(l) : l \in Leaders(lead, host)}
    BY <1>1 DEF Cycle, Grouped
  <2>2. \A l \in Leaders(lead, host) : New(l).worker = w <=> l \in L
    BY <1>1 DEF Leaders, Chosen
  <2>3. QED BY <1>6, <2>1, <2>2 DEF GroupsOn
<1>9. A \cap B = {}
  <2> SUFFICES ASSUME NEW g \in A, g \in B PROVE FALSE
    OBVIOUS
  <2>1. PICK l \in L : g = New(l)
    OBVIOUS
  <2>2. PICK h \in groups : g.id = h.id
    <3>1. Swept \in SUBSET Request
      BY DEF Swept, Expiring
    <3>2. TypeOK /\ GroupsConsistent /\ g \in Detached(Swept)
      BY DEF IInv
    <3>3. QED BY ONLY <3>1, <3>2, DetachedFacts, SMTT(20)
  <2>3. h.id < nextGeneration /\ h.id \in Nat /\ nextGeneration \in Nat
    BY DEF IInv, Allocated, TypeOK, GroupType
  <2>4. g.id = gen[l] /\ gen[l] \in Nat /\ gen[l] >= nextGeneration
    BY <1>6, <2>1
  <2>5. QED BY ONLY <2>2, <2>3, <2>4, SMTT(20)
<1>10. ws'[w].busy = b + Cardinality(L)
  <2>1. ws'[w] = [Freed(gone)[w] EXCEPT !.busy = @ + Cardinality(L)]
    BY <1>1 DEF CycleEffect
  <2> HIDE DEF gone, L
  <2>2. QED BY <1>3, <2>1 DEF WorkerType
<1>11. Cardinality(GroupsOn(w)') = Cardinality(A) + Cardinality(L)
  <2> HIDE DEF A, B, L
  <2>1. Cardinality(A \cup B) = Cardinality(A) + Cardinality(B) - Cardinality(A \cap B)
    BY <1>4, <1>7, FS_Union
  <2>2. Cardinality(A \cap B) = 0
    BY <1>9, FS_EmptySet
  <2>3. QED BY <1>4, <1>5, <1>7, <1>8, <2>1, <2>2, SMTT(20)
<1>12. b + Cardinality(L) <= Capacity[w]
  <2>1. CASE L = {}
    <3>1. Cardinality(L) = 0
      BY <2>1, FS_EmptySet
    <3>2. QED BY <1>2, <1>3, <3>1, SMTT(20)
  <2>2. CASE L # {}
    <3>1. b + (Cardinality(L) - 1) < Capacity[w]
      BY <1>1, <2>2, LastGroupHasUnit
    <3> HIDE DEF b, L
    <3>2. QED BY <1>2, <1>3, <1>5, <3>1, SMTT(20)
  <2>3. QED BY <2>1, <2>2
<1> HIDE DEF A, L, b, gone
<1>13. QED BY <1>3, <1>4, <1>5, <1>10, <1>11, <1>12, SMTT(20)

LEMMA UnitsStep ==
  ASSUME IInv, UnitsAccounted, [Next]_vars
  PROVE  UnitsAccounted'
<1>1. ws \in [Worker -> WorkerType]
  BY DEF IInv, TypeOK
<1>2. ASSUME groups' = groups, \A v \in Worker : ws'[v].busy = ws[v].busy \/ ws'[v].busy = 0
      PROVE  UnitsAccounted'
  BY <1>2, UnitsKept DEF GroupsOn
<1>3. ASSUME NEW q \in Request, Submit(q) \/ Cancel(q) \/ ForceRetry(q)
      PROVE  UnitsAccounted'
  <2>1. CASE groups' = groups /\ ws' = ws
    BY <1>2, <2>1
  <2>2. CASE groups' = Detached({q}) /\ ws' = Freed(Emptied({q}))
    BY <2>2, DetachKeepsUnits
  <2>3. CASE ForceRetry(q)
    <3> DEFINE gone == {g \in groups : rs[q].inFlight /\ g.id = rs[q].group}
    <3>1. groups' = groups \ gone /\ ws' = Freed(gone) /\ gone \in SUBSET groups
      BY <2>3 DEF ForceRetry
    <3> HIDE DEF gone
    <3>2. \A w \in Worker : GroupsOn(w)' = GroupsOn(w) \ gone
      BY <3>1 DEF GroupsOn
    <3>3. QED BY <3>1, <3>2, FreedUnits DEF UnitsAccounted
  <2>4. QED BY <1>3, <2>1, <2>2, <2>3 DEF Submit, Cancel
<1>4. ASSUME NEW d \in issued, ReportCompletion(d)
      PROVE  UnitsAccounted'
  <2>1. PICK outcome \in Outcome, s \in RsType : Finish(d, outcome, s)
    BY <1>4, ReportFinishes
  <2>2. QED BY <2>1, DetachKeepsUnits DEF Finish
<1>5. ASSUME NEW w \in Worker, WorkerLost(w)
      PROVE  UnitsAccounted'
  <2>1. groups' = {g \in groups : g.worker # w} /\ ws' = [ws EXCEPT ![w].busy = 0, ![w].state = "lost"]
    BY <1>5 DEF WorkerLost
  <2>2. ASSUME NEW v \in Worker
        PROVE  ws'[v].busy = 0 \/ (ws'[v].busy = ws[v].busy /\ GroupsOn(v)' = GroupsOn(v))
    <3>1. v = w => ws'[v].busy = 0
      BY <1>1, <2>1 DEF WorkerType
    <3>2. v # w => ws'[v].busy = ws[v].busy /\ GroupsOn(v)' = GroupsOn(v)
      BY <1>1, <2>1 DEF GroupsOn
    <3>3. QED BY <3>1, <3>2
  <2>3. QED BY <2>1, <2>2, UnitsKept
<1>6. ASSUME NEW w \in Worker, NEW boot \in 1 .. MaxRegistrations, RegisterWorker(w, boot)
      PROVE  UnitsAccounted'
  <2>1. groups' = groups /\ ws' = [ws EXCEPT ![w] = [state |-> "ready", boot |-> boot, busy |-> 0]]
    BY <1>6 DEF RegisterWorker
  <2>2. \A v \in Worker : ws'[v].busy = ws[v].busy \/ ws'[v].busy = 0
    BY <1>1, <2>1
  <2>3. QED BY <1>2, <2>1, <2>2
<1>7. CASE \/ \E w \in Worker : UnregisterWorker(w)
           \/ AttachExecutor \/ RollEpoch \/ Tick \/ UNCHANGED vars
           \/ \E d \in issued : CancelGeneration(d)
  <2>1. groups' = groups
    BY <1>7 DEF UnregisterWorker, AttachExecutor, RollEpoch, Tick, vars, CancelGeneration
  <2>2. \A v \in Worker : ws'[v].busy = ws[v].busy
    <3>1. ws' = ws \/ \E w \in Worker : \E l : ws' = [ws EXCEPT ![w].state = l]
      BY <1>7, SchedulerAssumption
         DEF ConstantsOK, UnregisterWorker, AttachExecutor, RollEpoch, Tick, vars, CancelGeneration
    <3>2. QED BY ONLY <1>1, <3>1, SMTT(20) DEF WorkerType
  <2>3. QED BY <1>2, <2>1, <2>2
<1>8. CASE RunCycle
  BY <1>8, CycleKeepsUnits
<1>9. QED BY <1>3, <1>4, <1>5, <1>6, <1>7, <1>8 DEF Next

(* However groups end, and for any capacities, busy_units never exceeds    *)
(* the capacity, nor the groups that are outstanding on the worker.        *)
THEOREM UnitsAlwaysAccounted == Spec => []UnitsAccounted
<1>1. Init => UnitsAccounted
  <2> SUFFICES ASSUME Init, NEW w \in Worker
               PROVE  ws[w].busy <= Capacity[w] /\ ws[w].busy <= Cardinality(GroupsOn(w))
    BY DEF UnitsAccounted
  <2>1. ws[w].busy = 0 /\ GroupsOn(w) = {}
    BY DEF Init, GroupsOn
  <2>2. Cardinality({}) = 0 /\ Capacity[w] \in Nat
    BY FS_EmptySet, SchedulerAssumption DEF ConstantsOK
  <2>3. QED BY <2>1, <2>2, SMTT(20)
<1>2. IInv /\ UnitsAccounted /\ [Next]_vars => UnitsAccounted'
  BY UnitsStep
<1>3. QED BY <1>1, <1>2, Invariance, PTL DEF Spec
-----------------------------------------------------------------------------
(* What is packed together.                                                *)

(* The limits on the group M, when f and c give the tokens and the work of *)
(* each member.                                                            *)
Limited(M, f, c) ==
  Cardinality(M) > 1 =>
    /\ \A q, r \in M : CompatKey(q) = CompatKey(r)
    /\ Cardinality(M) <= MaxRequestsPerGroup
    /\ SumFunctionOnSet(f, M) <= MaxTokensPerGroup
    /\ SumFunctionOnSet(c, M) <= MaxComputePerGroup

LEMMA LimitsAre ==
  /\ GroupsWithinLimits <=> \A g \in groups :
       Limited(g.outstanding, [q \in Request |-> NextTokens(q)], [q \in Request |-> NextCompute(q)])
  /\ GroupsWithinLimits' <=> \A g \in groups' :
       Limited(g.outstanding, [q \in Request |-> NextTokens(q)'], [q \in Request |-> NextCompute(q)'])
BY DEF GroupsWithinLimits, Limited, TokensIn, ComputeIn, CompatKey

(* A part of a group is within the limits that the group is within.        *)
LEMMA LimitedPart ==
  ASSUME NEW M, IsFiniteSet(M), NEW f, NEW c, NEW f2, NEW c2, Limited(M, f, c),
         \A q \in M : f[q] \in Nat /\ c[q] \in Nat,
         NEW N \in SUBSET M, \A q \in N : f2[q] = f[q] /\ c2[q] = c[q]
  PROVE  Limited(N, f2, c2)
<1>1. /\ IsFiniteSet(N) /\ Cardinality(N) \in Nat /\ Cardinality(M) \in Nat
      /\ Cardinality(N) <= Cardinality(M)
  BY FS_Subset, FS_CardinalityType
<1>2. ASSUME NEW g, NEW h, \A q \in M : g[q] \in Nat, \A q \in N : h[q] = g[q]
      PROVE  /\ SumFunctionOnSet(h, N) <= SumFunctionOnSet(g, M)
             /\ SumFunctionOnSet(h, N) \in Int /\ SumFunctionOnSet(g, M) \in Int
  <2>1. \A q \in N : g[q] \in Int /\ h[q] = g[q]
    BY <1>2, SMTT(20)
  <2>2. SumFunctionOnSet(h, N) = SumFunctionOnSet(g, N)
    BY ONLY <1>1, <2>1, SumSame, ZenonT(60)
  <2>3. SumFunctionOnSet(g, N) <= SumFunctionOnSet(g, M)
    BY ONLY <1>2, IsFiniteSet(M), N \in SUBSET M, SumSubset, ZenonT(60)
  <2>4. \A q \in N : g[q] \in Nat
    BY <1>2
  <2>5. SumFunctionOnSet(g, N) \in Nat /\ SumFunctionOnSet(g, M) \in Nat
    BY ONLY <1>1, <1>2, <2>4, IsFiniteSet(M), SumNat, ZenonT(60)
  <2>6. QED BY <2>2, <2>3, <2>5, SMTT(20)
<1>3. /\ SumFunctionOnSet(f2, N) <= SumFunctionOnSet(f, M)
      /\ SumFunctionOnSet(f2, N) \in Int /\ SumFunctionOnSet(f, M) \in Int
  BY <1>2
<1>4. /\ SumFunctionOnSet(c2, N) <= SumFunctionOnSet(c, M)
      /\ SumFunctionOnSet(c2, N) \in Int /\ SumFunctionOnSet(c, M) \in Int
  BY <1>2
<1>5. MaxRequestsPerGroup \in Nat /\ MaxTokensPerGroup \in Nat /\ MaxComputePerGroup \in Nat
  BY SchedulerAssumption DEF ConstantsOK
<1>6. QED BY <1>1, <1>3, <1>4, <1>5, SMTT(20) DEF Limited

(* The members of a group work on chunks of their plans.                   *)
LEMMA ChunksOfGroup ==
  ASSUME IInv, NEW h \in groups
  PROVE  /\ h.outstanding \in SUBSET Request /\ IsFiniteSet(h.outstanding)
         /\ \A q \in h.outstanding : NextTokens(q) \in Nat /\ NextCompute(q) \in Nat
<1>1. h.outstanding \in SUBSET Request
  BY DEF IInv, TypeOK, GroupType
<1>2. ASSUME NEW q \in h.outstanding
      PROVE  NextTokens(q) \in Nat /\ NextCompute(q) \in Nat
  <2>1. q \in Request /\ rs[q].lifecycle = "dispatched"
    BY <1>1 DEF IInv, GroupsConsistent
  <2>2. Pending(q, rs[q].chunk) /\ rs[q].chunk \in Nat
    BY <2>1 DEF IInv, PlanInv, Live, TypeOK, RsType
  <2>3. QED BY <2>1, <2>2, ChunkTypes DEF NextTokens, NextCompute
<1>3. QED BY <1>1, <1>2, CardOfRequests

LEMMA PartWithinLimits ==
  ASSUME IInv, GroupsWithinLimits, NEW g, PartOfGroup(g),
         \A r \in g.outstanding : rs'[r].chunk = rs[r].chunk
  PROVE  Limited(g.outstanding, [q \in Request |-> NextTokens(q)'], [q \in Request |-> NextCompute(q)'])
<1> DEFINE f == [q \in Request |-> NextTokens(q)]
           c == [q \in Request |-> NextCompute(q)]
           f2 == [q \in Request |-> NextTokens(q)']
           c2 == [q \in Request |-> NextCompute(q)']
<1>1. PICK h \in groups : g.outstanding \subseteq h.outstanding
  BY DEF PartOfGroup
<1> DEFINE M == h.outstanding
           N == g.outstanding
<1>2. /\ M \in SUBSET Request /\ IsFiniteSet(M) /\ N \in SUBSET M
      /\ \A q \in M : NextTokens(q) \in Nat /\ NextCompute(q) \in Nat
  BY <1>1, ChunksOfGroup
<1>3. \A q \in M : f[q] \in Nat /\ c[q] \in Nat
  BY <1>2
<1>4. \A q \in N : f2[q] = f[q] /\ c2[q] = c[q]
  BY <1>2 DEF NextTokens, NextCompute, Tokens, Compute
<1>5. Limited(M, f, c)
  BY LimitsAre
<1> HIDE DEF f, c, f2, c2, M, N
<1>6. Limited(N, f2, c2)
  BY <1>2, <1>3, <1>4, <1>5, LimitedPart, SMTT(20)
<1>7. QED BY <1>6 DEF N, f2, c2

(* The last to join a group was compatible with all the others.            *)
LEMMA NewGroupWithinLimits ==
  ASSUME IInv, NEW lead \in [Candidates -> Candidates], FirstFit(lead), NEW l \in Candidates,
         Cardinality(Members(lead, l)) > 1
  PROVE  LET M == Members(lead, l) IN
         /\ \A q, r \in M : CompatKey(q) = CompatKey(r)
         /\ Cardinality(M) <= MaxRequestsPerGroup
         /\ TokensIn(M) <= MaxTokensPerGroup /\ ComputeIn(M) <= MaxComputePerGroup
<1> DEFINE M == Members(lead, l)
<1>1. /\ M \in SUBSET Candidates /\ Candidates \subseteq Request /\ M \in SUBSET Request
      /\ \A r \in Candidates : r \in M <=> lead[r] = l
  BY DEF Members, Candidates
<1>2. IsFiniteSet(M) /\ Cardinality(M) \in Nat /\ M # {}
  BY <1>1, CardOfRequests, FS_EmptySet, SMTT(20)
<1>3. PICK m : IsLast(m, M)
  BY <1>1, <1>2, SomeIsLast DEF IInv
<1>4. m \in M /\ m \in Candidates /\ lead[m] = l /\ \A q \in M \ {m} : Before(q, m) /\ ~Before(m, q)
  BY <1>1, <1>3 DEF IsLast
<1>5. m # l
  <2> SUFFICES ASSUME m = l PROVE FALSE
    OBVIOUS
  <2>1. PICK q \in M : q # m
    <3>1. M # {m}
      BY FS_Singleton, SMTT(20)
    <3>2. QED BY <1>4, <3>1
  <2>2. lead[q] = l /\ q \in Candidates /\ lead[q] # q
    BY <1>1, <2>1
  <2>3. Before(l, q)
    BY <2>2, JoinedFits
  <2>4. QED BY <1>4, <2>1, <2>3
<1>6. {q \in Candidates : lead[q] = l /\ Before(q, m)} = M \ {m}
  <2>1. ~Before(m, m)
    BY <1>1, <1>4, BeforeOrder DEF IInv
  <2>2. QED BY <1>1, <1>4, <2>1
<1>7. Compatible(m, M \ {m})
  <2>1. Compatible(m, {q \in Candidates : lead[q] = l /\ Before(q, m)})
    BY <1>4, <1>5, JoinedFits
  <2>2. QED BY <1>6, <2>1
<1> HIDE DEF M
<1>8. (M \ {m}) \cup {m} = M /\ Cardinality(M \ {m}) = Cardinality(M) - 1
  <2>1. m \in M
    BY <1>4
  <2>2. Cardinality(M \ {m}) = Cardinality(M) - 1
    BY ONLY <1>2, <2>1, FS_RemoveElement, ZenonT(60)
  <2>3. QED BY ONLY <2>1, <2>2, ZenonT(60)
<1>9. /\ \A q \in M \ {m} : CompatKey(q) = CompatKey(m)
      /\ Cardinality(M \ {m}) < MaxRequestsPerGroup
      /\ TokensIn(M) <= MaxTokensPerGroup /\ ComputeIn(M) <= MaxComputePerGroup
  BY ONLY <1>7, <1>8, ZenonT(60) DEF Compatible
<1>10. Cardinality(M) <= MaxRequestsPerGroup
  BY <1>2, <1>8, <1>9, SchedulerAssumption, SMTT(20) DEF ConstantsOK
<1>11. \A q, r \in M : CompatKey(q) = CompatKey(r)
  BY <1>9, SMTT(20)
<1>12. QED BY <1>9, <1>10, <1>11 DEF M

LEMMA LimitsStep ==
  ASSUME IInv, IInv', GroupsWithinLimits, [Next]_vars
  PROVE  GroupsWithinLimits'
<1> DEFINE f2 == [q \in Request |-> NextTokens(q)']
           c2 == [q \in Request |-> NextCompute(q)']
<1> SUFFICES ASSUME NEW g \in groups' PROVE Limited(g.outstanding, f2, c2)
  BY LimitsAre
<1>1. \A r \in g.outstanding : r \in Request /\ Flies(rs'[r])
  BY DEF IInv, TypeOK, GroupType, GroupsConsistent, Flies
<1>2. CASE ~RunCycle
  <2>1. KeepsFlights /\ PartOfGroup(g)
    BY <1>2, FlightsStep, GroupsShrink DEF GroupsOnlyShrink
  <2>2. \A r \in g.outstanding : rs'[r].chunk = rs[r].chunk
    BY <1>1, <2>1 DEF KeepsFlights, SameFlight
  <2>3. QED BY <2>1, <2>2, PartWithinLimits
<1>3. CASE RunCycle
  <2>1. PICK sent, lead, host, gen : Cycle(sent, lead, host, gen) /\ Chosen(sent, lead, host)
    BY <1>3, CycleFacts
  <2>2. ASSUME NEW r \in sent
        PROVE  rs'[r].chunk = rs[r].chunk /\ rs[r].lifecycle = "queued" /\ r \in Request
    <3>1. rs'[r] = Dispatch(r, gen[r], gen[lead[r]], host[lead[r]])
      BY <2>1 DEF Cycle, Treated
    <3>2. r \in Request /\ rs[r].lifecycle = "queued"
      BY <2>1 DEF Cycle, Assigned, Candidates
    <3>3. rs[r] \in RsType
      BY <3>2 DEF IInv, TypeOK
    <3>4. rs'[r].chunk = rs[r].chunk
      BY ONLY <3>1, <3>3, ZenonT(60) DEF Dispatch, RsType
    <3>5. QED BY <3>2, <3>4
  <2>3. CASE g \in Detached(Swept)
    <3>1. Swept \in SUBSET Request
      BY DEF Swept, Expiring
    <3>2. PartOfGroup(g)
      BY <2>3, <3>1, DetachedParts
    <3>3. ASSUME NEW r \in g.outstanding
          PROVE  rs'[r].chunk = rs[r].chunk
      <4>1. r \in Request /\ rs[r] \in RsType
        BY <1>1 DEF IInv, TypeOK
      <4>2. r \notin Expiring
        <5> SUFFICES ASSUME r \in Expiring PROVE FALSE
          OBVIOUS
        <5>1. rs'[r] = Expire(rs[r])
          BY <2>1 DEF Cycle, Treated
        <5>2. rs'[r].lifecycle = "expired"
          BY <4>1, <5>1, ExpireFacts
        <5>3. QED BY <1>1, <5>2 DEF Flies
      <4>3. CASE r \in sent
        BY <2>2, <4>3
      <4>4. CASE r \notin sent
        <5>1. rs'[r] = Age(rs[r])
          BY <2>1, <4>1, <4>2, <4>4 DEF Cycle, Treated
        <5>2. QED BY <4>1, <5>1, AgeFacts
      <4>5. QED BY <4>3, <4>4
    <3>4. QED BY <3>2, <3>3, PartWithinLimits
  <2>4. CASE g \notin Detached(Swept)
    <3>1. PICK l \in Leaders(lead, host) :
            g = [id |-> gen[l], worker |-> host[l], outstanding |-> Members(lead, l)]
      BY <2>1, <2>4 DEF Cycle, Grouped
    <3> DEFINE M == Members(lead, l)
               f == [q \in Request |-> NextTokens(q)]
               c == [q \in Request |-> NextCompute(q)]
    <3>2. g.outstanding = M /\ M \in SUBSET sent /\ l \in Candidates
      BY <2>1, <3>1 DEF Cycle, Grouped, Leaders
    <3>3. \A q \in M : f[q] = NextTokens(q) /\ f2[q] = f[q] /\ c[q] = NextCompute(q) /\ c2[q] = c[q]
      BY <2>2, <3>2 DEF NextTokens, NextCompute, Tokens, Compute
    <3>4. Limited(M, f, c)
      BY <2>1, <3>2, NewGroupWithinLimits DEF Limited, TokensIn, ComputeIn, Chosen
    <3>5. \A q \in M : NextTokens(q) \in Nat /\ NextCompute(q) \in Nat
      <4> SUFFICES ASSUME NEW q \in M PROVE NextTokens(q) \in Nat /\ NextCompute(q) \in Nat
        OBVIOUS
      <4>1. q \in Request /\ rs[q].lifecycle = "queued"
        BY <2>2, <3>2
      <4>2. Pending(q, rs[q].chunk) /\ rs[q].chunk \in Nat
        BY <4>1 DEF IInv, PlanInv, Live, TypeOK, RsType
      <4>3. QED BY <4>1, <4>2, ChunkTypes DEF NextTokens, NextCompute
    <3>6. IsFiniteSet(M) /\ \A q \in M : f[q] \in Nat /\ c[q] \in Nat
      <4>1. M \in SUBSET Request
        BY <2>2, <3>2
      <4>2. QED BY <3>3, <3>5, <4>1, CardOfRequests
    <3>7. M \in SUBSET M
      OBVIOUS
    <3> HIDE DEF M, f, c, f2, c2
    <3>8. Limited(M, f2, c2)
      BY <3>3, <3>4, <3>6, <3>7, LimitedPart, SMTT(20)
    <3>9. QED BY <3>2, <3>8
  <2>5. QED BY <2>3, <2>4
<1>4. QED BY <1>2, <1>3

(* For any limits and any mixture of requests, what first fit packs        *)
(* together is of one kind and within the limits, and stays so while the   *)
(* group loses members.                                                    *)
THEOREM PackingWithinLimits == Spec => []GroupsWithinLimits
<1>1. Init => GroupsWithinLimits
  BY DEF Init, GroupsWithinLimits
<1>2. IInv /\ IInv' /\ GroupsWithinLimits /\ [Next]_vars => GroupsWithinLimits'
  BY LimitsStep
<1>3. QED BY <1>1, <1>2, Invariance, PTL DEF Spec
=============================================================================
