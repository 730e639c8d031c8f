-------------------------- MODULE CoordinatorProofs --------------------------
(***************************************************************************)
(* What holds of the distributed system, for any number of connections,    *)
(* workers, clients and requests: it makes of the scheduler only calls     *)
(* that Scheduler's Next allows, so what is proved of the scheduler holds  *)
(* of it, and its sockets and threads agree with the scheduler's workers.  *)
(***************************************************************************)
EXTENDS ConnectionProofs, SchedulerLifeProofs

(* Zenon takes the steps; one that needs arithmetic names SMT.             *)
USE ZenonT(60)

-----------------------------------------------------------------------------
(* The coordinator calls the scheduler as Next allows.                     *)

LEMMA FiniteGroups == TypeOK /\ GroupsConsistent => IsFiniteSet(groups)
BY GroupsFinite

(* A result is taken from the worker and the boot that the scheduler       *)
(* dispatched it to, in the epoch that still runs.                         *)
LEMMA TakenReports ==
  ASSUME IInv, History, NEW c \in Conn, NEW d \in Taken(c)
  PROVE  d \in issued /\ \E m \in Reports(d) : Authoritative(d, m)
<1> DEFINE m == Authority(c)
           w == WorkerOf[c]
<1>1. d \in issued /\ Authoritative(d, m)
  BY DEF Taken
<1>2. w \in Worker /\ w # 0
  BY CoordinatorAssumption
<1>3. m.epoch = conn[c].reading.epoch /\ m.source = <<w, conn[c].boot>> /\ m.source[1] = w
      /\ m.source[2] = conn[c].boot
  BY DEF Authority
<1>4. /\ d.req \in Request /\ d.worker \in Worker /\ d.epoch \in Nat /\ d.boot \in Nat /\ epoch \in Nat
      /\ ws[w].boot \in Nat
  BY <1>1, <1>2 DEF IInv, TypeOK, DispatchType, WorkerType
<1>5. m.source # Anonymous
  BY <1>2, <1>3, SMTT(20) DEF Anonymous
<1>6. /\ m.epoch = epoch /\ ws[w].boot = conn[c].boot /\ w = rs[d.req].worker
      /\ d.gen = rs[d.req].gen /\ rs[d.req].inFlight /\ Live(d.req)
  BY <1>1, <1>2, <1>3, <1>5 DEF Authoritative
<1>7. Flies(rs[d.req])
  BY <1>4, <1>6 DEF Flies, Live, IInv, PlanInv
<1>8. d.worker = w /\ d.epoch <= epoch /\ d.boot <= ws[w].boot
  BY <1>1, <1>6, <1>7 DEF History
<1>9. m = [epoch |-> epoch, source |-> <<d.worker, ws[d.worker].boot>>]
  BY <1>3, <1>6, <1>8 DEF Authority
<1>10. epoch \in d.epoch .. epoch /\ ws[d.worker].boot \in d.boot .. ws[d.worker].boot
  BY <1>4, <1>8, SMTT(20)
<1>11. m \in Reports(d)
  BY <1>9, <1>10, SMTT(20) DEF Reports
<1>12. QED BY <1>1, <1>11

LEMMA MayReport ==
  ASSUME IInv, History
  PROVE  ReportsTaken
BY TakenReports DEF ReportsTaken

LEMMA NetStep ==
  ASSUME IInv, History, Held, [NetNext]_allVars
  PROVE  [Next]_vars
<1>1. NetCall
  BY NetCalls, MayReport
<1>2. ASSUME NEW c \in Conn, Register(c)
      PROVE  Next
  <2> DEFINE w == WorkerOf[c]
             boot == ws[w].boot + 1
  <2>1. w \in Worker /\ w # 0
    BY CoordinatorAssumption
  <2>2. RegisterWorker(w, boot) /\ registrations < MaxRegistrations
    BY <1>2 DEF Register, RegisterWorker
  <2>3. ws[w].boot <= registrations /\ ws[w].boot \in Nat /\ registrations \in Nat
    BY <2>1 DEF History, IInv, TypeOK, WorkerType
  <2>4. boot \in 1 .. MaxRegistrations
    BY <2>2, <2>3, SchedulerAssumption, SMTT(20) DEF ConstantsOK
  <2>5. QED BY <2>1, <2>2, <2>4 DEF Next
<1>3. 0 \in Worker
  BY SchedulerAssumption DEF ConstantsOK
<1>4. QED BY <1>1, <1>2, <1>3 DEF NetCall, Next, ScheduleCycle

LEMMA HeldStep ==
  ASSUME IInv, IInv', Held, [NetNext]_allVars
  PROVE  Held'
<1>1. Formed \subseteq groups' /\ groups' \subseteq GroupType
  BY DEF Formed, IInv, TypeOK
<1>2. IsFiniteSet(groups')
  <2>1. (TypeOK /\ GroupsConsistent => IsFiniteSet(groups))'
    BY FiniteGroups, PTL
  <2>2. QED BY <2>1 DEF IInv
<1>3. Cardinality(Formed) \in Nat
  BY <1>1, <1>2, FS_Subset, FS_CardinalityType
<1>4. ASSUME NEW g \in Formed
      PROVE  Unsent(g) \in UnsentType
  <2>1. g.worker \in Worker /\ g.id \in Nat /\ g.outstanding \in SUBSET Request
    BY <1>1 DEF GroupType
  <2>2. Cardinality(g.outstanding) \in Nat
    BY <2>1, CardOfRequests
  <2>3. [i \in 1 .. Cardinality(g.outstanding) |-> g.id + i - 1] \in Seq(Nat)
    BY <2>1, <2>2, SMTT(20)
  <2>4. QED BY <2>1, <2>3 DEF Unsent, UnsentType
<1>5. QED BY <1>3, <1>4, HeldKept, HeldCycle

(* What the distributed system keeps of the scheduler.                     *)
CallInv == IInv /\ History /\ Held

(* With all threads, connections and processes running, the scheduler's    *)
(* invariant holds, no dispatch has a stamp of the future, and the         *)
(* schedule loop is in the middle of sending only if it has a group left.  *)
THEOREM CallsInvariant == NetSpec => []CallInv
<1>1. NetInit => CallInv
  <2> SUFFICES ASSUME NetInit PROVE CallInv
    OBVIOUS
  <2>1. IInv /\ History
    BY InitIInv, HistoryInit DEF NetInit
  <2>2. Held
    BY SMTT(20) DEF NetInit, Held, Idle
  <2>3. QED BY <2>1, <2>2 DEF CallInv
<1>2. CallInv /\ [NetNext]_allVars => CallInv'
  <2> SUFFICES ASSUME IInv, History, Held, [NetNext]_allVars
               PROVE  IInv' /\ History' /\ Held'
    BY DEF CallInv
  <2>1. [Next]_vars
    BY NetStep
  <2>2. IInv'
    BY <2>1, NextStep
  <2>3. QED BY <2>1, <2>2, HistoryStep, HeldStep
<1>3. QED BY <1>1, <1>2, PTL DEF NetSpec

(* The coordinator, its connections and the worker processes call the      *)
(* scheduler only as its own specification allows: a registration has the  *)
(* next boot id, a result that is taken is a report some driver may send,  *)
(* and a group that fails to be sent loses a worker that exists.           *)
THEOREM NetImplementsScheduler == NetSpec => Spec
<1>1. NetInit => Init
  BY DEF NetInit
<1>2. CallInv /\ [NetNext]_allVars => [Next]_vars
  BY NetStep DEF CallInv
<1>3. QED BY <1>1, <1>2, CallsInvariant, PTL DEF NetSpec, Spec

(* So, with workers that crash, reconnect, garble streams and answer late, *)
(* a chunk is still applied at most once in an attempt.                    *)
THEOREM NetAppliesOnce == NetSpec => []ChunkAppliedOnce
BY NetImplementsScheduler, ChunksAppliedOnce, PTL

(* Nor do the lost workers and dropped results of the coordinator leave a  *)
(* reservation behind: memory is held exactly by what is in flight.        *)
THEOREM NetHoldsMemoryWhileExecuting == NetSpec => []ReservedIffInFlight
BY NetImplementsScheduler, MemoryHeldWhileExecuting, PTL

(* A request completes only when every chunk of its plan was executed by a *)
(* worker process and answered with success, in one attempt: results that  *)
(* are late, repeated or lost with their connection complete nothing.      *)
THEOREM NetCompletedWereExecuted == NetSpec => []CompletedMeansExecuted
BY NetImplementsScheduler, CompletedWereExecuted, PTL

(* And the life of every request is one that RequestLife allows.           *)
THEOREM NetImplementsLife == NetSpec => ImplementsRequestLife
BY NetImplementsScheduler, SchedulerImplementsLife, PTL

-----------------------------------------------------------------------------
(* Sockets, threads and the workers the scheduler believes ready.          *)

LEMMA ReadyStep ==
  ASSUME IInv,
         \/ UNCHANGED ws \/ RunCycle \/ \E r \in Request : Submit(r) \/ Cancel(r)
         \/ \E d \in issued : ReportCompletion(d)
         \/ \E w \in Worker : WorkerLost(w) \/ UnregisterWorker(w)
  PROVE  ReadyKept
<1>1. ws \in [Worker -> WorkerType] /\ TypeOK
  BY DEF IInv, TypeOK
<1>2. ws' = ws \/ (\E gone : ws' = Freed(gone)) \/ KeepsWorkers => ReadyKept
  BY <1>1, FreedKeeps DEF KeepsWorkers, ReadyKept
<1>3. CASE RunCycle
  BY <1>2, <1>3, CycleKeepsWorkers
<1>4. CASE \E r \in Request : Submit(r) \/ Cancel(r)
  <2>1. ws' = ws \/ \E gone : ws' = Freed(gone)
    BY <1>4 DEF Submit, Cancel
  <2>2. QED BY <1>2, <2>1
<1>5. CASE \E d \in issued : ReportCompletion(d)
  <2>1. PICK d \in issued : ReportCompletion(d)
    BY <1>5
  <2>2. ws' = Freed(Emptied({d.req}))
    BY <2>1, ReportFinishes DEF Finish
  <2>3. QED BY <1>2, <2>2
<1>6. ASSUME NEW w \in Worker, WorkerLost(w) \/ UnregisterWorker(w)
      PROVE  ReadyKept
  <2>1. \/ ws' = [ws EXCEPT ![w].busy = 0, ![w].state = "lost"]
        \/ ws' = [ws EXCEPT ![w].state = "retired"]
    BY <1>6 DEF WorkerLost, UnregisterWorker
  <2>2. QED BY <1>1, <2>1 DEF ReadyKept, WorkerType
<1>7. QED BY <1>2, <1>3, <1>4, <1>5, <1>6

LEMMA QuietStep ==
  ASSUME CallInv, [NetNext]_allVars, \A c \in Conn : ~Register(c)
  PROVE  ReadyKept
<1>1. NetCall /\ 0 \in Worker
  BY NetCalls, MayReport, SchedulerAssumption DEF CallInv, ConstantsOK
<1>2. \/ UNCHANGED ws \/ RunCycle \/ \E r \in Request : Submit(r) \/ Cancel(r)
      \/ \E d \in issued : ReportCompletion(d)
      \/ \E w \in Worker : WorkerLost(w) \/ UnregisterWorker(w)
  BY <1>1 DEF NetCall, ScheduleCycle, vars, RollEpoch, Tick
<1>3. QED BY <1>2, ReadyStep DEF CallInv

LEMMA WatchInvariant == NetSpec => []WatchInv
<1>1. CallInv /\ WatchInv /\ [NetNext]_allVars => WatchInv'
  BY QuietStep, WatchStep DEF CallInv, IInv, TypeOK
<1>2. QED BY <1>1, WatchInit, CallsInvariant, PTL DEF NetSpec

(* Whatever the order in which the connections of one worker id begin and  *)
(* end, worker_socks_ never holds a socket whose thread has ended.         *)
THEOREM SocketsServed == NetSpec => []SocketsAreServed
BY WatchInvariant, PTL DEF WatchInv

(* A worker that the scheduler believes ready always has the thread of its *)
(* last registration to notice its end, for any number of processes that   *)
(* register with its id, overlap, and end in any order.                    *)
THEOREM ReadyWatched == NetSpec => []ReadyWorkersAreWatched
BY WatchInvariant, PTL DEF WatchInv

-----------------------------------------------------------------------------
(* What the connections and the schedule loop hold.                        *)

NetInv == CallInv /\ WatchInv /\ Sound

LEMMA BootsGrow ==
  ASSUME CallInv, [NetNext]_allVars
  PROVE  \A w \in Worker : ws'[w].boot \in Nat /\ ws[w].boot <= ws'[w].boot
<1>1. \A w \in Worker : ws[w].boot \in Nat
  BY DEF CallInv, IInv, TypeOK, WorkerType
<1>2. CASE RunCycle
  <2>1. KeepsWorkers
    BY <1>2, CycleKeepsWorkers DEF CallInv
  <2>2. QED BY <1>1, <2>1, SMTT(20) DEF KeepsWorkers
<1>3. CASE ~RunCycle
  <2>1. [Next]_vars
    BY NetStep DEF CallInv
  <2>2. LaterTimes
    BY <1>3, <2>1, StampsStep DEF CallInv
  <2>3. ws' \in [Worker -> WorkerType]
    BY <2>1, NextStep DEF CallInv, IInv, TypeOK
  <2>4. QED BY <2>2, <2>3 DEF LaterTimes, WorkerType
<1>4. QED BY <1>2, <1>3

LEMMA FormedMembers ==
  ASSUME CallInv', NEW g \in groups'
  PROVE  Unsent(g).members # <<>> /\ Cardinality(g.outstanding) \in Nat
<1>1. g.outstanding # {} /\ g.outstanding \in SUBSET Request
  BY DEF CallInv, IInv, GroupsConsistent, TypeOK, GroupType
<1>2. IsFiniteSet(g.outstanding) /\ Cardinality(g.outstanding) \in Nat
  BY <1>1, CardOfRequests, SchedulerAssumption, FS_Subset DEF ConstantsOK
<1>3. Cardinality(g.outstanding) # 0
  BY <1>1, <1>2, FS_EmptySet
<1>4. QED BY <1>2, <1>3, SMTT(20) DEF Unsent

LEMMA SoundStep ==
  ASSUME NetInv, CallInv', [NetNext]_allVars
  PROVE  Sound'
<1>1. Carrying
  BY DEF NetInv, CallInv, WatchInv, Carrying
<1>2. \A g \in Formed : Unsent(g).members # <<>>
  BY FormedMembers DEF Formed
<1>3. \A c \in Conn : Stocked(conn'[c])
  BY <1>1, ConnectionsStocked
<1>4. SendingOK' /\ \A w \in Worker : socks'[w] # None => conn'[socks'[w]].thread # "none"
  BY <1>1, <1>2, SocketsStarted, SendingStep
<1>5. \A c \in Conn : conn'[c].boot \in Nat /\ conn'[c].boot <= ws'[WorkerOf[c]].boot
  BY BootsGrow, BootsStep DEF NetInv, CallInv, WatchInv, IInv, TypeOK
<1>6. QED BY <1>3, <1>4, <1>5 DEF Sound

LEMMA SoundInvariant == NetSpec => []NetInv
<1>1. NetInv /\ CallInv' /\ [NetNext]_allVars => Sound'
  BY SoundStep
<1>2. QED BY <1>1, SoundInit, CallsInvariant, WatchInvariant, PTL DEF NetSpec, NetInv

(* Every connection's thread and process are in a state the code has, with *)
(* a boot id that was registered; a completion on its way holds a result;  *)
(* worker_socks_ names connections; and dispatch_group is running only for *)
(* a group that is still to be sent, to a socket it found: for any number  *)
(* of connections, whatever their order.                                   *)
THEOREM NetTypes == NetSpec => []NetTypeOK
<1>1. NetInv => NetTypeOK
  BY TypesOfNet DEF NetInv, CallInv
<1>2. QED BY <1>1, SoundInvariant, PTL
-----------------------------------------------------------------------------
(* Every dispatch is accounted for.                                        *)

(* What a flying request's dispatch is known by, and what is to come.      *)
Located ==
  /\ FliersGrouped
  /\ \A r \in Request : Flies(rs[r]) => OnlyWith(rs[r].gen, rs[r].worker) /\ Accounted(rs[r].gen, rs[r].worker)
  /\ \A g \in Nat : g >= nextGeneration => Nowhere(g)

(* Every step but a cycle.                                                 *)
LEMMA CallsLocate ==
  ASSUME NetInv, Located, [NetNext]_allVars, ~ScheduleCycle
  PROVE  Located'
<1>1. IInv /\ FliersGrouped /\ CoordinatorCall
  <2>1. NetCall
    BY NetCalls, MayReport DEF NetInv, CallInv
  <2>2. CoordinatorCall
    BY <2>1 DEF NetCall, CoordinatorCall, vars, Register, RegisterWorker, UnregisterWorker, RollEpoch, Tick
  <2>3. QED BY <2>2 DEF NetInv, CallInv, Located
<1>2. FliersGrouped' /\ KeepsFlights /\ nextGeneration' = nextGeneration
  BY <1>1, GroupedStep
<1>3. Carrying
  BY DEF NetInv, CallInv, WatchInv, Carrying
<1>4. \A g \in Nat : g >= nextGeneration => Nowhere(g)'
  BY <1>3, NowhereStep DEF Located
<1>5. ASSUME NEW r \in Request, Flies(rs'[r]), NEW g, NEW w, g = rs'[r].gen, w = rs'[r].worker
      PROVE  OnlyWith(g, w)' /\ Accounted(g, w)'
  <2>1. Flies(rs[r]) /\ rs[r].gen = g /\ rs[r].worker = w
    BY <1>2, <1>5 DEF KeepsFlights, SameFlight
  <2>2. OnlyWith(g, w) /\ Accounted(g, w)
    BY <2>1 DEF Located
  <2>3. ASSUME NEW c \in Conn, ReportResult(c)
        PROVE  g # Current(c).gen
    <3>1. PICK d \in Taken(c) : ReportSuccess(d) \/ ReportRetryable(d) \/ ReportNonRetryable(d)
      BY <2>3 DEF ReportResult
    <3>2. d \in issued /\ ReportCompletion(d) /\ d.gen = Current(c).gen
      BY <3>1, TakenReports DEF ReportCompletion, Report, CallInv, NetInv, Taken
    <3>3. ~Flies(rs'[d.req])
      BY <1>1, <3>2, ReportGround
    <3>4. PICK e \in issued : e.gen = g /\ e.req = r
      BY <1>1, <2>1 DEF IInv, InFlightIssued, Flies
    <3>5. QED BY <1>1, <1>5, <3>2, <3>3, <3>4 DEF IInv, GenerationsDiffer
  <2>4. ASSUME NEW c \in Conn, ConnectionEnds(c)
        PROVE  w # WorkerOf[c]
    <3>1. WorkerOf[c] \in Worker /\ WorkerLost(WorkerOf[c])
      BY <2>4, CoordinatorAssumption DEF ConnectionEnds
    <3>2. QED BY <1>1, <1>5, <2>1, <3>1, LostGround
  <2>5. ASSUME DispatchFails
        PROVE  w # Head(batch).worker
    <3>1. WorkerLost(Head(batch).worker) /\ batch # <<>>
      BY <2>5 DEF DispatchFails, Held, CallInv, NetInv
    <3>2. Head(batch).worker \in Worker
      BY <3>1, HeadTail DEF Held, UnsentType, CallInv, NetInv
    <3>3. QED BY <1>1, <1>5, <2>1, <3>1, <3>2, LostGround
  <2>6. QED BY <1>3, <2>2, <2>3, <2>4, <2>5, AccountedStep
<1>6. \A r \in Request : Flies(rs'[r]) => /\ OnlyWith(rs[r].gen, rs[r].worker)'
                                           /\ Accounted(rs[r].gen, rs[r].worker)'
  BY <1>5
<1>7. QED BY <1>2, <1>4, <1>6 DEF Located

(* Names in the order of their numbers name everything.                    *)
LEMMA OrderCovers ==
  ASSUME NEW F, IsFiniteSet(F), \A g \in F : g.id \in Nat, NEW order \in [1 .. Cardinality(F) -> F],
         \A i, j \in DOMAIN order : i < j => order[i].id < order[j].id
  PROVE  \A g \in F : \E i \in DOMAIN order : order[i] = g
<1> DEFINE n == Cardinality(F)
           I == 1 .. n
<1>1. n \in Nat
  BY FS_CardinalityType
<1>2. IsFiniteSet(I) /\ Cardinality(I) = n
  <2> HIDE DEF n
  <2>1. 1 + n - 1 = n
    BY <1>1, SMTT(20)
  <2>2. QED BY <1>1, <2>1, IntervalSize, SMTT(20)
<1>3. order \in Injection(I, F)
  <2>1. ASSUME NEW i \in I, NEW j \in I, order[i] = order[j]
        PROVE  i = j
    <3>1. i \in Int /\ j \in Int /\ i \in DOMAIN order /\ j \in DOMAIN order
      BY <1>1, SMTT(20)
    <3>2. order[i].id \in Nat /\ order[j].id \in Nat
      OBVIOUS
    <3>3. QED BY <2>1, <3>1, <3>2, SMTT(20)
  <2>2. QED BY <2>1 DEF Injection, IsInjective
<1>4. order \in Surjection(I, F)
  <2> HIDE DEF n, I
  <2>1. QED BY <1>2, <1>3, FS_Injection DEF n
<1>5. QED BY <1>4 DEF Surjection

(* What run_cycle returns: the groups it made, and no older one.           *)
LEMMA CycleForms ==
  ASSUME IInv, NEW sent, NEW lead, NEW host, NEW gen, Cycle(sent, lead, host, gen)
  PROVE  Formed = {[id |-> gen[l], worker |-> host[l], outstanding |-> Members(lead, l)] :
                     l \in Leaders(lead, host)}
<1> DEFINE New(l) == [id |-> gen[l], worker |-> host[l], outstanding |-> Members(lead, l)]
<1>1. groups' = Detached(Swept) \cup {New(l) : l \in Leaders(lead, host)}
  BY DEF Cycle, Grouped
<1>2. ASSUME NEW g \in Detached(Swept)
      PROVE  ~(g.id >= nextGeneration)
  <2>1. PICK h \in groups : g = Shrunk(h, Swept)
    BY DEF Detached
  <2>2. h \in GroupType /\ h.id < nextGeneration /\ nextGeneration \in Nat
    BY DEF IInv, TypeOK, Allocated
  <2>3. g.id = h.id /\ h.id \in Nat
    BY <2>1, <2>2 DEF Shrunk, GroupType
  <2>4. QED BY <2>2, <2>3, SMTT(20)
<1>3. ASSUME NEW l \in Leaders(lead, host)
      PROVE  New(l).id >= nextGeneration
  <2>1. l \in sent
    BY DEF Cycle, Grouped
  <2>2. QED BY <2>1 DEF Cycle, Assigned
<1> HIDE DEF New
<1>4. Formed = {New(l) : l \in Leaders(lead, host)}
  BY <1>1, <1>2, <1>3 DEF Formed
<1>5. QED BY <1>4 DEF New

(* What the schedule loop then has to send: for every group its worker and *)
(* the generations its members were given.                                 *)
Packs(e, l, lead, host, gen) ==
  e.worker = host[l] /\ Range(e.members) = {gen[r] : r \in Members(lead, l)}

LEMMA CycleBatch ==
  ASSUME IInv, IInv', ScheduleCycle, NEW sent, NEW lead, NEW host, NEW gen, Cycle(sent, lead, host, gen),
         Chosen(sent, lead, host), DOMAIN gen = sent, Numbered(lead, gen)
  PROVE  /\ \A e \in Range(batch') : \E l \in Leaders(lead, host) : Packs(e, l, lead, host, gen)
         /\ \A l \in Leaders(lead, host) : \E e \in Range(batch') : Packs(e, l, lead, host, gen)
<1> DEFINE New(l) == [id |-> gen[l], worker |-> host[l], outstanding |-> Members(lead, l)]
<1>1. Formed = {New(l) : l \in Leaders(lead, host)}
  BY CycleForms, SMTT(20)
<1>2. ASSUME NEW l \in Leaders(lead, host)
      PROVE  Packs(Unsent(New(l)), l, lead, host, gen)
  <2>1. gen[l] \in Nat /\ Cardinality(Members(lead, l)) \in Nat
    <3>1. l \in sent /\ Members(lead, l) \subseteq sent /\ sent \subseteq Request
      BY DEF Cycle, Grouped, Assigned, Candidates
    <3>2. Cardinality(Members(lead, l)) \in Nat
      BY <3>1, CardOfRequests
    <3>3. QED BY <3>1, <3>2 DEF Cycle, Assigned
  <2>2. {gen[r] : r \in Members(lead, l)} = gen[l] .. gen[l] + Cardinality(Members(lead, l)) - 1
    BY LeaderNumbers, SMTT(20)
  <2>3. QED BY <2>1, <2>2, UnsentMembers DEF Packs
<1>3. IsFiniteSet(Formed) /\ \A g \in Formed : g.id \in Nat
  <2>1. IsFiniteSet(groups') /\ Formed \subseteq groups'
    <3>1. (TypeOK /\ GroupsConsistent => IsFiniteSet(groups))'
      BY FiniteGroups, PTL
    <3>2. QED BY <3>1 DEF Formed, IInv
  <2>2. QED BY <2>1, FS_Subset DEF IInv, TypeOK, GroupType
<1>4. PICK order \in [1 .. Cardinality(Formed) -> Formed] :
        /\ \A i, j \in DOMAIN order : i < j => order[i].id < order[j].id
        /\ batch' = [i \in DOMAIN order |-> Unsent(order[i])]
  BY DEF ScheduleCycle
<1>5. \A g \in Formed : \E i \in DOMAIN order : order[i] = g
  BY <1>3, <1>4, OrderCovers
<1> HIDE DEF New
<1>6. Range(batch') = {Unsent(g) : g \in Formed}
  BY <1>4, <1>5 DEF Range
<1>7. QED BY <1>1, <1>2, <1>6

(* run_cycle adds dispatches that nothing carried before, each waiting in  *)
(* the group of its worker, and leaves the others where they were.         *)
LEMMA CycleLocates ==
  ASSUME NetInv, NetInv', Located, ScheduleCycle
  PROVE  Located'
<1>1. IInv /\ IInv' /\ RunCycle /\ FliersGrouped
  BY DEF NetInv, CallInv, ScheduleCycle, Located
<1>2. PICK sent, lead, host, gen : /\ Cycle(sent, lead, host, gen) /\ Chosen(sent, lead, host)
                                   /\ DOMAIN gen = sent /\ Numbered(lead, gen)
  BY <1>1, CycleFacts
<1>3. /\ \A e \in Range(batch') : \E l \in Leaders(lead, host) : Packs(e, l, lead, host, gen)
      /\ \A l \in Leaders(lead, host) : \E e \in Range(batch') : Packs(e, l, lead, host, gen)
  BY <1>1, <1>2, CycleBatch
<1>4. /\ conn' = conn /\ left' = left /\ sending' = sending /\ batch = <<>>
      /\ sending.phase = "idle"
  <2>1. conn' = conn /\ left' = left /\ sending' = sending /\ batch = <<>>
    BY DEF ScheduleCycle
  <2>2. QED BY <2>1 DEF NetInv, CallInv, Held
<1>5. /\ sent \subseteq Request /\ nextGeneration \in Nat /\ nextGeneration' \in Nat
      /\ nextGeneration <= nextGeneration'
      /\ \A r \in sent : gen[r] \in Nat /\ gen[r] >= nextGeneration /\ gen[r] < nextGeneration'
      /\ \A q, r \in sent : gen[q] = gen[r] => q = r
      /\ \A l \in Leaders(lead, host) : Members(lead, l) \subseteq sent
  BY <1>1, <1>2, SMTT(20) DEF Cycle, Numbering, Assigned, Candidates, Grouped, IInv, TypeOK
<1>6. ASSUME NEW e \in Range(batch'), NEW g \in Range(e.members)
      PROVE  \E r \in sent : g = gen[r] /\ e.worker = host[lead[r]]
  <2>1. PICK l \in Leaders(lead, host) : Packs(e, l, lead, host, gen)
    BY <1>3
  <2>2. PICK r \in Members(lead, l) : g = gen[r]
    BY <2>1 DEF Packs
  <2>3. r \in sent /\ lead[r] = l
    BY <1>5 DEF Members
  <2>4. QED BY <2>1, <2>2, <2>3 DEF Packs
<1>7. ~InDispatch' /\ \A g \in Nat : g >= nextGeneration => \A c \in Conn : g \notin Load(conn'[c])
  BY <1>4 DEF InDispatch, Located, Nowhere
<1>8. ASSUME NEW g \in Nat, g >= nextGeneration'
      PROVE  Nowhere(g)'
  <2>1. g >= nextGeneration
    BY <1>5, <1>8, SMTT(20)
  <2>2. \A e \in Range(batch') : g \notin Range(e.members)
    BY <1>5, <1>6, <1>8, SMTT(20)
  <2>3. QED BY <1>7, <2>1, <2>2 DEF Nowhere
<1>9. ASSUME NEW r \in Request, Flies(rs'[r]), NEW g, NEW w, g = rs'[r].gen, w = rs'[r].worker
      PROVE  OnlyWith(g, w)' /\ Accounted(g, w)'
  <2>1. CASE r \in sent
    <3>1. g = gen[r] /\ w = host[lead[r]] /\ lead[r] \in Leaders(lead, host) /\ r \in Members(lead, lead[r])
      <4>1. g = gen[r] /\ w = host[lead[r]]
        <5>1. Sent(r, gen[r], gen[lead[r]], host[lead[r]])
          BY <1>1, <1>2, <2>1, CycleRequests
        <5>2. QED BY ONLY <1>9, <5>1, ZenonT(60) DEF Sent
      <4>2. /\ lead \in [Candidates -> Candidates] /\ r \in Candidates /\ host[lead[r]] # None
            /\ lead[lead[r]] = lead[r]
        BY <1>2, <2>1 DEF Chosen, Cycle, Assigned
      <4>3. QED BY <4>1, <4>2 DEF Leaders, Members
    <3>2. \A e \in Range(batch') : g \in Range(e.members) => e.worker = w
      BY <1>5, <1>6, <2>1, <3>1, SMTT(20)
    <3>3. \A c \in Conn : g \notin Load(conn'[c])
      BY <1>5, <1>7, <2>1, <3>1
    <3>4. \E e \in Range(batch') : g \in Range(e.members)
      BY <1>3, <3>1 DEF Packs
    <3>5. OnlyWith(g, w)'
      BY <1>7, <3>2, <3>3 DEF OnlyWith
    <3>6. (Waiting(g) <=> \E e \in Range(batch) : g \in Range(e.members))'
      BY WaitingIs, PTL
    <3>7. QED BY <3>4, <3>5, <3>6 DEF Accounted
  <2>2. CASE r \notin sent
    <3>1. Flies(rs[r]) /\ rs[r].gen = g /\ rs[r].worker = w
      BY <1>1, <1>2, <1>9, <2>2, CycleRequests DEF Kept, Flies
    <3>2. OnlyWith(g, w) /\ Accounted(g, w)
      BY <3>1 DEF Located
    <3>3. g \in Nat /\ g < nextGeneration
      BY <1>1, <3>1 DEF IInv, InFlightIssued, Allocated, TypeOK, DispatchType, Flies
    <3>4. \A e \in Range(batch') : g \notin Range(e.members)
      BY <1>5, <1>6, <3>3, SMTT(20)
    <3>5. OnlyWith(g, w)'
      BY <1>4, <1>7, <3>2, <3>4 DEF OnlyWith
    <3>6. ~Waiting(g) /\ sending.phase # "failed"
      BY <1>4, SMTT(20) DEF Waiting
    <3>7. LeftBehind(g) \/ Ending(w) \/ OnItsWay(g)
      BY <3>2, <3>6, AccountedIs
    <3>8. LeftBehind(g)' \/ Ending(w)' \/ OnItsWay(g)'
      BY <1>4, <3>7 DEF LeftBehind, Ending, OnItsWay
    <3>9. QED BY <3>5, <3>8 DEF Accounted, LossPending, Ending, OnItsWay
  <2>3. QED BY <2>1, <2>2
<1>10. \A r \in Request : Flies(rs'[r]) => /\ OnlyWith(rs[r].gen, rs[r].worker)'
                                           /\ Accounted(rs[r].gen, rs[r].worker)'
  BY <1>9
<1>11. QED BY <1>1, <1>8, <1>10, CycleGrouped DEF Located

(* No dispatch is forgotten: as long as a request is in flight, its        *)
(* dispatch is in the batch the schedule loop is sending, or carried by a  *)
(* connection, or was left behind by a worker that is registered again, or *)
(* a thread of the coordinator is about to declare its worker lost: for    *)
(* any number of requests, workers and connections.                        *)
THEOREM NoDispatchForgotten == NetSpec => []InFlightIsAccounted
<1>1. NetInit => Located
  <2> SUFFICES ASSUME NetInit PROVE Located
    OBVIOUS
  <2>1. \A r \in Request : ~Flies(rs[r])
    BY SchedulerAssumption DEF ConstantsOK, NetInit, Init, Absent, Flies
  <2>2. \A c \in Conn : Load(conn[c]) = {}
    BY SMTT(20) DEF NetInit, Load, InPieces, InAnswers, GensOf, NoResults, Range
  <2>3. batch = <<>>
    BY DEF NetInit
  <2>4. \A g : Nowhere(g)
    BY <2>2, <2>3, SMTT(20) DEF Nowhere, Range
  <2>5. QED BY <2>1, <2>4 DEF Located, FliersGrouped
<1>2. NetInv /\ NetInv' /\ Located /\ [NetNext]_allVars => Located'
  BY CallsLocate, CycleLocates
<1>3. Located => InFlightIsAccounted
  <2> SUFFICES ASSUME Located, NEW r \in Request, rs[r].inFlight, rs[r].lifecycle = "dispatched"
               PROVE  \/ Waiting(rs[r].gen) \/ LeftBehind(rs[r].gen)
                      \/ \E c \in Conn : Carried(c, rs[r].gen)
                      \/ LossPending(rs[r].worker)
    BY DEF InFlightIsAccounted
  <2>1. Accounted(rs[r].gen, rs[r].worker)
    BY DEF Located, Flies
  <2>2. \A c \in Conn : Carried(c, rs[r].gen) <=> rs[r].gen \in Load(conn[c])
    BY CarriedIsLoad
  <2>3. QED BY <2>1, <2>2 DEF Accounted
<1>4. QED BY <1>1, <1>2, <1>3, SoundInvariant, PTL DEF NetSpec

-----------------------------------------------------------------------------
(* What a worker computes for a member is computed from its own tokens.    *)

(* A dispatch is of a chunk that its request has.                          *)
ChunksExist == \A d \in issued : Pending(d.req, d.chunk)

LEMMA DispatchesStay ==
  ASSUME IInv, ChunksExist, [Next]_vars
  PROVE  DispatchesKept /\ ChunksExist'
<1>1. ASSUME NEW d \in issued, ReportCompletion(d)
      PROVE  DispatchesKept /\ ChunksExist'
  <2>1. PICK outcome \in Outcome, s \in RsType : Finish(d, outcome, s)
    BY <1>1, ReportFinishes
  <2> DEFINE c == [d EXCEPT !.credits = @ + 1, !.outcome = outcome]
  <2>2. issued' = (issued \ {d}) \cup {c}
    BY <2>1 DEF Finish
  <2>3. issued \subseteq DispatchType
    BY DEF IInv, TypeOK
  <2>4. c.gen = d.gen /\ c.req = d.req /\ c.chunk = d.chunk
    BY ONLY <2>3, d \in issued, ZenonT(60) DEF DispatchType
  <2> HIDE DEF c
  <2>5. QED BY <2>2, <2>4 DEF DispatchesKept, ChunksExist
<1>2. CASE RunCycle
  <2>1. PICK sent, lead, host, gen : Cycle(sent, lead, host, gen)
    BY <1>2, CycleFacts
  <2>2. /\ issued' = issued \cup {Issue(r, gen[r], host[lead[r]]) : r \in sent}
        /\ \A r \in sent : Pending(r, rs[r].chunk)
    BY <2>1 DEF Cycle, Recorded, Assigned, Candidates
  <2>3. \A r, g, w : Issue(r, g, w).req = r /\ Issue(r, g, w).chunk = rs[r].chunk
    BY DEF Issue
  <2>4. ASSUME NEW r \in sent, NEW d, d = Issue(r, gen[r], host[lead[r]])
        PROVE  Pending(d.req, d.chunk)
    <3>1. d.req = r /\ d.chunk = rs[r].chunk
      BY <2>3, <2>4
    <3>2. QED BY ONLY <2>2, <3>1, r \in sent, ZenonT(60)
  <2>5. QED BY <2>2, <2>4 DEF DispatchesKept, ChunksExist
<1>3. CASE issued' = issued
  BY <1>3 DEF DispatchesKept, ChunksExist
<1>4. \/ issued' = issued \/ RunCycle \/ \E d \in issued : ReportCompletion(d)
  BY DEF Next, vars, Submit, Cancel, ForceRetry, CancelGeneration, UnregisterWorker, WorkerLost,
         RegisterWorker, AttachExecutor, RollEpoch, Tick
<1>5. QED BY <1>1, <1>2, <1>3, <1>4

LEMMA CycleNames ==
  ASSUME IInv, IInv', ScheduleCycle
  PROVE  \A e \in Range(batch') : \A g \in Range(e.members) : Named(g)'
<1>1. PICK sent, lead, host, gen : /\ Cycle(sent, lead, host, gen) /\ Chosen(sent, lead, host)
                                   /\ DOMAIN gen = sent /\ Numbered(lead, gen)
  BY CycleFacts DEF ScheduleCycle
<1>2. ASSUME NEW e \in Range(batch'), NEW g \in Range(e.members)
      PROVE  Named(g)'
  <2>1. PICK l \in Leaders(lead, host) : Packs(e, l, lead, host, gen)
    BY <1>1, CycleBatch
  <2>2. PICK r \in Members(lead, l) : g = gen[r]
    BY <2>1 DEF Packs
  <2>3. r \in sent
    BY <1>1 DEF Cycle, Grouped
  <2>4. Issue(r, gen[r], host[lead[r]]) \in issued' /\ Issue(r, gen[r], host[lead[r]]).gen = g
    BY <1>1, <2>2, <2>3 DEF Cycle, Recorded, Issue
  <2>5. QED BY <2>4 DEF Named
<1>3. QED BY <1>2

LEMMA TokensStep ==
  ASSUME NetInv, IInv', ChunksExist, TokenInv, [NetNext]_allVars
  PROVE  ChunksExist' /\ TokenInv'
<1>1. IInv /\ Carrying /\ [Next]_vars
  BY NetStep DEF NetInv, CallInv, WatchInv, Carrying
<1>2. DispatchesKept /\ ChunksExist'
  BY <1>1, DispatchesStay
<1>3. Measured
  <2>1. \A d \in issued : d.req \in Request /\ d.chunk \in Nat
    BY <1>1 DEF IInv, TypeOK, DispatchType
  <2>2. QED BY <2>1, ChunkTypes DEF Measured, Count, ChunksExist
<1>4. QED BY <1>1, <1>2, <1>3, CycleNames, TokenStep DEF IInv, GenerationsDiffer

(* Whatever a member is packed with, however many there are, and whatever  *)
(* buffers clients submit for a request meanwhile: the offsets cut its own *)
(* range of one of its buffers out of the frame, and the executor runs on  *)
(* exactly that.                                                           *)
THEOREM MembersRunOwnTokens == NetSpec => []MembersRunTheirTokens
<1>1. NetInit => ChunksExist /\ TokenInv
  BY TokenInit DEF NetInit, Init, ChunksExist
<1>2. NetInv /\ NetInv' /\ ChunksExist /\ TokenInv /\ [NetNext]_allVars => ChunksExist' /\ TokenInv'
  BY TokensStep DEF NetInv, CallInv
<1>3. NetInv /\ TokenInv => MembersRunTheirTokens
  BY OwnAnswers DEF NetInv, CallInv, IInv, GenerationsDiffer
<1>4. QED BY <1>1, <1>2, <1>3, SoundInvariant, PTL DEF NetSpec
=============================================================================
