------------------------------- MODULE Scheduler -------------------------------
(***************************************************************************)
(* The prefill scheduler (src/core/scheduler.cpp).  Every public method    *)
(* takes the scheduler's mutex for its whole body, so each is one step;    *)
(* clients, drivers, the coordinator and workers call them in any order.   *)
(* A call that only returns an error, or only counts, is not a step.       *)
(*                                                                         *)
(* A driver executes the groups a cycle dispatches outside the lock and    *)
(* reports each member later: reports arrive late, repeatedly, out of      *)
(* order, or never.  The history variable issued records every dispatch so *)
(* that a report is always one that some driver can really send.           *)
(***************************************************************************)
EXTENDS ChunkPlan, FiniteSets, Functions, Sequences

CONSTANTS
  Request,      \* request ids
  Worker,       \* worker ids; 0 is the in-process worker, and the nil id
  Tenant,
  Descriptor,   \* the submitted PrefillRequest of each id
  Capacity,     \* capacity_units of each worker
  Backend,      \* backend of each worker
  AnyBackend    \* kBackendAny

CONSTANTS       \* SchedulerConfig
  MaxAdmittedRequests, TenantOutstandingLimit, TenantTokenLimit,
  MaxRequestsPerGroup, MaxTokensPerGroup, MaxComputePerGroup, MaxMemoryPerGroup,
  Budget,        \* the governor's budget in bytes
  DeadlineSlack

CONSTANTS       \* bounds of the model
  MaxTime,          \* the clock stops here
  MaxGeneration,    \* dispatches a behaviour may make
  MaxEpoch,         \* epochs a behaviour may reach
  MaxRegistrations, \* calls of register_worker and attach_executor
  AgingCap          \* aging_cycles saturate here

None == -1   \* an optional field that is not set

DescriptorType ==
  [tenant : Tenant, prompt : Nat \ {0}, cached : Nat, compute : Nat, memory : Nat,
   key : STRING, backend : STRING, deadline : Nat \cup {None}, maxQueueDelay : Nat \cup {None},
   priority : Int, latency : Nat, maxRetries : Nat]

(* Requests that PrefillRequest::validate accepts, on a finite instance.   *)
ConstantsOK ==
  /\ Request \subseteq Nat \ {0} /\ IsFiniteSet(Request)
  /\ Worker \subseteq Nat /\ IsFiniteSet(Worker) /\ 0 \in Worker
  /\ Descriptor \in [Request -> DescriptorType]
  /\ Capacity \in [Worker -> Nat \ {0}]
  /\ MaxEpoch \in Nat /\ MaxGeneration \in Nat /\ MaxTime \in Nat
  /\ MaxRegistrations \in Nat /\ AgingCap \in Nat /\ Budget \in Nat
  /\ MaxRequestsPerGroup \in Nat /\ MaxTokensPerGroup \in Nat /\ MaxComputePerGroup \in Nat
  /\ TenantOutstandingLimit \in Nat /\ TenantTokenLimit \in Nat /\ DeadlineSlack \in Nat

ASSUME SchedulerAssumption == ConstantsOK

VARIABLES
  rs,            \* requests_: the record Rs of each request
  groups,        \* groups_: the groups that have outstanding members
  ws,            \* workers_: state, boot id and busy_units of each worker
  ts,            \* tenants_: outstanding and admitted_tokens of each tenant
  epoch,
  nextAttempt, nextGeneration,
  now,           \* the clock
  registrations, \* calls counted against MaxRegistrations
  issued         \* history: every member ever dispatched, and what was applied

vars == <<rs, groups, ws, ts, epoch, nextAttempt, nextGeneration, now, registrations, issued>>

Terminal  == {"completed", "cancelled", "expired", "failed_non_retryable"}
Lifecycle == {"absent", "queued", "dispatched"} \cup Terminal

Outcome == {"success", "retryable_failure", "non_retryable_failure", "cancelled",
            "expired", "stale_rejected"}

RsType ==
  [lifecycle : Lifecycle, attempt : Nat, chunk : Nat, completed : Nat, gen : Nat,
   reservation : BOOLEAN, reservedBytes : Nat, inFlight : BOOLEAN, group : Nat,
   worker : Worker, retries : Nat, cancelPending : BOOLEAN, aging : Nat, admitTime : Nat]

GroupType == [id : Nat, worker : Worker, outstanding : SUBSET Request]

WorkerType == [state : {"unknown", "ready", "retired", "lost"}, boot : Nat, busy : Nat]

TenantType == [outstanding : Nat, admitted : Nat]

DispatchType ==
  [gen : Nat, req : Request, attempt : Nat, chunk : Nat, worker : Worker, boot : Nat,
   epoch : Nat, credits : Nat, outcome : Outcome \cup {"none"}]

-----------------------------------------------------------------------------
(* Helpers.                                                                *)

(* Mutant: the subtraction of unsigned counters is not saturated.          *)
MonusWrapping(a, b) == a - b

Monus(a, b) == IF a > b THEN a - b ELSE 0

(* The plan of a request is a function of its descriptor; chunks are       *)
(* counted from 0.                                                         *)
Size(r)         == EffectiveChunk(Descriptor[r])
Pending(r, i)   == HasChunk(Descriptor[r], Size(r), i)
Tokens(r, i)    == ChunkTokens(Descriptor[r], Size(r), i)
Memory(r, i)    == ChunkMemory(Descriptor[r], Size(r), i)
Compute(r, i)   == ChunkCompute(Descriptor[r], Size(r), i)
Uncached(r)     == Remaining(Descriptor[r])

Known(r) == rs[r].lifecycle # "absent"
Live(r)  == rs[r].lifecycle \in {"queued", "dispatched"}

(* A request that is not in requests_.                                     *)
Absent ==
  [lifecycle |-> "absent", attempt |-> 0, chunk |-> 0, completed |-> 0, gen |-> 0,
   reservation |-> FALSE, reservedBytes |-> 0, inFlight |-> FALSE, group |-> 0,
   worker |-> 0, retries |-> 0, cancelPending |-> FALSE, aging |-> 0, admitTime |-> 0]

ReleaseReservation(s) == [s EXCEPT !.reservation = FALSE, !.reservedBytes = 0]

(* Mutants: a new attempt keeps the token count, drops a cancellation, or  *)
(* goes on from the chunk that failed.                                     *)
RestartKeepingTokens(s) ==
  [s EXCEPT !.retries = @ + 1, !.attempt = nextAttempt, !.chunk = 0, !.gen = 0,
            !.lifecycle = "queued"]

RestartForgettingCancel(s) ==
  [s EXCEPT !.retries = @ + 1, !.attempt = nextAttempt, !.chunk = 0, !.completed = 0,
            !.gen = 0, !.lifecycle = "queued", !.cancelPending = FALSE]

RestartMidPlan(s) ==
  [s EXCEPT !.retries = @ + 1, !.attempt = nextAttempt, !.gen = 0, !.lifecycle = "queued"]

(* A new attempt: planned again from the first chunk, with no generation.  *)
Restart(s) ==
  [s EXCEPT !.retries = @ + 1, !.attempt = nextAttempt, !.chunk = 0, !.completed = 0,
            !.gen = 0, !.lifecycle = "queued"]

(* The members of S leave their current groups; an empty group disappears  *)
(* and frees one unit of its worker.                                       *)
Shrunk(g, S) == [g EXCEPT !.outstanding = {r \in @ : r \notin S \/ rs[r].group # g.id}]

(* Mutant: a group stays when its last member leaves.                      *)
DetachedKeepingEmpty(S) == {Shrunk(h, S) : h \in groups}

Detached(S)  == {g \in {Shrunk(h, S) : h \in groups} : g.outstanding # {}}
Emptied(S)   == {g \in groups : Shrunk(g, S).outstanding = {}}

(* Mutant: the unit of a group that ended is not given back.               *)
FreedNothing(gone) == ws

Freed(gone)  ==
  [w \in Worker |-> [ws[w] EXCEPT !.busy = Monus(@, Cardinality({g \in gone : g.worker = w}))]]

(* A terminal request gives back its place and its admitted tokens.        *)
Settled(r) ==
  [ts EXCEPT ![Descriptor[r].tenant] =
     [outstanding |-> Monus(@.outstanding, 1),
      admitted    |-> IF @.admitted >= Uncached(r) THEN @.admitted - Uncached(r)
                                                   ELSE @.admitted]]

(* The memory that requests hold, and the uncached tokens they ask for.    *)
ReservedBytes(S) ==
  SumFunctionOnSet([r \in Request |-> rs[r].reservedBytes], {r \in S : rs[r].reservation})

UncachedOf(S) == SumFunctionOnSet([r \in Request |-> Uncached(r)], S)

-----------------------------------------------------------------------------
Init ==
  /\ rs = [r \in Request |-> Absent]
  /\ groups = {}
  /\ ws = [w \in Worker |-> IF w = 0 THEN [state |-> "ready", boot |-> 1, busy |-> 0]
                                     ELSE [state |-> "unknown", boot |-> 0, busy |-> 0]]
  /\ ts = [t \in Tenant |-> [outstanding |-> 0, admitted |-> 0]]
  /\ epoch = 1 /\ nextAttempt = 1 /\ nextGeneration = 1
  /\ now = 0 /\ registrations = 0 /\ issued = {}

(* submit_with_tokens: an id already known is refused, then the three      *)
(* admission limits.  A prompt that the reusable prefix covers completes   *)
(* at once.                                                                *)
Submit(r) ==
  LET t == Descriptor[r].tenant IN
  /\ ~Known(r)
  /\ Cardinality({q \in Request : Known(q)}) < MaxAdmittedRequests
  /\ ts[t].outstanding < TenantOutstandingLimit
  /\ ts[t].admitted + Uncached(r) <= TenantTokenLimit
  /\ rs' = [rs EXCEPT ![r] =
              [Absent EXCEPT !.lifecycle = IF Uncached(r) = 0 THEN "completed" ELSE "queued",
                             !.attempt = nextAttempt, !.admitTime = now]]
  /\ ts' = [ts EXCEPT ![t] =
              [outstanding |-> @.outstanding + (IF Uncached(r) = 0 THEN 0 ELSE 1),
               admitted    |-> @.admitted + Uncached(r)]]
  /\ nextAttempt' = nextAttempt + 1
  /\ UNCHANGED <<groups, ws, epoch, nextGeneration, now, registrations, issued>>

-----------------------------------------------------------------------------
(* run_cycle.  First the sweep: Overdue requests expire, and the ones in   *)
(* flight leave their groups, freeing units that the same cycle may use.   *)

Overdue(r) ==
  LET d == Descriptor[r] IN
  /\ Live(r)
  /\ \/ d.deadline # None /\ now > d.deadline
     \/ ~rs[r].inFlight /\ d.maxQueueDelay # None /\ now - rs[r].admitTime > d.maxQueueDelay

Expiring == {r \in Request : Overdue(r)}
Swept    == {r \in Expiring : rs[r].inFlight}

Expire(s) == [ReleaseReservation(s) EXCEPT !.lifecycle = "expired"]

(* Requests that may be dispatched, in the order of the sort: urgent ones, *)
(* earlier deadlines, higher priority and latency class, longer aging,     *)
(* earlier admission, lower id.                                            *)

(* Mutant: the sweep does not take requests out of the running.            *)
CandidatesUnswept ==
  {r \in Request : rs[r].lifecycle = "queued" /\ ~rs[r].inFlight /\ Pending(r, rs[r].chunk)}

Candidates ==
  {r \in Request \ Expiring :
     rs[r].lifecycle = "queued" /\ ~rs[r].inFlight /\ Pending(r, rs[r].chunk)}

Urgent(r) == Descriptor[r].deadline # None /\ now + DeadlineSlack >= Descriptor[r].deadline

SortKey(r) ==
  LET d == Descriptor[r] IN
  << IF Urgent(r) THEN 0 ELSE 1, IF d.deadline = None THEN 1 ELSE 0, d.deadline,
     -d.priority, -d.latency, -rs[r].aging, rs[r].admitTime, r >>

Before(a, b) ==
  LET ka == SortKey(a)
      kb == SortKey(b)
  IN  \E i \in 1..8 : ka[i] < kb[i] /\ \A j \in 1..(i-1) : ka[j] = kb[j]

(* compatible_with_group: may r join the requests M?  The memory limit is  *)
(* on the largest member; the others are on sums.                          *)

(* Mutant: the backend is not part of the compatibility key.               *)
CompatKeyOfModel(r) == <<Descriptor[r].key>>

CompatKey(r)   == <<Descriptor[r].key, Descriptor[r].backend>>
NextTokens(r)  == Tokens(r, rs[r].chunk)
NextMemory(r)  == Memory(r, rs[r].chunk)
NextCompute(r) == Compute(r, rs[r].chunk)

(* What the next chunks of the requests M take together.                   *)
TokensIn(M)  == SumFunctionOnSet([q \in Request |-> NextTokens(q)], M)
ComputeIn(M) == SumFunctionOnSet([q \in Request |-> NextCompute(q)], M)
MemoryIn(M)  == SumFunctionOnSet([q \in Request |-> NextMemory(q)], M)

(* Mutant: the group's token total is not looked at.                       *)
CompatibleAnyTokens(r, M) ==
  /\ \A q \in M : CompatKey(q) = CompatKey(r)
  /\ Cardinality(M) < MaxRequestsPerGroup
  /\ NextTokens(r) <= MaxTokensPerGroup

Compatible(r, M) ==
  /\ \A q \in M : CompatKey(q) = CompatKey(r)
  /\ Cardinality(M) < MaxRequestsPerGroup
  /\ TokensIn(M \cup {r}) <= MaxTokensPerGroup
  /\ ComputeIn(M \cup {r}) <= MaxComputePerGroup
  /\ \A q \in M \cup {r} : NextMemory(q) <= MaxMemoryPerGroup

(* lead maps every candidate to the first member of its group.  First fit: *)
(* in order, each joins the earliest open group that takes it, or opens    *)
(* one, which no limit prevents.                                           *)
FirstFit(lead) ==
  \A r \in DOMAIN lead :
    LET Joined(l) == {q \in DOMAIN lead : lead[q] = l /\ Before(q, r)}
        fitting   == {l \in DOMAIN lead : lead[l] = l /\ Before(l, r) /\ Compatible(r, Joined(l))}
    IN  IF fitting = {} THEN lead[r] = r
                        ELSE /\ lead[r] \in fitting
                             /\ \A l \in fitting \ {lead[r]} : Before(lead[r], l)

Members(lead, l) == {r \in DOMAIN lead : lead[r] = l}

Accepts(w, r) ==
  Descriptor[r].backend = AnyBackend \/ Backend[w] = AnyBackend \/ Backend[w] = Descriptor[r].backend

(* The requests whose memory is taken when the group of l is reserved.     *)
(* Mutant: those of earlier groups of the cycle are left out.              *)
PlacedAlone(lead, earlier, l) == Members(lead, l)

Placed(lead, earlier, l) == UNION {Members(lead, k) : k \in earlier \cup {l}}

(* host maps the leader of each group to its worker, or None if the group  *)
(* is deferred.  In group order: the lowest worker that is ready, has a    *)
(* free unit and accepts the backend; then memory for every member, all or *)
(* nothing.                                                                *)
Hosted(lead, host) ==
  LET swept == Freed(Emptied(Swept))
      held  == ReservedBytes(Request \ Expiring)
  IN  \A l \in DOMAIN host :
        LET earlier == {k \in DOMAIN host : host[k] # None /\ Before(k, l)}
            Used(w) == swept[w].busy + Cardinality({k \in earlier : host[k] = w})
            free    == {w \in Worker : ws[w].state = "ready" /\ Accepts(w, l) /\ Used(w) < Capacity[w]}
            fits    == held + MemoryIn(Placed(lead, earlier, l)) <= Budget
        IN  IF free # {} /\ fits THEN host[l] \in free /\ \A w \in free : host[l] <= w
                                 ELSE host[l] = None

(* Generations are handed out group by group, member by member.            *)
Numbered(lead, gen) ==
  \A q, r \in DOMAIN gen :
    Before(lead[q], lead[r]) \/ (lead[q] = lead[r] /\ Before(q, r)) => gen[q] < gen[r]

Dispatch(r, g, l, w) ==
  [rs[r] EXCEPT !.lifecycle = "dispatched", !.gen = g, !.inFlight = TRUE, !.group = l,
                !.worker = w, !.reservation = TRUE, !.reservedBytes = NextMemory(r)]

(* A request that stays queued ages.                                       *)
Age(s) ==
  [s EXCEPT !.aging = IF s.lifecycle = "queued" /\ ~s.inFlight /\ @ < AgingCap THEN @ + 1 ELSE @]

(* An expired request gives back its place, but not its admitted tokens.   *)
(* Mutant: nor its place.                                                  *)
RefundedNothing == ts

Refunded ==
  [t \in Tenant |->
     [ts[t] EXCEPT !.outstanding =
        Monus(@, Cardinality({r \in Expiring : Descriptor[r].tenant = t}))]]

(* The effect of a cycle that dispatches the requests sent: lead, host and *)
(* gen give the group, the worker and the generation of each.              *)
CycleEffect(sent, lead, host, gen) ==
  /\ rs' = [r \in Request |->
              IF r \in sent THEN Dispatch(r, gen[r], gen[lead[r]], host[lead[r]])
              ELSE IF r \in Expiring THEN Expire(rs[r]) ELSE Age(rs[r])]
  /\ groups' = Detached(Swept) \cup
               {[id |-> gen[l], worker |-> host[l], outstanding |-> Members(lead, l)] :
                  l \in {k \in DOMAIN host : host[k] # None}}
  /\ ws' = [w \in Worker |->
              [Freed(Emptied(Swept))[w] EXCEPT
                 !.busy = @ + Cardinality({l \in DOMAIN host : host[l] = w})]]
  /\ ts' = Refunded
  /\ issued' = issued \cup
               {[gen |-> gen[r], req |-> r, attempt |-> rs[r].attempt, chunk |-> rs[r].chunk,
                 worker |-> host[lead[r]], boot |-> ws[host[lead[r]]].boot, epoch |-> epoch,
                 credits |-> 0, outcome |-> "none"] : r \in sent}
  /\ nextGeneration' = nextGeneration + Cardinality(sent)

RunCycle ==
  /\ \E lead \in [Candidates -> Candidates] :
       /\ FirstFit(lead)
       /\ \E host \in [{r \in Candidates : lead[r] = r} -> Worker \cup {None}] :
            /\ Hosted(lead, host)
            /\ LET sent == {r \in Candidates : host[lead[r]] # None} IN
               /\ nextGeneration + Cardinality(sent) <= MaxGeneration + 1
               /\ \E gen \in Injection(sent, nextGeneration .. nextGeneration + Cardinality(sent) - 1) :
                    Numbered(lead, gen) /\ CycleEffect(sent, lead, host, gen)
  /\ UNCHANGED <<epoch, nextAttempt, now, registrations>>

-----------------------------------------------------------------------------
(* report_completion.  A report of the dispatch d carries the epoch and    *)
(* boot id its driver stamped, which a driver reads at the dispatch or     *)
(* later, or no worker at all (both ids nil).                              *)

Anonymous == <<0, 0>>

Reports(d) ==
  [epoch : d.epoch .. epoch,
   source : {Anonymous} \cup {<<d.worker, b>> : b \in d.boot .. ws[d.worker].boot}]

(* Mutants: reports apply when nothing is in flight, when the request is   *)
(* terminal, or for any generation of the attempt.                         *)
AuthoritativeAnyTime(d, m) ==
  LET s == rs[d.req] IN
  /\ m.epoch = epoch
  /\ m.source # Anonymous => ws[m.source[1]].boot = m.source[2]
  /\ d.attempt = s.attempt /\ d.gen = s.gen
  /\ Live(d.req)

AuthoritativeEvenTerminal(d, m) ==
  LET s == rs[d.req] IN
  /\ m.epoch = epoch
  /\ m.source # Anonymous => ws[m.source[1]].boot = m.source[2]
  /\ d.attempt = s.attempt /\ d.gen = s.gen
  /\ s.inFlight

AuthoritativeAnyGeneration(d, m) ==
  LET s == rs[d.req] IN
  /\ m.epoch = epoch
  /\ m.source # Anonymous => ws[m.source[1]].boot = m.source[2]
  /\ d.attempt = s.attempt
  /\ Live(d.req) /\ s.inFlight

(* The checks of report_completion that precede any change.                *)
Authoritative(d, m) ==
  LET s == rs[d.req] IN
  /\ m.epoch = epoch
  /\ m.source # Anonymous => ws[m.source[1]].boot = m.source[2]
  /\ d.attempt = s.attempt
  /\ d.gen = s.gen
  /\ Live(d.req)
  /\ s.inFlight
  /\ m.source[1] # 0 => m.source[1] = s.worker

(* Whatever the outcome, the work of the chunk is counted.                 *)
Counted(r) ==
  [rs[r] EXCEPT !.inFlight = FALSE, !.completed = @ + Tokens(r, rs[r].chunk)]

(* Mutant: every report settles with the tenant.                           *)
FinishSettling(d, outcome, s) ==
  /\ rs' = [rs EXCEPT ![d.req] = [ReleaseReservation(s) EXCEPT !.group = 0]]
  /\ groups' = Detached({d.req})
  /\ ws' = Freed(Emptied({d.req}))
  /\ ts' = Settled(d.req)
  /\ issued' = (issued \ {d}) \cup {[d EXCEPT !.credits = @ + 1, !.outcome = outcome]}
  /\ UNCHANGED <<epoch, nextGeneration, now, registrations>>

(* The rest of the handler, once the outcome has turned the request's      *)
(* record into s: settle with the tenant if s is terminal, release the     *)
(* reservation, leave the group.                                           *)
Finish(d, outcome, s) ==
  /\ rs' = [rs EXCEPT ![d.req] = [ReleaseReservation(s) EXCEPT !.group = 0]]
  /\ groups' = Detached({d.req})
  /\ ws' = Freed(Emptied({d.req}))
  /\ ts' = IF s.lifecycle \in Terminal THEN Settled(d.req) ELSE ts
  /\ issued' = (issued \ {d}) \cup {[d EXCEPT !.credits = @ + 1, !.outcome = outcome]}
  /\ UNCHANGED <<epoch, nextGeneration, now, registrations>>

ReportStaleRejected(d) ==
  Finish(d, "stale_rejected", Counted(d.req)) /\ UNCHANGED nextAttempt

ReportRetryable(d) ==
  LET s == Counted(d.req) IN
  \/ /\ s.retries < Descriptor[d.req].maxRetries
     /\ Finish(d, "retryable_failure", Restart(s))
     /\ nextAttempt' = nextAttempt + 1
  \/ /\ s.retries >= Descriptor[d.req].maxRetries
     /\ Finish(d, "retryable_failure", [s EXCEPT !.lifecycle = "failed_non_retryable"])
     /\ UNCHANGED nextAttempt

ReportNonRetryable(d) ==
  /\ Finish(d, "non_retryable_failure",
            [Counted(d.req) EXCEPT !.lifecycle = "failed_non_retryable"])
  /\ UNCHANGED nextAttempt

ReportCancelled(d) ==
  /\ Finish(d, "cancelled",
            [Counted(d.req) EXCEPT !.lifecycle = "cancelled", !.cancelPending = FALSE])
  /\ UNCHANGED nextAttempt

ReportExpired(d) ==
  Finish(d, "expired", [Counted(d.req) EXCEPT !.lifecycle = "expired"]) /\ UNCHANGED nextAttempt

(* Mutant: the last chunk of the plan is skipped.                          *)
AfterSuccessSkippingLast(r) ==
  LET s == Counted(r) IN
  IF s.cancelPending THEN [s EXCEPT !.lifecycle = "cancelled", !.cancelPending = FALSE]
  ELSE IF Pending(r, s.chunk + 2) THEN [s EXCEPT !.lifecycle = "queued", !.chunk = @ + 1]
  ELSE [s EXCEPT !.lifecycle = "completed"]

(* A successful chunk: a pending cancellation takes effect, or the next    *)
(* chunk is queued, or the request is complete.                            *)
AfterSuccess(r) ==
  LET s == Counted(r) IN
  IF s.cancelPending THEN [s EXCEPT !.lifecycle = "cancelled", !.cancelPending = FALSE]
  ELSE IF Pending(r, s.chunk + 1) THEN [s EXCEPT !.lifecycle = "queued", !.chunk = @ + 1]
  ELSE [s EXCEPT !.lifecycle = "completed"]

ReportSuccess(d) ==
  Finish(d, "success", AfterSuccess(d.req)) /\ UNCHANGED nextAttempt

Report(d) ==
  \/ ReportStaleRejected(d) \/ ReportRetryable(d) \/ ReportNonRetryable(d)
  \/ ReportCancelled(d) \/ ReportExpired(d) \/ ReportSuccess(d)

ReportCompletion(d) ==
  /\ \E m \in Reports(d) : Authoritative(d, m)
  /\ Report(d)

-----------------------------------------------------------------------------
(* cancel: at the next chunk boundary when in flight, else at once.        *)
Cancel(r) ==
  /\ Live(r)
  /\ \/ /\ rs[r].inFlight
        /\ rs' = [rs EXCEPT ![r].cancelPending = TRUE]
        /\ UNCHANGED <<groups, ws, ts>>
     \/ /\ ~rs[r].inFlight
        /\ rs' = [rs EXCEPT ![r] = [ReleaseReservation(@) EXCEPT !.lifecycle = "cancelled",
                                                                 !.group = 0]]
        /\ groups' = Detached({r})
        /\ ws' = Freed(Emptied({r}))
        /\ ts' = Settled(r)
  /\ UNCHANGED <<epoch, nextAttempt, nextGeneration, now, registrations, issued>>

(* cancel_generation for the generation of a dispatch.                     *)
CancelGeneration(d) ==
  /\ Live(d.req) /\ rs[d.req].inFlight /\ rs[d.req].gen = d.gen
  /\ rs' = [rs EXCEPT ![d.req].cancelPending = TRUE]
  /\ UNCHANGED <<groups, ws, ts, epoch, nextAttempt, nextGeneration, now, registrations, issued>>

(* Mutant: abandoned work keeps its reservation.                           *)
AbandonLeaking(s) == IF s.inFlight THEN [s EXCEPT !.inFlight = FALSE, !.group = 0] ELSE s

(* force_retry: work in flight is abandoned with its whole group, and only *)
(* then is the retry budget looked at.                                     *)
Abandon(s) ==
  IF s.inFlight THEN [ReleaseReservation(s) EXCEPT !.inFlight = FALSE, !.group = 0] ELSE s

ForceRetry(r) ==
  LET gone == {g \in groups : rs[r].inFlight /\ g.id = rs[r].group} IN
  /\ Live(r)
  /\ groups' = groups \ gone
  /\ ws' = Freed(gone)
  /\ \/ /\ rs[r].retries < Descriptor[r].maxRetries
        /\ rs' = [rs EXCEPT ![r] = Restart(Abandon(@))]
        /\ nextAttempt' = nextAttempt + 1
     \/ /\ rs[r].retries >= Descriptor[r].maxRetries
        /\ rs' = [rs EXCEPT ![r] = Abandon(@)]
        /\ UNCHANGED nextAttempt
  /\ UNCHANGED <<ts, epoch, nextGeneration, now, registrations, issued>>

(* register_worker: a known boot id again, or a new one.                   *)
RegisterWorker(w, boot) ==
  /\ w # 0
  /\ registrations < MaxRegistrations
  /\ boot \in {ws[w].boot, ws[w].boot + 1} \ {0}
  /\ ws' = [ws EXCEPT ![w] = [state |-> "ready", boot |-> boot, busy |-> 0]]
  /\ registrations' = registrations + 1
  /\ UNCHANGED <<rs, groups, ts, epoch, nextAttempt, nextGeneration, now, issued>>

(* attach_executor puts the in-process worker in service.                  *)
AttachExecutor ==
  /\ registrations < MaxRegistrations
  /\ ws' = [ws EXCEPT ![0].state = "ready"]
  /\ registrations' = registrations + 1
  /\ UNCHANGED <<rs, groups, ts, epoch, nextAttempt, nextGeneration, now, issued>>

UnregisterWorker(w) ==
  /\ ws[w].state # "unknown"
  /\ ws' = [ws EXCEPT ![w].state = "retired"]
  /\ UNCHANGED <<rs, groups, ts, epoch, nextAttempt, nextGeneration, now, registrations, issued>>

(* Mutants: a recovered request keeps its reservation, or its lifecycle,   *)
(* or groups of other workers are recovered too.                           *)
RecoveredHoldingMemory(s) == [s EXCEPT !.inFlight = FALSE, !.gen = 0, !.lifecycle = "queued"]

RecoveredStillDispatched(s) == [ReleaseReservation(s) EXCEPT !.inFlight = FALSE, !.gen = 0]

OutstandingAnywhere(w) == UNION {g.outstanding : g \in groups}

(* worker_lost: what is outstanding in the worker's groups is queued       *)
(* again, to redo the chunk in the same attempt.                           *)
Recovered(s) ==
  [ReleaseReservation(s) EXCEPT !.inFlight = FALSE, !.gen = 0, !.lifecycle = "queued"]

Outstanding(w) == UNION {g.outstanding : g \in {h \in groups : h.worker = w}}

WorkerLost(w) ==
  /\ ws[w].state # "unknown"
  /\ rs' = [r \in Request |->
              IF r \in Outstanding(w) /\ rs[r].inFlight /\ rs[r].lifecycle = "dispatched"
              THEN Recovered(rs[r]) ELSE rs[r]]
  /\ groups' = {g \in groups : g.worker # w}
  /\ ws' = [ws EXCEPT ![w].busy = 0, ![w].state = "lost"]
  /\ UNCHANGED <<ts, epoch, nextAttempt, nextGeneration, now, registrations, issued>>

RollEpoch ==
  /\ epoch < MaxEpoch
  /\ epoch' = epoch + 1
  /\ UNCHANGED <<rs, groups, ws, ts, nextAttempt, nextGeneration, now, registrations, issued>>

Tick ==
  /\ now < MaxTime
  /\ now' = now + 1
  /\ UNCHANGED <<rs, groups, ws, ts, epoch, nextAttempt, nextGeneration, registrations, issued>>

Next ==
  \/ \E r \in Request : Submit(r) \/ Cancel(r) \/ ForceRetry(r)
  \/ RunCycle
  \/ \E d \in issued : ReportCompletion(d) \/ CancelGeneration(d)
  \/ \E w \in Worker : \/ UnregisterWorker(w) \/ WorkerLost(w)
                       \/ \E boot \in 1 .. MaxRegistrations : RegisterWorker(w, boot)
  \/ AttachExecutor \/ RollEpoch \/ Tick

Spec == Init /\ [][Next]_vars

(* The orderly system: the in-process worker stays in service, a remote    *)
(* one registers again only after it was declared lost, no epoch rolls, no *)
(* retry is forced, and reports have the outcomes the executors of the     *)
(* repository produce.  Cycles keep running (the coordinator's             *)
(* schedule_loop), and whoever received a dispatch eventually reports it,  *)
(* stamped with the epoch and boot id of the dispatch, unless the worker   *)
(* is declared lost first.                                                 *)
Stamp(d) == [epoch |-> d.epoch, source |-> <<d.worker, d.boot>>]

Deliver(d) ==
  /\ Authoritative(d, Stamp(d))
  /\ ReportSuccess(d) \/ ReportRetryable(d) \/ ReportNonRetryable(d)

OrderlyNext ==
  \/ \E r \in Request : Submit(r) \/ Cancel(r)
  \/ RunCycle
  \/ \E d \in issued : Deliver(d)
  \/ \E w \in Worker \ {0} :
       \/ WorkerLost(w)
       \/ ws[w].state \in {"unknown", "lost"} /\ \E boot \in 1 .. MaxRegistrations : RegisterWorker(w, boot)

OrderlySpec ==
  /\ Init /\ [][OrderlyNext]_vars
  /\ WF_vars(RunCycle)
  /\ \A r \in Request : WF_vars(\E d \in issued : d.req = r /\ Deliver(d))

-----------------------------------------------------------------------------
(* Properties.                                                             *)

(* Every field stays in its type: in particular, no counter that the code  *)
(* keeps in an unsigned integer goes below zero.                           *)
TypeOK ==
  /\ rs \in [Request -> RsType]
  /\ groups \subseteq GroupType
  /\ ws \in [Worker -> WorkerType]
  /\ ts \in [Tenant -> TenantType]
  /\ epoch \in Nat /\ nextAttempt \in Nat /\ nextGeneration \in Nat
  /\ now \in Nat /\ registrations \in Nat
  /\ issued \subseteq DispatchType

(* A request holds a governor reservation exactly while a dispatch of it   *)
(* is in flight and it is not terminal, whichever of run_cycle's rollback, *)
(* a report, expiry, cancel, force_retry or worker_lost ended the dispatch.*)
ReservedIffInFlight ==
  \A r \in Request :
    rs[r].reservation <=> rs[r].inFlight /\ rs[r].lifecycle = "dispatched"

(* The reservations of one cycle's groups are checked one after the other  *)
(* against what earlier cycles left, and never exceed the budget together. *)
WithinBudget == ReservedBytes(Request) <= Budget

(* Admission control: a tenant's outstanding count is the number of its    *)
(* requests that are not terminal, however each one ended, and the tokens  *)
(* of those requests are covered by admitted_tokens, within the limits.    *)
LiveOf(t) == {r \in Request : Live(r) /\ Descriptor[r].tenant = t}

TenantsAccounted ==
  \A t \in Tenant :
    /\ ts[t].outstanding = Cardinality(LiveOf(t))
    /\ ts[t].outstanding <= TenantOutstandingLimit
    /\ UncachedOf(LiveOf(t)) <= ts[t].admitted
    /\ ts[t].admitted <= TenantTokenLimit

(* Every outstanding member of a group is a dispatched request in flight   *)
(* that points back at this group and its worker; so no request is in two  *)
(* groups, and no group is empty.                                          *)
GroupsConsistent ==
  \A g \in groups :
    /\ g.outstanding # {}
    /\ \A r \in g.outstanding :
         /\ rs[r].inFlight /\ rs[r].lifecycle = "dispatched"
         /\ rs[r].group = g.id /\ rs[r].worker = g.worker
    /\ \A h \in groups : h.id = g.id => h = g

(* A worker's busy_units never exceeds its capacity, nor the number of its *)
(* groups that are still outstanding: a unit is freed with every group.    *)
GroupsOn(w) == {g \in groups : g.worker = w}

UnitsAccounted ==
  \A w \in Worker : ws[w].busy <= Capacity[w] /\ ws[w].busy <= Cardinality(GroupsOn(w))

(* However often a dispatch is reported, or a chunk dispatched again after *)
(* a loss, the work of a chunk is applied once in an attempt.              *)
ChunkAppliedOnce ==
  \A d, e \in issued :
    /\ d.credits <= 1
    /\ d.credits > 0 /\ e.credits > 0 /\ d.req = e.req /\ d.attempt = e.attempt
         /\ d.chunk = e.chunk => d = e

(* A completed request had every chunk of its plan executed successfully   *)
(* in its last attempt.                                                    *)
CompletedMeansExecuted ==
  \A r \in Request : rs[r].lifecycle = "completed" =>
    \A i \in 0 .. Uncached(r) : Pending(r, i) =>
      \E d \in issued : /\ d.req = r /\ d.attempt = rs[r].attempt /\ d.chunk = i
                        /\ d.credits = 1 /\ d.outcome = "success"

(* completed_uncached is the size of the chunks before the current one, or *)
(* also of the current one when it was applied; so it ends at the whole    *)
(* uncached suffix, and remaining_tokens_locked never wraps around.        *)
TokensAccounted ==
  \A r \in Request : Known(r) =>
    LET s == rs[r]
        done == s.chunk * Size(r)
    IN  /\ s.completed \in {done, Lower(done + Size(r), Uncached(r))}
        /\ s.completed <= Uncached(r)
        /\ s.lifecycle = "queued" \/ (s.lifecycle = "dispatched" /\ s.inFlight) => s.completed = done
        /\ s.lifecycle = "completed" => s.completed = Uncached(r)

(* A terminal request never changes lifecycle, attempt or progress again,  *)
(* whatever late report, cancellation, retry, loss or sweep follows.       *)
TerminalIsFinal ==
  [][\A r \in Request : rs[r].lifecycle \in Terminal =>
       /\ rs'[r].lifecycle = rs[r].lifecycle
       /\ rs'[r].attempt = rs[r].attempt /\ rs'[r].completed = rs[r].completed]_vars

(* An acknowledged cancellation is not forgotten by a retry, a worker loss *)
(* or another dispatch: the request stays marked until it ends, and it     *)
(* does not end completed.                                                 *)
CancelIsKept ==
  [][\A r \in Request : Live(r) /\ rs[r].cancelPending =>
       \/ rs'[r].lifecycle \in {"queued", "dispatched"} /\ rs'[r].cancelPending
       \/ rs'[r].lifecycle \in Terminal \ {"completed"}]_vars

(* No cycle dispatches a request whose deadline has passed, or that has    *)
(* waited longer than its queue delay allows: the sweep comes first.       *)
NoLateDispatch ==
  [][\A r \in Request : ~rs[r].inFlight /\ rs'[r].inFlight => ~Overdue(r)]_vars

(* Several requests are packed into one group only when they share the     *)
(* compatibility key and together respect the limits on members, tokens    *)
(* and compute.                                                            *)
GroupsWithinLimits ==
  \A g \in groups : Cardinality(g.outstanding) > 1 =>
    /\ \A q, r \in g.outstanding : CompatKey(q) = CompatKey(r)
    /\ Cardinality(g.outstanding) <= MaxRequestsPerGroup
    /\ TokensIn(g.outstanding) <= MaxTokensPerGroup
    /\ ComputeIn(g.outstanding) <= MaxComputePerGroup

(* Every admitted request reaches a terminal lifecycle: retries, losses    *)
(* and cancellations never leave it queued or dispatched for ever.         *)
EveryRequestEnds ==
  \A r \in Request : Known(r) ~> rs[r].lifecycle \in Terminal

(* A group is dispatched only to a worker that accepts its members.        *)
GroupsOnAcceptingWorkers ==
  \A g \in groups : \A r \in g.outstanding : Accepts(g.worker, r)
=============================================================================
