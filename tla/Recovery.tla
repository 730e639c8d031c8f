------------------------------- MODULE Recovery -------------------------------
(***************************************************************************)
(* Persistence and recovery: PrefillScheduler::persist exports a snapshot  *)
(* under the lock and writes it to a file outside the lock; the process    *)
(* dies at any moment; a fresh scheduler recovers from the file            *)
(* (src/core/persistence.cpp, export_state and import_state of             *)
(* src/core/scheduler.cpp).                                                *)
(*                                                                         *)
(* The snapshot does not hold the whole PrefillRequest.  What is missing   *)
(* gets its default value, so after the recovery the scheduler works with  *)
(* other descriptors: module Scheduler is used twice, as it is for the     *)
(* first life and as Second for the life after the recovery.               *)
(*                                                                         *)
(* The drivers and workers of the first life report nothing to the second: *)
(* the in-process driver dies with the scheduler, and the workers'         *)
(* connections are closed.                                                 *)
(***************************************************************************)
EXTENDS Scheduler

CONSTANTS       \* bounds of the model
  FirstGenerations,  \* dispatches the first life may make
  FirstAttempts,     \* attempts it may start
  MaxAttempts        \* attempts that both may start before failures stop

ASSUME RecoveryAssumption == AnyBackend \in STRING

VARIABLES
  life,      \* 1, or 2 after the restart
  file,      \* what the state file holds
  writing,   \* the snapshot that FilePersistence::save is writing
  executed,  \* history: <<request, attempt, token>> for every applied success
  earlier    \* history: the dispatches of the first life that the file knows of

persistVars == <<life, file, writing, executed, earlier>>
recoveryVars == <<vars, persistVars>>

Missing == [kind |-> "missing"]   \* no file, or no snapshot being written
Torn    == [kind |-> "torn"]      \* opened, and so truncated, but not complete

DefaultMaxRetries == 2   \* PrefillRequest::max_retries

(* What is left of a request in PersistedRequestRecord: the estimates, the *)
(* backend and the retry budget are not written.                           *)
Reload(d) == [d EXCEPT !.compute = 0, !.memory = 0, !.backend = AnyBackend,
                       !.maxRetries = DefaultMaxRetries]

Reloaded == [r \in Request |-> Reload(Descriptor[r])]

(* SchedulerProofs is Scheduler together with what is proved of it.        *)
Second == INSTANCE SchedulerProofs WITH Descriptor <- Reloaded

(* The records of export_state.  Of a request's progress only the start of *)
(* the next chunk is kept; the retries used, a pending cancellation, the   *)
(* reservation and the group are not.  A tenant's admitted tokens are not. *)
SavedRequest(r) ==
  [lifecycle |-> rs[r].lifecycle, attempt |-> rs[r].attempt, gen |-> rs[r].gen,
   admitTime |-> rs[r].admitTime,
   start |-> IF Pending(r, rs[r].chunk) THEN ChunkStart(Size(r), rs[r].chunk) ELSE Uncached(r)]

SavedWorker(w) == [state |-> ws[w].state, boot |-> ws[w].boot]

SavedTenant(t) == ts[t].outstanding

(* The field executed is history, not in the file.                         *)
Snapshot ==
  [kind     |-> "snapshot",
   requests |-> [r \in {q \in Request : Known(q)} |-> SavedRequest(r)],
   workers  |-> [w \in Worker |-> SavedWorker(w)],
   tenants  |-> [t \in Tenant |-> SavedTenant(t)],
   epoch    |-> epoch, nextGeneration |-> nextGeneration, nextAttempt |-> nextAttempt,
   executed |-> executed]

(* Mutant: the chunk index is kept instead of the token it starts at.      *)
IndexKept(r, start) == start \div Size(r)

(* index_for_token_start in the new plan: the chunk that starts there, or  *)
(* the first one if there is none.                                         *)
IndexForTokenStart(r, start) ==
  LET at == {i \in 0 .. start : Second!Pending(r, i) /\ ChunkStart(Second!Size(r), i) = start}
  IN  IF at = {} THEN 0 ELSE CHOOSE i \in at : TRUE

ChunkCount(r) == Cardinality({i \in 0 .. Uncached(r) : Second!Pending(r, i)})

(* Mutant: work that was out at the crash stays dispatched.                *)
ImportedAsSaved(r, rec) ==
  [Absent EXCEPT !.lifecycle = rec.lifecycle, !.attempt = rec.attempt, !.gen = rec.gen,
                 !.admitTime = rec.admitTime, !.chunk = IndexForTokenStart(r, rec.start)]

(* One request of import_state: planned again, and queued if it was out.   *)
Imported(r, rec) ==
  LET out == rec.lifecycle = "dispatched" IN
  [Absent EXCEPT
     !.lifecycle = IF out THEN "queued" ELSE rec.lifecycle,
     !.attempt   = rec.attempt,
     !.gen       = IF out THEN 0 ELSE rec.gen,
     !.admitTime = rec.admitTime,
     !.chunk     = IF rec.start >= Uncached(r) THEN ChunkCount(r) ELSE IndexForTokenStart(r, rec.start),
     !.completed = IF rec.start >= Uncached(r) THEN Uncached(r) ELSE 0]

(* Mutant: what the records of the tenants say is added to what the        *)
(* requests amount to.                                                     *)
ImportedTenantsTwice(snap) ==
  [t \in Tenant |->
     [outstanding |-> snap.tenants[t] +
        Cardinality({r \in DOMAIN snap.requests :
                       Descriptor[r].tenant = t /\ snap.requests[r].lifecycle \notin Terminal}),
      admitted |-> 0]]

(* The accounts are first rebuilt from the requests and then replaced by   *)
(* the tenants' records, which have no admitted_tokens.                    *)
ImportedTenants(snap) == [t \in Tenant |-> [outstanding |-> snap.tenants[t], admitted |-> 0]]

(* Mutant: the counters start again at one.                                *)
CountersRestarted(snap) == nextGeneration' = 1 /\ nextAttempt' = 1

(* A fresh scheduler's counters are at one, never above the saved ones.    *)
Counters(snap) == nextGeneration' = snap.nextGeneration /\ nextAttempt' = snap.nextAttempt

(* import_state into a fresh scheduler.                                    *)
ImportState(snap) ==
  /\ rs' = [r \in Request |-> IF r \in DOMAIN snap.requests THEN Imported(r, snap.requests[r])
                                                            ELSE Absent]
  /\ groups' = {}
  /\ ws' = [w \in Worker |-> [state |-> snap.workers[w].state, boot |-> snap.workers[w].boot, busy |-> 0]]
  /\ ts' = ImportedTenants(snap)
  /\ epoch' = snap.epoch
  /\ Counters(snap)
  /\ executed' = snap.executed

RecoveryInit ==
  /\ Init
  /\ life = 1 /\ file = Missing /\ writing = Missing /\ executed = {} /\ earlier = {}

(* persist: the snapshot is taken, and opening the file truncates it.      *)
Persist ==
  /\ life = 1 /\ writing = Missing
  /\ writing' = Snapshot
  /\ file' = Torn
  /\ UNCHANGED <<vars, life, executed, earlier>>

(* FilePersistence::save has written everything.                           *)
SaveDone ==
  /\ life = 1 /\ writing # Missing
  /\ file' = writing
  /\ writing' = Missing
  /\ UNCHANGED <<vars, life, executed, earlier>>

(* FilePersistence::load and deserialize_state: a missing file, or one     *)
(* that ends before its declared length, is refused.                       *)
Loads == file \notin {Missing, Torn}

(* The process dies.  A fresh one recovers from the file, or, if the file  *)
(* is refused, starts with nothing.                                        *)
Restarted ==
  /\ life = 1 /\ life' = 2
  /\ writing' = Missing
  /\ earlier' = {[d EXCEPT !.credits = 0, !.outcome = "none"] :
                   d \in {e \in issued : Loads /\ e.gen < file.nextGeneration}}
  /\ issued' = {}
  /\ file' = Missing   \* it is not read again: forgotten
  /\ UNCHANGED <<now, registrations>>

Recover ==
  /\ Restarted
  /\ Loads
  /\ ImportState(file)

StartEmpty ==
  /\ Restarted
  /\ ~Loads
  /\ rs' = [r \in Request |-> Absent] /\ groups' = {}
  /\ ws' = [w \in Worker |-> IF w = 0 THEN [state |-> "ready", boot |-> 1, busy |-> 0]
                                      ELSE [state |-> "unknown", boot |-> 0, busy |-> 0]]
  /\ ts' = [t \in Tenant |-> [outstanding |-> 0, admitted |-> 0]]
  /\ epoch' = 1 /\ nextGeneration' = 1 /\ nextAttempt' = 1 /\ executed' = {}

(* The tokens of a chunk that was executed.                                *)
TokensOf(d, start, n) == {<<d.req, d.attempt, t>> : t \in start .. (start + n - 1)}

(* The first life.                                                         *)
FirstSuccess(d) ==
  /\ Authoritative(d, Stamp(d)) /\ ReportSuccess(d)
  /\ executed' = executed \cup TokensOf(d, ChunkStart(Size(d.req), d.chunk), Tokens(d.req, d.chunk))
  /\ UNCHANGED <<life, file, writing, earlier>>

FirstLife ==
  /\ life = 1
  /\ \/ \E d \in issued : FirstSuccess(d)
     \/ /\ \/ \E r \in Request : Submit(r) \/ ForceRetry(r)
           \/ RunCycle
        /\ nextGeneration' <= FirstGenerations + 1 /\ nextAttempt' <= FirstAttempts + 1
        /\ UNCHANGED persistVars

(* The second life.  A request that was not saved is submitted again only  *)
(* if its descriptor is one that Second uses.                              *)
SecondSuccess(d) ==
  /\ Second!Authoritative(d, Stamp(d)) /\ Second!ReportSuccess(d)
  /\ executed' = executed \cup TokensOf(d, ChunkStart(Second!Size(d.req), d.chunk),
                                        Second!Tokens(d.req, d.chunk))
  /\ UNCHANGED <<life, file, writing, earlier>>

SecondFailure(d) ==
  /\ nextAttempt <= MaxAttempts
  /\ Second!Authoritative(d, Stamp(d)) /\ Second!ReportRetryable(d)
  /\ UNCHANGED persistVars

SecondCycle == life = 2 /\ Second!RunCycle /\ UNCHANGED persistVars

SecondReport(d) == life = 2 /\ (SecondSuccess(d) \/ SecondFailure(d))

SecondLife ==
  \/ SecondCycle
  \/ \E d \in issued : SecondReport(d)
  \/ /\ life = 2
     /\ \E r \in Request : Reloaded[r] = Descriptor[r] /\ Second!Submit(r)
     /\ UNCHANGED persistVars

RecoveryNext == FirstLife \/ Persist \/ SaveDone \/ Recover \/ StartEmpty \/ SecondLife

RecoverySpec == RecoveryInit /\ [][RecoveryNext]_recoveryVars

(* After the restart cycles keep running and every dispatch is reported,   *)
(* as in the orderly system of module Scheduler.                           *)
RecoveryFairSpec ==
  /\ RecoverySpec
  /\ WF_recoveryVars(SecondCycle)
  /\ \A r \in Request : WF_recoveryVars(\E d \in issued : d.req = r /\ SecondReport(d))

-----------------------------------------------------------------------------
(* A completed request had every uncached token executed successfully in   *)
(* its last attempt, where work of the first life counts only if the       *)
(* snapshot knew of it: import_state may plan other chunks than the ones   *)
(* that were executed, and still skips no token.                           *)
CompletedMeansCovered ==
  \A r \in Request : rs[r].lifecycle = "completed" =>
    \A t \in 0 .. (Uncached(r) - 1) : <<r, rs[r].attempt, t>> \in executed

(* docs/persistence.md: late completions are stale.  No dispatch that was  *)
(* made before the snapshot can be reported with effect after the          *)
(* recovery, whatever the new scheduler has dispatched since.              *)
SavedDispatchesAreStale ==
  \A d \in earlier : ~Second!Authoritative(d, Stamp(d))

(* A tenant's outstanding count is the number of its live requests, also   *)
(* when both the requests and the count itself come from a file.           *)
OutstandingSurvives ==
  \A t \in Tenant : ts[t].outstanding = Cardinality(LiveOf(t))

(* Whatever state the crash caught a request in, after the restart it ends.*)
RecoveredRequestsEnd ==
  \A r \in Request : (life = 2 /\ Known(r)) ~> rs[r].lifecycle \in Terminal

(* README.md: admission enforces per-tenant token limits.  The live        *)
(* requests of a tenant never ask for more tokens than its limit.          *)
TokenLimitEnforced ==
  \A t \in Tenant : UncachedOf(LiveOf(t)) <= TenantTokenLimit
=============================================================================
