----------------------------- MODULE MCScheduler -----------------------------
(* Instances of Scheduler for TLC.                                         *)
EXTENDS SchedulerLife, TLC

Base ==
  [tenant |-> "t1", prompt |-> 1, cached |-> 0, compute |-> 0, memory |-> 1, key |-> "k1",
   backend |-> "any", deadline |-> None, maxQueueDelay |-> None, priority |-> 0,
   latency |-> 1, maxRetries |-> 0]

(* Two requests that share groups: one of two chunks that may be retried,  *)
(* one of a single chunk.  Worker 1 is remote.                             *)
MixedDescriptor ==
  (1 :> [Base EXCEPT !.prompt = 2, !.maxRetries = 1]) @@ (2 :> Base)

(* Two requests, one of them of two chunks, that never share a group.      *)
PairDescriptor == (1 :> [Base EXCEPT !.prompt = 2, !.key = "k2"]) @@ (2 :> Base)

(* Two requests that always share a group.                                 *)
TwinDescriptor == [r \in Request |-> Base]

(* Workers come and go and epochs roll, while no client intervenes.        *)
WorkersNext ==
  \/ \E r \in Request : Submit(r)
  \/ RunCycle
  \/ \E d \in issued : ReportCompletion(d)
  \/ \E w \in Worker : \/ UnregisterWorker(w) \/ WorkerLost(w)
                       \/ \E boot \in 1 .. MaxRegistrations : RegisterWorker(w, boot)
  \/ AttachExecutor \/ RollEpoch

WorkersSpec == Init /\ [][WorkersNext]_vars

(* Requests that compete for places in groups, workers, memory and time:   *)
(* the first has two chunks and a deadline, the second may wait one tick,  *)
(* the third needs the remote worker and belongs to another tenant.        *)
PackDescriptor ==
  (1 :> [Base EXCEPT !.prompt = 3, !.compute = 3, !.memory = 3, !.deadline = 1]) @@
  (2 :> [Base EXCEPT !.prompt = 2, !.compute = 2, !.maxQueueDelay = 1]) @@
  (3 :> [Base EXCEPT !.tenant = "t2", !.prompt = 2, !.cached = 1, !.backend = "gpu",
                     !.priority = 1])

PackCapacity == [w \in Worker |-> w + 1]
PackBackend  == [w \in Worker |-> IF w = 0 THEN "cpu" ELSE "any"]

(* Clients submit and drivers report success, while time passes.           *)
PackNext ==
  \/ \E r \in Request : Submit(r)
  \/ RunCycle
  \/ \E d \in issued : (\E m \in Reports(d) : Authoritative(d, m)) /\ ReportSuccess(d)
  \/ \E w \in Worker, boot \in 1 .. MaxRegistrations : RegisterWorker(w, boot)
  \/ Tick

PackSpec == Init /\ [][PackNext]_vars

OneUnit == [w \in Worker |-> 1]
AnyCpu  == [w \in Worker |-> "cpu"]
=============================================================================
