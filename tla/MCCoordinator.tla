---------------------------- MODULE MCCoordinator ----------------------------
(* Instances of Coordinator for TLC.                                       *)
EXTENDS Coordinator, TLC

Base ==
  [tenant |-> "t1", prompt |-> 1, cached |-> 0, compute |-> 0, memory |-> 1, key |-> "k1",
   backend |-> "any", deadline |-> None, maxQueueDelay |-> None, priority |-> 0,
   latency |-> 1, maxRetries |-> 0]

(* One request and two processes with one worker id.                       *)
OneDescriptor == [r \in Request |-> Base]
Exact         == [r \in Request |-> {Descriptor[r].prompt}]
SameWorker    == [c \in Conn |-> 1]

(* Two requests that share groups: one that may expire while it runs, one  *)
(* of two chunks that may be retried and whose tokens may be submitted     *)
(* again, one too few.                                                     *)
PairDescriptor ==
  (1 :> [Base EXCEPT !.deadline = 0]) @@ (2 :> [Base EXCEPT !.prompt = 3, !.maxRetries = 1])
ExactOrShort == [r \in Request |-> {Descriptor[r].prompt, Lower(Descriptor[r].prompt, 2)}]

(* Epochs roll and time passes, while no client cancels.                   *)
SubmissionsNext ==
  \/ Start
  \/ \E c \in Conn : Connect(c) \/ ThreadStep(c) \/ ProcessStep(c) \/ ProcessEnds(c)
  \/ ScheduleStep
  \/ \E k \in Client : SubmitRequest(k) \/ \E r \in Request : SubmitTokens(k, r)
  \/ RollEpochCall \/ TimePasses

SubmissionsSpec == NetInit /\ [][SubmissionsNext]_allVars

OneUnit == [w \in Worker |-> 1]
AnyCpu  == [w \in Worker |-> "cpu"]
=============================================================================
