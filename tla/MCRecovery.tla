------------------------------ MODULE MCRecovery ------------------------------
(* Instances of Recovery for TLC.                                          *)
EXTENDS Recovery, TLC

(* The first request is executed token by token because of its memory      *)
(* estimate, and in larger chunks once the estimate is lost.  The second   *)
(* is saved as it is.                                                      *)
SavedDescriptor ==
  LET base == [tenant |-> "t1", prompt |-> 1, cached |-> 0, compute |-> 0, memory |-> 0,
               key |-> "k1", backend |-> "any", deadline |-> None, maxQueueDelay |-> None,
               priority |-> 0, latency |-> 1, maxRetries |-> DefaultMaxRetries]
  IN  (1 :> [base EXCEPT !.prompt = 3, !.memory = 3, !.backend = "cpu", !.maxRetries = 1]) @@
      (2 :> base)

OneUnit == [w \in Worker |-> 1]
AnyCpu  == [w \in Worker |-> "cpu"]
=============================================================================
