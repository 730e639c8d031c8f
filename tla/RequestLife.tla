----------------------------- MODULE RequestLife -----------------------------
(***************************************************************************)
(* What the scheduler promises of each request, whatever its groups,       *)
(* workers, epochs and reports do: it is admitted once; its chunks are     *)
(* applied in order, from the first one again after each of a bounded      *)
(* number of retries; it ends once; it is completed only when all its      *)
(* chunks have been applied, and never after a cancellation was            *)
(* acknowledged.                                                           *)
(***************************************************************************)
EXTENDS Naturals

CONSTANTS
  Request,
  Chunks,   \* chunks in the plan of each request
  Retries   \* its max_retries

VARIABLE
  life      \* of each request: its phase ("absent", "live" or how it ended),
            \* the chunks applied in the current attempt, the attempts after
            \* the first, and whether it runs with an acknowledged cancellation

Unborn == [phase |-> "absent", done |-> 0, retried |-> 0, marked |-> FALSE]

Init == life = [r \in Request |-> Unborn]

Admit(r) ==
  /\ life[r].phase = "absent"
  /\ life'[r] = [life[r] EXCEPT !.phase = IF Chunks[r] = 0 THEN "completed" ELSE "live"]

Apply(r) ==
  LET done == life[r].done + 1 IN
  /\ life[r].phase = "live" /\ ~life[r].marked
  /\ life'[r] = [life[r] EXCEPT !.done = done,
                                !.phase = IF done = Chunks[r] THEN "completed" ELSE "live"]

Retry(r) ==
  /\ life[r].phase = "live" /\ life[r].retried < Retries[r]
  /\ life'[r] = [life[r] EXCEPT !.done = 0, !.retried = @ + 1]

Mark(r) ==
  /\ life[r].phase = "live"
  /\ life'[r] = [life[r] EXCEPT !.marked = TRUE]

End(r, how) ==
  /\ life[r].phase = "live"
  /\ life'[r] = [life[r] EXCEPT !.phase = how, !.marked = FALSE]

(* One step of the scheduler may move several requests.                    *)
Next ==
  \A r \in Request :
    \/ life'[r] = life[r]
    \/ Admit(r) \/ Apply(r) \/ Retry(r) \/ Mark(r)
    \/ \E how \in {"cancelled", "expired", "failed_non_retryable"} : End(r, how)

Spec == Init /\ [][Next]_life
=============================================================================
