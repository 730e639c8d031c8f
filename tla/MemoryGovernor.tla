---------------------------- MODULE MemoryGovernor ----------------------------
(***************************************************************************)
(* The memory governor (include/prefillfabric/memory.hpp): a budget of     *)
(* bytes, a running total of what is reserved, and one record per          *)
(* reservation id.  Every method takes the governor's mutex, so each is    *)
(* one step; callers may issue them in any order, repeat a release or      *)
(* release an id that was never reserved.  The scheduler is one such       *)
(* caller: it reserves a fresh id per dispatched member and releases it    *)
(* once.  A method that returns an error changes nothing and is not a step.*)
(***************************************************************************)
EXTENDS Integers, Functions

CONSTANTS Id,         \* ReservationId values
          Sizes,      \* byte counts callers ask for
          Capacities, \* values passed to the constructor and set_capacity
          Headroom,   \* headroom_
          Kind        \* ReservationKind values

ASSUME GovernorAssumption ==
  /\ Sizes \subseteq Nat
  /\ Capacities \subseteq Nat
  /\ Headroom \in Nat
  /\ Kind # {}

VARIABLES max,         \* max_bytes_
          reserved,    \* reserved_
          active,      \* ids whose record is active
          bytes,       \* bytes of each record, 0 when it is not active
          kind,        \* lifecycle stage of each record
          underflowed  \* the underflow flag

governorVars == <<max, reserved, active, bytes, kind, underflowed>>

Budget == IF max > Headroom THEN max - Headroom ELSE 0

Available == IF reserved > Budget THEN 0 ELSE Budget - reserved

GovernorInit ==
  /\ max \in Capacities
  /\ reserved = 0
  /\ active = {}
  /\ bytes = [i \in Id |-> 0]
  /\ kind \in [Id -> {CHOOSE k \in Kind : TRUE}]
  /\ underflowed = FALSE

(* Mutants: an active id is reserved again, or the headroom is forgotten.  *)
ReserveAgain(i, b, k) ==
  /\ b = 0 \/ (reserved <= Budget /\ Budget - reserved >= b)
  /\ reserved' = reserved + b
  /\ active' = active \cup {i}
  /\ bytes' = [bytes EXCEPT ![i] = b]
  /\ kind' = [kind EXCEPT ![i] = k]
  /\ UNCHANGED <<max, underflowed>>

ReserveFromMax(i, b, k) ==
  /\ i \notin active
  /\ b = 0 \/ reserved + b <= max
  /\ reserved' = reserved + b
  /\ active' = active \cup {i}
  /\ bytes' = [bytes EXCEPT ![i] = b]
  /\ kind' = [kind EXCEPT ![i] = k]
  /\ UNCHANGED <<max, underflowed>>

(* reserve: an active id is refused; a request for no bytes is recorded    *)
(* without touching the total, whatever the budget.                        *)
Reserve(i, b, k) ==
  /\ i \notin active
  /\ b = 0 \/ (reserved <= Budget /\ Budget - reserved >= b)
  /\ reserved' = reserved + b
  /\ active' = active \cup {i}
  /\ bytes' = [bytes EXCEPT ![i] = b]
  /\ kind' = [kind EXCEPT ![i] = k]
  /\ UNCHANGED <<max, underflowed>>

(* transition: promote an active reservation to another stage.             *)
Transition(i, k) ==
  /\ i \in active
  /\ kind' = [kind EXCEPT ![i] = k]
  /\ UNCHANGED <<max, reserved, active, bytes, underflowed>>

(* Mutant: a second release subtracts the bytes again.                     *)
ReleaseAgain(i) ==
  /\ reserved' = reserved - bytes[i]
  /\ active' = active \ {i}
  /\ UNCHANGED <<max, bytes, kind, underflowed>>

(* release: a release of an id that is not active is only counted, so it   *)
(* is not a step.                                                          *)
Release(i) ==
  /\ i \in active
  /\ reserved' = IF reserved < bytes[i] THEN 0 ELSE reserved - bytes[i]
  /\ underflowed' = (underflowed \/ (bytes[i] > 0 /\ reserved < bytes[i]))
  /\ active' = active \ {i}
  /\ bytes' = [bytes EXCEPT ![i] = 0]
  /\ UNCHANGED <<max, kind>>

(* set_capacity: may fall below what is already reserved.                  *)
SetCapacity(c) ==
  /\ max' = IF c < Headroom THEN Headroom ELSE c
  /\ UNCHANGED <<reserved, active, bytes, kind, underflowed>>

GovernorNext ==
  \/ \E i \in Id, b \in Sizes, k \in Kind : Reserve(i, b, k)
  \/ \E i \in Id, k \in Kind : Transition(i, k)
  \/ \E i \in Id : Release(i)
  \/ \E c \in Capacities : SetCapacity(c)

GovernorSpec == GovernorInit /\ [][GovernorNext]_governorVars

-----------------------------------------------------------------------------

(* The counters stay natural numbers: no release wraps the total around.   *)
GovernorTypeOK ==
  /\ max \in Nat
  /\ reserved \in Nat
  /\ active \subseteq Id
  /\ bytes \in [Id -> Nat]
  /\ kind \in [Id -> Kind]
  /\ underflowed \in BOOLEAN

(* The total is exactly what the active records hold, after any sequence   *)
(* of reserves, repeated releases and capacity changes; so a release can   *)
(* never find less reserved than the record holds.                         *)
ReservedIsSumOfActive ==
  /\ reserved = SumFunctionOnSet(bytes, active)
  /\ ~underflowed

(* A capacity that was lowered under the reservations in force never lets  *)
(* a further byte out: the total only grows to within the budget, and the  *)
(* excess can only drain.                                                  *)
GrowthStaysWithinBudget ==
  [][reserved' > reserved => reserved' <= Budget']_governorVars
=============================================================================
