\* Three ids, sizes 0..2 and capacities that the headroom exceeds, that fit
\* one reservation, and that fit two.
CONSTANTS
  Id = {1, 2, 3}
  Sizes = {0, 1, 2}
  Capacities = {0, 2, 4, 5}
  Headroom = 1
  Kind = {"reserved", "running"}
SPECIFICATION GovernorSpec
INVARIANTS GovernorTypeOK ReservedIsSumOfActive
PROPERTY GrowthStaysWithinBudget
