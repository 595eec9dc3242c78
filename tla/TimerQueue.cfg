\* Two timers, one of them repeating, and one step of the wall clock.
SPECIFICATION FairSpec
CONSTANTS
  Timers = {a, r}
  Repeating = {r}
  Interval = 2
  Horizon = 3
  MaxTime = 6
  MaxSteps = 1
  MaxCalls = 2
INVARIANTS OwnedOnce AlarmInTime CancelInBatch
PROPERTIES AddedFires
CHECK_DEADLOCK FALSE
