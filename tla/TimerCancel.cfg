\* One timer, cancelled before handleRead() takes it.
SPECIFICATION Spec
CONSTANTS
  Timers = {a}
  Repeating = {}
  Interval = 2
  Horizon = 3
  MaxTime = 6
  MaxSteps = 0
  MaxCalls = 1
PROPERTY CancelledNeverFires
CHECK_DEADLOCK FALSE
