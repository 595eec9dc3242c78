SPECIFICATION FairSpec
CONSTANTS
  Size = 4
  Lengths = {1, 3}
  MaxLines = 4
  rollSize_ = 3
  flushInterval_ = 0
  checkEveryN_ = 2
  kRollPerSeconds_ = 2
  MaxTime = 3
  localtime <- SummerTimeEnds
INVARIANTS NoLineLost NoNullBuffer FilesRoll
PROPERTIES LineIsFlushed StopReturns
CHECK_DEADLOCK FALSE
