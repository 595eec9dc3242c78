\* The base loop and a loop in a thread of its own.  It ends when joined.
SPECIFICATION SpecThread
CONSTANTS
  Threads = {t1, t2}
  Functors = {f1, f2}
  Channels = {c1}
  WakeupChannel = wakeupChannel
  EventFdMax = 2
  Owner = t1
INVARIANTS TypeOK NothingLost NoLostWakeup NoLostQuit LoopOutlivesUse
PROPERTIES PostedRuns SerialExecutor StartLoopReturns JoinReturns
CHECK_DEADLOCK FALSE
