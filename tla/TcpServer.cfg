\* No pool and a pool of two; three clients compete with another thread for
\* two descriptors and the idle one.
SPECIFICATION FairSpec
CONSTANTS
  ThreadNums = {0, 2}
  MaxLoop = 2
  MaxFd = 3
  MaxClients = 3
  MaxOthers = 1
INVARIANTS FdOwnership FaultsOnlyAtShutdown
PROPERTIES BacklogDrains ClosedIsFreed
CHECK_DEADLOCK FALSE
