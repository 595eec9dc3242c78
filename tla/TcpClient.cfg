\* The build without assert().
SPECIFICATION FairSpec
CONSTANTS
  MaxSock = 4
  kInitRetryDelayMs = 500
  kMaxRetryDelayMs = 1500
  Asserts = FALSE
  MaxCalls = 3
INVARIANTS SocketsOwned OneAtATime FaultsExplained
PROPERTIES StopEndsAttempt ConnectReaches
CHECK_DEADLOCK FALSE
