\* The build with assert(): one connect() whose attempt gets its answer.
SPECIFICATION Spec
CONSTANTS
  MaxSock = 4
  kInitRetryDelayMs = 500
  kMaxRetryDelayMs = 1500
  Asserts = TRUE
  MaxCalls = 1
INVARIANTS NoAssertFails
CHECK_DEADLOCK FALSE
