\* The socket's send buffer is full when sendInLoop() tries to write.
SPECIFICATION Spec
CONSTANTS
  Messages = {m1}
  MsgLen = 2
  MaxInbound = 1
  IoCalls = {"send"}
  UserCalls = {}
  UserMayDrop = FALSE
  WriteMayRefuse = TRUE
  ServerMayDie = FALSE
INVARIANT WireIntact
CHECK_DEADLOCK FALSE
