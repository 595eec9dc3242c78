\* Sends and shutdowns from both threads against a live server.
SPECIFICATION FairSpec
CONSTANTS
  Messages = {m1, m2}
  MsgLen = 2
  MaxInbound = 1
  IoCalls = {"send", "shutdown"}
  UserCalls = {"send", "shutdown"}
  UserMayDrop = FALSE
  WriteMayRefuse = FALSE
  ServerMayDie = FALSE
INVARIANTS WireIntact
PROPERTIES GracefulShutdown PeerCloseEndsConnection ShutdownEndsConnection
CHECK_DEADLOCK FALSE
