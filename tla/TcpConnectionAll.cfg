\* Every call, every failure: what holds in spite of all of them.
SPECIFICATION Spec
CONSTANTS
  Messages = {m1, m2}
  MsgLen = 2
  MaxInbound = 1
  IoCalls = {"send", "shutdown", "forceClose"}
  UserCalls = {"send", "shutdown", "forceClose"}
  UserMayDrop = TRUE
  WriteMayRefuse = TRUE
  ServerMayDie = TRUE
INVARIANTS CallbackOrder NoDanglingChannel WatchesOutput FaultsExplained
CHECK_DEADLOCK FALSE
