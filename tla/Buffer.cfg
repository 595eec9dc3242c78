SPECIFICATION Spec
CONSTANTS
  Bytes = {0, 1}
  Zero = 0
  kCheapPrepend = 2
  InitialSize = 2
  ExtraSize = 2
  MaxReadable = 5
INVARIANTS AssertsHold SpaceBounded
PROPERTY ByteQueueSpec
