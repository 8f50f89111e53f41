\* One worker cannot begin its transaction; nothing else fails.
CONSTANTS
  Null = Null
  Worker = {wA, wB}
  Replay = {r1}
  Faults <- ConnectFault
CHECK_DEADLOCK FALSE
SPECIFICATION Spec
PROPERTIES TemporaryRecordsRemoved
