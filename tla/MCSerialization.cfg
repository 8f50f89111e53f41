\* The two workers and three replays of the route; every call may fail.  A run
\* ends with its response, and may also stop at the barrier.
CONSTANTS
  Null = Null
  Worker = {wA, wB}
  Replay = {r1, r2, r3}
  Faults <- AnyFault
CHECK_DEADLOCK FALSE
SPECIFICATION Spec
INVARIANTS TypeOK NoLostUpdate ReadBeforeWrite SingleCanonicalRecord PassIsTruthful CleanupCheckMeansClean
PROPERTIES RespondsOnceMet ImplementsSerial
