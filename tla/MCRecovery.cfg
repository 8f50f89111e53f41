\* Two workers race over the whole lifecycle of one operation.
CONSTANTS
  Null = Null
  Worker = {w1, w2}
  MaxAttempts = 2
  Requests <- RecoveryRequests
  LeaseDuration = 2
  MaxClock = 3
  MaxLeases = 2
SYMMETRY WorkerSymmetry
CONSTRAINT NoStaleWrite
SPECIFICATION Spec
INVARIANTS TypeOK ExclusiveRecovery FencingToken RecoveryCountExact EvidenceSealed
  ChainIsLawful LeaseStands
PROPERTIES TerminalIsFinal ImplementsLease
