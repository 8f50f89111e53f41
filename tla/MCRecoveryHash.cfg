\* state_hash falls behind the row it should be the hash of.
CONSTANTS
  Null = Null
  Worker = {w1, w2}
  MaxAttempts = 2
  Requests <- AllRequests
  LeaseDuration = 2
  MaxClock = 2
  MaxLeases = 2
SYMMETRY WorkerSymmetry
SPECIFICATION Spec
INVARIANT HashCurrent
