\* Concurrent callers with one operation and one source.
CONSTANTS
  Null = Null
  o1 = o1
  o2 = o2
  Worker = {w1, w2}
  Operation = {o1, o2}
  Source <- AllSources
  Requests <- SameRequest
  Direct <- GenesisOnly
  PageSize = 2
  MaximumEntries = 3
SPECIFICATION Spec
INVARIANT ConcurrentCallersResolve
