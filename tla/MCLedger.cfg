\* Two calls at a time over a ledger of up to four entries.
CONSTANTS
  Null = Null
  o1 = o1
  o2 = o2
  Worker = {w1, w2}
  Operation = {o1, o2}
  Source <- AllSources
  Requests <- AllRequests
  Direct <- GenesisOnly
  PageSize = 2
  MaximumEntries = 3
SYMMETRY WorkerSymmetry
SPECIFICATION Spec
INVARIANTS TypeOK ChainCommits ConfirmedIsPersisted PersistedIsReported NoFalseAlarm OneAnswer
PROPERTY ImplementsLog
