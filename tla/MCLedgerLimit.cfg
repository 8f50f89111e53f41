\* One caller at a time, and a chain that outgrows maximumEntries.
CONSTANTS
  Null = Null
  o1 = o1
  o2 = o2
  Worker = {w1}
  Operation = {o1, o2}
  Source <- AllSources
  Requests <- AllRequests
  Direct <- GenesisOnly
  PageSize = 2
  MaximumEntries = 1
SPECIFICATION Spec
INVARIANT PersistenceMayHaveOccurred
