\* Two requests at a time, over the turn of a minute; reads may fail and requests die.
CONSTANTS
  Slot = {s1, s2}
  Key = {k1}
  Horizon = 2
  Window <- MinuteAndDay
  StartOf <- Calendar
  Profile <- Pilot
  DefaultProfile <- Generous
  Faults <- AnyFault
SYMMETRY Symmetry
CHECK_DEADLOCK FALSE
SPECIFICATION Spec
INVARIANTS TypeOK BoundedExcess LedgerWithinEvents
PROPERTIES RefusedForRows
