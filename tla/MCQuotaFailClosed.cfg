\* One request; its counts may not be read.
CONSTANTS
  Slot = {s1}
  Key = {k1}
  Horizon = 1
  Window <- MinuteAndDay
  StartOf <- Calendar
  Profile <- Pilot
  DefaultProfile <- Generous
  Faults <- NoAnswer
CHECK_DEADLOCK FALSE
SPECIFICATION Spec
INVARIANTS FailClosed
