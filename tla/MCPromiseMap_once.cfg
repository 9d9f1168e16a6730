CONSTANTS
  k1 = k1
  k2 = k2
  p1 = p1
  p2 = p2
  p3 = p3
  None = None
  Keys = {k1, k2}
  Promises = {p1, p2, p3}
  Values = {"value"}
  HasTimeout = TRUE
  Uses = {"rejectAll"}
  MaxStale = 0
SPECIFICATION FairSpec
INVARIANT StatusExact
PROPERTIES
  RejectAllLeavesNone
  TimerSparesGetters
  SettledIsEvicted
