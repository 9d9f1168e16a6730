CONSTANTS
  k1 = k1
  k2 = k2
  p1 = p1
  p2 = p2
  p3 = p3
  p4 = p4
  None = None
  Keys = {k1, k2}
  Promises = {p1, p2, p3, p4}
  Values = {"value", "thenable"}
  HasTimeout = TRUE
  Uses = {"delete", "clear", "rejectAll", "pending", "settled"}
  MaxStale = 1
SYMMETRY Symmetry
SPECIFICATION Spec
INVARIANTS
  TypeOK
  NoStrandedGetter
  TimerIffSettled
