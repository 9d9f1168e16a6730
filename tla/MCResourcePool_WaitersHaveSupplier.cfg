CONSTANTS
  c1 = c1
  c2 = c2
  c3 = c3
  r1 = r1
  r2 = r2
  None = None
  Callers = {c1, c2, c3}
  Closers = {}
  Resources = {r1, r2}
  MaxResources = 2
  CreateMayFail = TRUE
SPECIFICATION Spec
INVARIANT WaitersHaveSupplier
CHECK_DEADLOCK FALSE
SYMMETRY Symmetry
