CONSTANTS
  c1 = c1
  c2 = c2
  c3 = c3
  c4 = c4
  d1 = d1
  d2 = d2
  r1 = r1
  r2 = r2
  None = None
  Callers = {c1, c2, c3, c4}
  Closers = {d1, d2}
  Resources = {r1, r2}
  MaxResources = 2
  CreateMayFail = TRUE
SPECIFICATION FairSpec
INVARIANTS
  TypeOK
  Custody
  QueueExact
  WaitersExhausted
  Bounded
  NumInUseExact
PROPERTIES
  NoBarging
  ImplementsContract
  EveryGetServed
  DestroyEnds
CHECK_DEADLOCK FALSE
