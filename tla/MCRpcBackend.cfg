CONSTANTS
  g1 = g1
  d1 = d1
  w1 = w1
  w2 = w2
  t1 = t1
  con1 = con1
  n1 = n1
  n2 = n2
  p1 = p1
  p2 = p2
  None = None
  Gets = {g1}
  Deletes = {d1}
  Puts = {w1, w2}
  Con = con1
  TaskOf <- SomeCalls
  Tasks = {t1}
  Chans = {n1, n2}
  Promises = {p1, p2}
  MaxReports = 1
  MaxSends = 2
  Slow = {w1}
  MayCancel = TRUE
SPECIFICATION FairSpec
INVARIANTS
  TypeOK
  ConsumerKeepsItsChannel
  EndLeavesNone
  PutsSurvive
PROPERTIES
  EverybodyEnds
  ImplementsService
CHECK_DEADLOCK FALSE
