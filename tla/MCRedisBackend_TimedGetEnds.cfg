CONSTANTS
  g1 = g1
  g2 = g2
  d1 = d1
  w1 = w1
  t1 = t1
  t2 = t2
  sub1 = sub1
  n1 = n1
  n2 = n2
  p1 = p1
  p2 = p2
  p3 = p3
  None = None
  Gets = {g1, g2}
  Deletes = {}
  Puts = {}
  Sub = sub1
  TaskOf <- SameTask
  Tasks = {t1}
  Conns = {n1, n2}
  Promises = {p1, p2, p3}
  Statuses = {"success"}
  MaxReports = 1
  SubscribedFirst = TRUE
  GetsTimeOut = TRUE
  EndWhen = "never"
SPECIFICATION TimedSpec
PROPERTY TimedGetEnds
CHECK_DEADLOCK FALSE
