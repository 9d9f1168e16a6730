CONSTANTS
  a1 = a1
  a2 = a2
  a3 = a3
  a4 = a4
  t1 = t1
  t2 = t2
  n1 = n1
  n2 = n2
  None = None
  Configs <- SomeConfigs
  Calls = {a1, a2, a3, a4}
  Tasks = {t1, t2}
  TaskOf <- SomeTasks
  OptionsOf <- SomeOptions
  Chans = {n1, n2}
  Slow = {a2}
  MaxSends = 2
SPECIFICATION FairSpec
INVARIANTS
  TypeOK
  OptionsAsWritten
  WorkersCanRead
  EndWaits
PROPERTIES
  GentleEnd
  BrokerImplementsService
CHECK_DEADLOCK FALSE
