SPECIFICATION FairSpec
CONSTANTS
  c1 = c1
  c2 = c2
  w1 = w1
  w2 = w2
  t1 = t1
  t2 = t2
  t3 = t3
  None = None
  Clients <- TwoClients
  Workers <- TwoWorkers
  Tasks <- ThreeTasks
  MaxSpurious = 1
INVARIANTS
  OnePool
  TaskInOnePlace
  NoIdleWorkerWhileTasksWait
PROPERTIES
  EveryTaskRuns
CHECK_DEADLOCK FALSE
