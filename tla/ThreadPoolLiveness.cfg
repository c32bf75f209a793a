CONSTANTS
  t1 = t1  t2 = t2  t3 = t3  s1 = s1  s2 = s2  noTask = noTask
  NoTask <- noTask
  Tasks <- TwoTasks
  Stoppers <- OneStopper
  WorkerCount = 0
  HardwareConcurrency = 2
SPECIFICATION Spec
PROPERTIES ImplementsExecutor AcceptedTasksComplete OwnerCallsReturn
