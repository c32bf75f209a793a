CONSTANTS
  t1 = t1  t2 = t2  t3 = t3  s1 = s1  s2 = s2  noTask = noTask
  NoTask <- noTask
  Tasks <- ThreeTasks
  Stoppers <- TwoStoppers
  WorkerCount = 3
  HardwareConcurrency = 0
SPECIFICATION SafeSpec
SYMMETRY Symmetry
INVARIANTS TypeOK TaskAccounting WorkConserving ShutdownWakesAll ExitsEmpty WaitDrains
PROPERTY ImplementsExecutorSafety
