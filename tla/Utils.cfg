CONSTANTS
  t1 = t1  t2 = t2
  Sections <- TwoSections
  Keys <- TwoKeys
  Values = {1, 2}
  MaxLines = 3
  MaxWrites = 3
  LogThreads <- TwoThreads
  Levels <- InfoErrorAndOff
  MaxLogs = 3
  MaxChanges = 2
SPECIFICATION Spec
INVARIANTS ReadsLastWrite SinksInOrder OneLateLine
CHECK_DEADLOCK FALSE
