\* Two tasks in one root, the first with two processes, the second with none.
CONSTANTS
  t1 = t1
  t2 = t2
  p = p
  q = q
  r1 = r1
  Tasks <- TwoTasks
  Roots <- OneRoot
  RootOf <- SameRoot
  ProcsOf <- TwoProcesses
  MaxRuns = 1
SPECIFICATION FairSpec
INVARIANT TypeOK
INVARIANT OneMonitor
INVARIANT NeverMissedTwice
PROPERTY FinishedShown
