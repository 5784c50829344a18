\* A heap that gets full while Put_Work holds its locks.
SPECIFICATION FairSpec
CONSTANTS
  p1 = p1
  p2 = p2
  t1 = t1
  t2 = t2
  t3 = t3
  t4 = t4
  Unfit = {}
  Optional = {}
  NoTask = NoTask
  Procs <- TwoProcs
  Tasks <- TwoTasks
  Prio <- TwoPrios
  MaxPuts = 2
  MaxFull = 1
PROPERTIES MasterDrains
CHECK_DEADLOCK FALSE
