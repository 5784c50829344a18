\* Two tasks of one priority, one of another and one without; a full heap.
\* Processors that wait for a lock nobody will release are stopped for good.
SPECIFICATION FairSpec
CONSTANTS
  p1 = p1
  p2 = p2
  t1 = t1
  t2 = t2
  t3 = t3
  t4 = t4
  Unfit = {t4}
  Optional = {t1}
  NoTask = NoTask
  Procs <- TwoProcs
  Tasks <- FourTasks
  Prio <- FourPrios
  MaxPuts = 3
  MaxFull = 1
INVARIANTS TypeOK NothingLost LengthIsExact
PROPERTIES ImplementsPriorityQueue QueuedIsTakenWithRoom
CHECK_DEADLOCK FALSE
