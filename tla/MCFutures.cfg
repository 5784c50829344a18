\* Two preemptions or voluntary reschedules and a garbage collection; a heap that
\* is never full.
SPECIFICATION FairSpec
CONSTANTS
  p1 = p1
  p2 = p2
  root = root
  a = a
  b = b
  io = io
  None = None
  Procs <- TwoProcs
  F <- FourFutures
  Root <- root
  Spawns <- ForkSpawns
  Delayed <- OnlyA
  Touches <- ForkTouches
  Determines <- ForkDetermines
  Keeps <- ForkKeeps
  MaxPreempt = 2
  MaxFull = 0
  MaxCollect = 1
INVARIANTS TypeOK RunnableQueuedOnce NoLostWakeup
PROPERTIES TasksFinish LockTakes
