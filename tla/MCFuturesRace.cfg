\* A task determined by another one, a heap that gets full, two collections and
\* two preemptions or voluntary reschedules.
SPECIFICATION Spec
CONSTANTS
  p1 = p1
  p2 = p2
  root = root
  a = a
  b = b
  io = io
  None = None
  Procs <- TwoProcs
  F <- FourFutures
  Root <- root
  Spawns <- ForkSpawns
  Delayed = {}
  Touches <- RaceTouches
  Determines <- RaceDetermines
  Keeps <- RaceKeeps
  MaxPreempt = 2
  MaxFull = 1
  MaxCollect = 2
SYMMETRY Symmetry
INVARIANTS LocksExclude OneRunner
