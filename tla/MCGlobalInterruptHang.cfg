\* A TEST that finds the heap full.
SPECIFICATION FairSpec
CONSTANTS
  p1 = p1
  p2 = p2
  p3 = p3
  Procs <- TwoProcs
  Levels = {0, 3}
  Rendezvous = {0, 3}
  Conditional = {0}
  Allocates = {"program", "called", "work", "test"}
  MaxCalls = 2
PROPERTIES CallersGetTheLock
