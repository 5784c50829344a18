\* Two collections by two processors.
SPECIFICATION FairSpec
CONSTANTS
  p1 = p1
  p2 = p2
  a = a
  b = b
  c = c
  d = d
  e = e
  w = w
  None = None
  Procs <- TwoProcs
  Obj <- SixObjects
  Fields <- SixFields
  WeakCar <- SixWeak
  Roots <- TwoRoots
  Size <- SixSizes
  Vectors <- TwoVectors
  Quantum = 6
  Buffer = 3
  MaxIndex = 9
  QueueMax = 10
  MaxRounds = 2
INVARIANTS TypeOK AllIsScanned WeakPairsAreRight MovesComeLast SchemeSeesTheNewHeap
PROPERTIES CollectionsEnd
