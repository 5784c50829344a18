\* The cell of the code, 16 bits wide: three processors, two interrupts each.
SPECIFICATION FairSpec
CONSTANTS
  p1 = p1
  p2 = p2
  p3 = p3
  Procs <- ThreeProcs
  COMPLETE = 32767
  MaxInterrupts = 2
INVARIANTS NoEarlyRelease StoresAreSafe CountIsMissing LockIsOwned OneOpener
PROPERTIES EveryoneReturns ImplementsBarrier
