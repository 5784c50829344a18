\* Rendezvous of two processors at the collector's level and another one, and a
\* WORK that is none; the heap may be found full wherever Scheme code runs.
SPECIFICATION FairSpec
CONSTANTS
  p1 = p1
  p2 = p2
  p3 = p3
  Procs <- TwoProcs
  Levels = {0, 2, 3}
  Rendezvous = {0, 3}
  Conditional = {0}
  Allocates = {"program", "called", "work", "test"}
  MaxCalls = 3
INVARIANTS TypeOK WorkIsForced AcksAreCounted
PROPERTIES ProgramsGoOn HandlersSurvive
