\* Two processors that refer, assign and define, at the same time and in nested
\* frames, and a full heap.
SPECIFICATION Spec
CONSTANTS
  p1 = p1
  p2 = p2
  outer = outer
  in1 = in1
  in2 = in2
  x = x
  y = y
  v = v
  Global = Global
  Arg = Arg
  Unassigned = Unassigned
  Unbound = Unbound
  Junk = Junk
  Procs <- TwoProcs
  Frames <- ThreeFrames
  Chain <- Nesting
  Code <- Lambda
  Formals <- Parameters
  Names <- TwoNames
  Values = {v, Unassigned}
  Calls <- BothDefine
  MaxCalls = 2
  Chunk = 1
  MaxFull = 1
INVARIANTS TypeOK ShadowedIsDangerous PathsAreCurrent CallsFindTheirBinding OneBindingEach
