\* Two processors look one variable object up.
SPECIFICATION Spec
CONSTANTS
  p1 = p1
  p2 = p2
  outer = outer
  in1 = in1
  in2 = in2
  x = x
  y = y
  v = v
  Global = Global
  Arg = Arg
  Unassigned = Unassigned
  Unbound = Unbound
  Junk = Junk
  Procs <- TwoProcs
  Frames <- ThreeFrames
  Chain <- Nesting
  Code <- Lambda
  Formals <- Parameters
  Names <- TwoNames
  Values = {v, Unassigned}
  Calls <- BothLook
  MaxCalls = 1
  Chunk = 1
  MaxFull = 0
INVARIANT CallsFindTheirBinding
