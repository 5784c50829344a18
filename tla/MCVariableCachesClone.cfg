\* One processor that caches and defines.
SPECIFICATION Spec
CONSTANTS
  p1 = p1
  p2 = p2
  outer = outer
  inner = inner
  look = look
  put = put
  again = again
  call1 = call1
  call2 = call2
  one = one
  two = two
  Global = Global
  Unassigned = Unassigned
  Unbound = Unbound
  NoBinding = NoBinding
  Procs <- TwoProcs
  Frames <- TwoFrames
  Chain <- Nesting
  Refs <- Callers
  EnvOf <- TwoBlocks
  KindOf <- TwoPuts
  Initial <- GlobalOnly
  Values = {one, two}
  Region <- Memory
  Ops <- OneOnly
  MaxOps <- FiveAndTwo
  MaxFull = 0
INVARIANT AssignmentsSeeOperators
