\* Five operations of one processor while another one caches; a full heap.
SPECIFICATION Spec
CONSTANTS
  p1 = p1
  p2 = p2
  outer = outer
  inner = inner
  look = look
  put = put
  again = again
  call1 = call1
  call2 = call2
  one = one
  two = two
  Global = Global
  Unassigned = Unassigned
  Unbound = Unbound
  NoBinding = NoBinding
  Procs <- TwoProcs
  Frames <- TwoFrames
  Chain <- Nesting
  Refs <- FourRefs
  EnvOf <- Blocks
  KindOf <- Uses
  Initial <- GlobalOnly
  Values = {one, two}
  Region <- Memory
  Ops <- OneChanges
  MaxOps <- FiveAndTwo
  MaxFull = 1
INVARIANTS TypeOK CachesFollowScope OperatorsAreCurrent AssignmentsSeeOperators ReferencesAreListed
