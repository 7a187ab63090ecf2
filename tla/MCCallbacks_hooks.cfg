CONSTANTS
  n1 = n1
  n2 = n2
  n3 = n3
  n4 = n4
  Hooks = {step, finish}
  Nodes <- MCNodes
  Procs = {method, other, routine}
  Functions = {method, other}
  Stale = Stale
  MayLeave = FALSE
  MaxCalls = 2
SPECIFICATION Spec
SYMMETRY MCSymmetry
INVARIANTS
  CalledInOrder
  ThunksAlive
PROPERTIES
  NoneMissed
