CONSTANTS
  l1 = l1
  cache = cache
  inner = inner
  bucket = bucket
  plain = plain
  nested = nested
  map = map
  n1 = n1
  n2 = n2
  n3 = n3
  Lists = {l1, cache}
  Stale = Stale
  Temp = Temp
  Nodes <- MCPlainNodes
  Nil = Nil
  OwnedList <- MCNoneOwned
  MapNodes = {}
  Cache = cache
  Positions <- MCBackPositions
  Strides <- MCStrides
  RemoveNested = FALSE
  MaxCalls = 6
  MaxInexact = 3
SPECIFICATION Spec
SYMMETRY MCPlainSymmetry
INVARIANTS
  LengthsRight
  StridesMoved
