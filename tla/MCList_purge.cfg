CONSTANTS
  l1 = l1
  cache = cache
  inner = inner
  bucket = bucket
  plain = plain
  nested = nested
  map = map
  n1 = n1
  n2 = n2
  n3 = n3
  Lists <- MCLists
  Stale = Stale
  Temp = Temp
  Nodes <- MCNodes
  Nil = Nil
  OwnedList <- MCOwnedList
  MapNodes <- MCMapNodes
  Cache = cache
  Positions <- MCPositions
  Strides <- MCStrides
  RemoveNested = TRUE
  MaxCalls = 6
  MaxInexact = 0
SPECIFICATION Spec
INVARIANTS ClearsLiveNodes
