\* One map and four keys: re-indexing between one and four buckets, an index of
\* two, and changes from one to the other.
CONSTANTS
  k1 = k1
  k2 = k2
  k3 = k3
  k4 = k4
  Maps = {m1}
  Keys = {k1, k2, k3, k4}
  Values = {v1}
  Nodes = {n1, n2, n3, n4}
  Void = Void
  Absent = Absent
  Hash <- MCHash
  InitArgs <- MCGrowingOrFixed
SYMMETRY MCSymmetry
SPECIFICATION Spec
INVARIANTS
  TypeOK
  NodesPartitioned
  KeysFindable
  ItemsCounted
  IndexWithinLimits
PROPERTIES
  LoadStaysBounded
  PointersStable
  CachedItemsKept
