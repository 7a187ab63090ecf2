\* Two maps that share the node cache: assignment, items of one map that show
\* in the other, the memory in use.
CONSTANTS
  k1 = k1
  k2 = k2
  k3 = k3
  k4 = k4
  Maps = {m1, m2}
  Keys = {k1, k2}
  Values = {v1}
  Nodes = {n1, n2, n3, n4, n5}
  Void = Void
  Absent = Absent
  Hash <- MCHash2
  InitArgs <- MCGrowing
SYMMETRY MCSymmetry2
SPECIFICATION Spec
INVARIANTS
  MemoryBounded
PROPERTIES
  ImplementsMap
  CallsAgree
  CacheOrderKept
