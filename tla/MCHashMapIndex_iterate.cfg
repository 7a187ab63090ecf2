\* One map of three keys, one index, every order of writes and steps.
CONSTANTS
  k1 = k1
  k2 = k2
  k3 = k3
  Maps = {m1}
  Keys = {k1, k2, k3}
  Values = {v1}
  Nodes = {n1, n2, n3}
  Void = Void
  Absent = Absent
  NoMap = NoMap
  Hash <- MCHash
  InitArgs <- MCLimits
SYMMETRY MCSymmetry
SPECIFICATION IndexSpec
INVARIANTS
  ChainsMatchBuckets
  ValidIndexOnNode
  NothingMissed
PROPERTIES
  NothingTwice
