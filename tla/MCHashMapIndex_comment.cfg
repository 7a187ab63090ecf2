\* The comment that a valid index needs no check of its bucket, for a map whose
\* index grows by insertions.
CONSTANTS
  k1 = k1
  k2 = k2
  k3 = k3
  Maps = {m1}
  Keys = {k1, k2, k3}
  Values = {v1}
  Nodes = {n1, n2, n3}
  Void = Void
  Absent = Absent
  NoMap = NoMap
  Hash <- MCHash
  InitArgs <- MCOneLimit
SYMMETRY MCSymmetry
SPECIFICATION IndexSpec
INVARIANTS
  BucketNeedsNoCheck
