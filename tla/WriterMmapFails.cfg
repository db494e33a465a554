SPECIFICATION Spec
CONSTANTS
  Keys = {k1, k2}
  Values = {v1}
  Empty = Empty
  InitialCapacity = 3
  MaxCapacity = 12
  MaxDigest = 4
  MmapMayFail = TRUE
  LegacyVersions = {1, 3}
SYMMETRY KeySymmetry
INVARIANTS
  RecoverableWhileUp
  StoresInsideMapping
PROPERTY AppendOnly
