SPECIFICATION Spec
CONSTANTS
  Keys = {k1, k2}
  Values = {v1, v2}
  Empty = Empty
  InitialCapacity = 3
  MaxCapacity = 6
  MaxDigest = 4
  MmapMayFail = FALSE
  LegacyVersions = {1, 3}
SYMMETRY WriterSymmetry
INVARIANTS
  TypeOK
  IndexCorrect
  StoredOnDisk
  RecoverableWhileUp
  StoresInsideMapping
PROPERTY ImplementsDurableMap
