SPECIFICATION Spec
CONSTANTS
  Keys = {k1}
  Values = {v1}
  Empty = Empty
  InitialCapacity = 3
  MaxCapacity = 6
  MaxDigest = 4
  MmapMayFail = FALSE
  LegacyVersions = {}
PROPERTY SetPersists
