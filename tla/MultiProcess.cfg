SPECIFICATION FairSpec
CONSTANTS
  Procs = {p1, p2}
  Readers = {p2}
  Keys = {k1}
  Values = {v1}
  Empty = Empty
  InitialCapacity = 2
  MaxCapacity = 8
  MaxSequence = 3
INVARIANTS
  TypeOK
  AckedOnDisk
  HolderUpToDate
  SnapshotReads
PROPERTY CallsReturn
CONSTRAINT Promised
