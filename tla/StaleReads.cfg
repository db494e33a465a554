SPECIFICATION Spec
CONSTANTS
  Procs = {p1, p2}
  Readers = {p2}
  Keys = {k1, k2}
  Values = {v1}
  Empty = Empty
  InitialCapacity = 3
  MaxCapacity = 6
  MaxSequence = 4
INVARIANT ReadsOwnRecord
