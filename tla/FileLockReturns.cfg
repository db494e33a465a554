SPECIFICATION FairSpec
CONSTANTS
  Procs = {p1, p2}
  Calls = {"lock"}
  Types = {"shared", "exclusive"}
  MaxNesting = 2
  AtomicDowngrade = FALSE
INVARIANTS
  Exclusion
  ReleasedByLastHolder
PROPERTY LockReturns
