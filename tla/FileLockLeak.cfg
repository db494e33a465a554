SPECIFICATION Spec
CONSTANTS
  Procs = {p1, p2}
  Calls = {"lock", "tryLock"}
  Types = {"shared", "exclusive"}
  MaxNesting = 2
  AtomicDowngrade = TRUE
INVARIANT ReleasedByLastHolder
