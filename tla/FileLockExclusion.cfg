SPECIFICATION Spec
CONSTANTS
  Procs = {p1, p2, p3}
  Calls = {"lock", "tryLock"}
  Types = {"shared", "exclusive"}
  MaxNesting = 2
  AtomicDowngrade = TRUE
SYMMETRY ProcSymmetry
INVARIANTS
  TypeOK
  Exclusion
