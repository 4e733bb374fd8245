CONSTANTS
  p1 = p1
  p2 = p2
  Procs = {p1, p2}
  NInodes = 2
  Names = {"a"}
  Workloads <- CreateAndUnlink
SPECIFICATION Spec
SYMMETRY Symm
INVARIANT NoCircularWait
CHECK_DEADLOCK FALSE
