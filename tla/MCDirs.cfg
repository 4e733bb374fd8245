CONSTANTS
  p1 = p1
  p2 = p2
  Procs = {p1, p2}
  NInodes = 4
  Names = {"a", "b"}
  Workloads <- MCWorkloads
SPECIFICATION Spec
SYMMETRY Symm
INVARIANTS PointersSound TreeSound NeverPanics WaitsAreOrdered
CHECK_DEADLOCK FALSE
