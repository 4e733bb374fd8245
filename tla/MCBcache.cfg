CONSTANTS
  p1 = p1
  p2 = p2
  p3 = p3
  k1 = k1
  k2 = k2
  k3 = k3
  k4 = k4
  Procs = {p1, p2}
  Blocks = {k1, k2, k3, k4}
  NBUF = 3
  Values = {0, 1}
  MaxPinned = 2
  DiskErrors = 0
SPECIFICATION Spec
SYMMETRY Symm
INVARIANTS BuffersSound Coherent RecyclingLosesNothing
