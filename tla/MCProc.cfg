CONSTANTS
  c1 = c1
  c2 = c2
  CPUs <- MCCPUs
  Machines = {{c1}, {c2}, {c1, c2}}
  NPROC = 4
  MaxPid = 4
  MaxLoad = 5
  KillPids = {3}
SPECIFICATION Spec
SYMMETRY CPUSymmetry
INVARIANTS StacksSound FamiliesSound FlagIsPerThread
