CONSTANTS
  c1 = c1
  c2 = c2
  CPUs = {c1}
  Machines = {{c1}}
  NPROC = 3
  MaxPid = 3
  MaxLoad = 4
  KillPids = {2}
SPECIFICATION LiveSpec
PROPERTIES ReadyRuns KilledExits OrphanReaped
