\* Enough blocks and calls to exhaust the reservations and, were blocks not absorbed, to fill the log.
SPECIFICATION FairSpec
CONSTANTS
    NoBlock = NoBlock
    Procs = {p1, p2, p3}
    Blocks = {b1, b2, b3}
    MAXOPBLOCKS = 2
    LOGSIZE = 4
    NLOG = 4
    OpBlocks = 1
    MaxOps = 3
    MaxCrashes = 0
INVARIANTS NeverPanics
PROPERTIES SleeperWoken
