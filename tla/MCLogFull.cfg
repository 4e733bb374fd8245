\* Every call writes as many blocks as MAXOPBLOCKS allows, and the log region
\* has LOGSIZE blocks, its header included, as mkfs lays it out.
SPECIFICATION Spec
CONSTANTS
    NoBlock = NoBlock
    Procs = {p1, p2, p3}
    Blocks = {b1, b2, b3}
    MAXOPBLOCKS = 1
    LOGSIZE = 3
    NLOG = 3
    OpBlocks = 1
    MaxOps = 3
    MaxCrashes = 0
SYMMETRY Symm
INVARIANTS NeverPanics
