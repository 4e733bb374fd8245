\* Three processes share two reservations of three blocks each, of which
\* a call uses two: the log is as large as EnoughLog asks.
SPECIFICATION Spec
CONSTANTS
    NoBlock = NoBlock
    Procs = {p1, p2, p3}
    Blocks = {b1, b2, b3}
    MAXOPBLOCKS = 3
    LOGSIZE = 6
    NLOG = 7
    OpBlocks = 2
    MaxOps = 3
    MaxCrashes = 2
SYMMETRY Symm
INVARIANTS IInv CrashAtomic
PROPERTIES CommittedStays ImplementsAtomicDisk
