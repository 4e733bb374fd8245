-------------------------------- MODULE Log ---------------------------------
(***************************************************************************)
(* The write-ahead log of log.c: begin_op, log_write, end_op, commit and   *)
(* recover_from_log, over a disk that may lose power between any two block *)
(* writes and a buffer cache that may recycle any buffer bget may recycle. *)
(*                                                                         *)
(* A block's contents is the set of operations whose writes it carries, so *)
(* a lost or half-installed operation is visible in the data.              *)
(***************************************************************************)
EXTENDS Integers, Sequences, FiniteSets

CONSTANTS
    Procs,        \* processes making file system calls
    Blocks,       \* block numbers of the file system outside the log
    MAXOPBLOCKS,  \* param.h: blocks reserved for one call by begin_op
    LOGSIZE,      \* param.h: slots of logheader.block
    NoBlock,      \* not a block: the process holds no buffer
    NLOG,         \* superblock's nlog: log blocks on disk, header included
    OpBlocks,     \* the most distinct blocks one call really writes
    MaxOps,       \* bound: calls in one behaviour
    MaxCrashes    \* bound: power failures in one behaviour

OpIds == 1..MaxOps

ASSUME LogConstants ==
    /\ IsFiniteSet(Procs) /\ IsFiniteSet(Blocks)
    /\ MAXOPBLOCKS \in Nat \ {0} /\ OpBlocks \in Nat \ {0}
    /\ LOGSIZE \in Nat /\ NLOG \in Nat
    /\ MaxOps \in Nat /\ MaxCrashes \in Nat
    /\ MAXOPBLOCKS <= LOGSIZE
    /\ OpBlocks <= MAXOPBLOCKS
    /\ NoBlock \notin Blocks

VARIABLES
    sys,          \* boot phase: "head", "install", "erase", "up" or "panic"
    dblk,         \* disk: contents of the blocks outside the log
    dlog,         \* disk: contents of the log's data blocks
    dhead,        \* disk: the header block, its first n entries
    valid,        \* blocks with a B_VALID buffer in the cache
    cache,        \* data of those buffers
    dirty,        \* blocks whose buffer is B_DIRTY
    lh,           \* log.lh: the first n entries of the header in memory
    outstanding,  \* log.outstanding
    committing,   \* log.committing
    tail,         \* loop index of write_log and install_trans
    pc,           \* where each process is
    op,           \* each process's current call
    blk,          \* the buffer a process holds locked inside log_write
    nextop,       \* history: the next call's number
    wrote,        \* history: the blocks each call has modified
    crashes       \* history: power failures so far

disk    == <<dblk, dlog, dhead>>
bufs    == <<valid, cache, dirty>>
memlog  == <<lh, outstanding, committing, tail>>
proc    == <<pc, op, blk>>
history == <<nextop, wrote, crashes>>
vars    == <<sys, disk, bufs, memlog, proc, history>>

Logged  == {lh[i] : i \in 1..Len(lh)}

\* What bread returns for a block: its buffer, or the disk block read anew.
bread(b) == IF b \in valid THEN cache[b] ELSE dblk[b]

\* bget may hand a buffer to another block when no one holds a reference to
\* it and it is not dirty.
Recyclable(b) ==
    /\ b \notin dirty
    /\ \A p \in Procs : blk[p] # b

bget_recycle(b) ==
    /\ sys \notin {"panic"}
    /\ b \in valid
    /\ Recyclable(b)
    /\ valid' = valid \ {b}
    /\ cache' = [cache EXCEPT ![b] = {}]
    /\ UNCHANGED <<sys, disk, dirty, memlog, proc, history>>

mutant_wakeup_nobody(f) == f

\* wakeup(&log): every process asleep in begin_op tries again.
wakeup(f) == [p \in Procs |-> IF f[p] = "sleep" THEN "woken" ELSE f[p]]

-----------------------------------------------------------------------------
(* begin_op: one critical section of log.lock per turn of its loop.        *)

mutant_NoRoom_forgets_itself == Len(lh) + outstanding * MAXOPBLOCKS > LOGSIZE

\* The reservation test: would one more call exhaust the log's space?
NoRoom == Len(lh) + (outstanding + 1) * MAXOPBLOCKS > LOGSIZE

enter(p) ==
    \/ /\ committing = 1 \/ NoRoom
       /\ pc' = [pc EXCEPT ![p] = "sleep"]
       /\ UNCHANGED outstanding
    \/ /\ committing = 0 /\ ~NoRoom
       /\ pc' = [pc EXCEPT ![p] = "op"]
       /\ outstanding' = outstanding + 1

begin_op(p) ==
    /\ sys = "up"
    /\ pc[p] = "idle"
    /\ nextop \in OpIds
    /\ enter(p)
    /\ op' = [op EXCEPT ![p] = nextop]
    /\ nextop' = nextop + 1
    /\ UNCHANGED <<sys, disk, bufs, lh, committing, tail, blk, wrote, crashes>>

begin_op_again(p) ==
    /\ sys = "up"
    /\ pc[p] = "woken"
    /\ enter(p)
    /\ UNCHANGED <<sys, disk, bufs, lh, committing, tail, op, blk, history>>

-----------------------------------------------------------------------------
(* log_write: the caller has bread a buffer and changed it; two checks are *)
(* made before log.lock is taken, then the block is recorded and pinned.   *)

TooBig == Len(lh) >= LOGSIZE \/ Len(lh) >= NLOG - 1

log_write(p, b) ==
    /\ sys = "up"
    /\ pc[p] = "op"
    /\ b \in wrote[op[p]] \/ Cardinality(wrote[op[p]]) < OpBlocks
    /\ \A q \in Procs : blk[q] # b
    /\ cache' = [cache EXCEPT ![b] = bread(b) \cup {op[p]}]
    /\ valid' = valid \cup {b}
    /\ wrote' = [wrote EXCEPT ![op[p]] = @ \cup {b}]
    /\ IF TooBig \/ outstanding < 1
       THEN sys' = "panic" /\ UNCHANGED <<pc, blk>>
       ELSE /\ pc' = [pc EXCEPT ![p] = "locked"]
            /\ blk' = [blk EXCEPT ![p] = b]
            /\ UNCHANGED sys
    /\ UNCHANGED <<disk, dirty, memlog, op, nextop, crashes>>

\* Log absorption: a block already in the header keeps its slot.
absorb(b) == IF b \in Logged THEN lh ELSE Append(lh, b)

mutant_pin_not(b) == dirty

\* B_DIRTY keeps bget from recycling the buffer before it is committed.
pin(b) == dirty \cup {b}

log_write_locked(p) ==
    /\ sys = "up"
    /\ pc[p] = "locked"
    /\ lh' = absorb(blk[p])
    /\ dirty' = pin(blk[p])
    /\ pc' = [pc EXCEPT ![p] = "op"]
    /\ blk' = [blk EXCEPT ![p] = NoBlock]
    /\ UNCHANGED <<sys, disk, valid, cache, outstanding, committing, tail,
                   op, history>>

-----------------------------------------------------------------------------
(* end_op and commit.                                                      *)

mutant_do_commit_always == TRUE

\* Is this the last outstanding call?
do_commit == outstanding = 1

end_op(p) ==
    /\ sys = "up"
    /\ pc[p] = "op"
    /\ outstanding' = outstanding - 1
    /\ \/ /\ committing = 1
          /\ sys' = "panic"
          /\ UNCHANGED <<committing, pc>>
       \/ /\ committing = 0 /\ do_commit
          /\ committing' = 1
          /\ pc' = [pc EXCEPT ![p] = "commit"]
          /\ UNCHANGED sys
       \/ /\ committing = 0 /\ ~do_commit
          /\ pc' = [wakeup(pc) EXCEPT ![p] = "idle"]
          /\ UNCHANGED <<sys, committing>>
    /\ UNCHANGED <<disk, bufs, lh, tail, op, blk, history>>

mutant_commit_header_first(p) ==
    /\ sys = "up"
    /\ pc[p] = "commit"
    /\ pc' = [pc EXCEPT ![p] = IF lh = <<>> THEN "finish" ELSE "write_head"]
    /\ tail' = 1
    /\ UNCHANGED <<sys, disk, bufs, lh, outstanding, committing, op, blk,
                   history>>

commit(p) ==
    /\ sys = "up"
    /\ pc[p] = "commit"
    /\ pc' = [pc EXCEPT ![p] = IF lh = <<>> THEN "finish" ELSE "write_log"]
    /\ tail' = 1
    /\ UNCHANGED <<sys, disk, bufs, lh, outstanding, committing, op, blk,
                   history>>

\* One turn of write_log's loop: cache block to log block.
write_log(p) ==
    /\ sys = "up"
    /\ pc[p] = "write_log"
    /\ dlog' = [dlog EXCEPT ![tail] = bread(lh[tail])]
    /\ cache' = [cache EXCEPT ![lh[tail]] = bread(lh[tail])]
    /\ valid' = valid \cup {lh[tail]}
    /\ tail' = tail + 1
    /\ pc' = [pc EXCEPT ![p] = IF tail = Len(lh) THEN "write_head" ELSE @]
    /\ UNCHANGED <<sys, dblk, dhead, dirty, lh, outstanding, committing, op,
                   blk, history>>

write_head(p) ==
    /\ sys = "up"
    /\ pc[p] = "write_head"
    /\ dhead' = lh
    /\ tail' = 1
    /\ pc' = [pc EXCEPT ![p] = "install"]
    /\ UNCHANGED <<sys, dblk, dlog, bufs, lh, outstanding, committing, op, blk,
                   history>>

\* One turn of install_trans's loop: log block to home block, through the
\* home block's buffer, which the finished write leaves valid and clean.
install_trans ==
    /\ dblk' = [dblk EXCEPT ![lh[tail]] = dlog[tail]]
    /\ cache' = [cache EXCEPT ![lh[tail]] = dlog[tail]]
    /\ valid' = valid \cup {lh[tail]}
    /\ dirty' = dirty \ {lh[tail]}
    /\ tail' = tail + 1
    /\ UNCHANGED <<dlog, dhead, lh, outstanding, committing, op, blk, history>>

commit_install(p) ==
    /\ sys = "up"
    /\ pc[p] = "install"
    /\ install_trans
    /\ pc' = [pc EXCEPT ![p] = IF tail = Len(lh) THEN "erase" ELSE @]
    /\ UNCHANGED sys

\* log.lh.n = 0; write_head().
erase_log ==
    /\ lh' = <<>>
    /\ dhead' = <<>>
    /\ UNCHANGED <<dblk, dlog, bufs, outstanding, committing, tail, op, blk,
                   history>>

commit_erase(p) ==
    /\ sys = "up"
    /\ pc[p] = "erase"
    /\ erase_log
    /\ pc' = [pc EXCEPT ![p] = "finish"]
    /\ UNCHANGED sys

end_op_finish(p) ==
    /\ sys = "up"
    /\ pc[p] = "finish"
    /\ committing' = 0
    /\ pc' = [wakeup(pc) EXCEPT ![p] = "idle"]
    /\ UNCHANGED <<sys, disk, bufs, lh, outstanding, tail, op, blk, history>>

-----------------------------------------------------------------------------
(* Power failure, and initlog on the next boot.                            *)

crash ==
    /\ crashes < MaxCrashes
    /\ crashes' = crashes + 1
    /\ sys' = "head"
    /\ valid' = {} /\ cache' = [b \in Blocks |-> {}] /\ dirty' = {}
    /\ lh' = <<>> /\ outstanding' = 0 /\ committing' = 0 /\ tail' = 1
    /\ pc' = [p \in Procs |-> "idle"]
    /\ op' = [p \in Procs |-> 0]
    /\ blk' = [p \in Procs |-> NoBlock]
    /\ UNCHANGED <<disk, nextop, wrote>>

mutant_read_head_no_redo ==
    /\ sys = "head"
    /\ lh' = dhead
    /\ tail' = 1
    /\ sys' = "erase"
    /\ UNCHANGED <<disk, bufs, outstanding, committing, proc, history>>

read_head ==
    /\ sys = "head"
    /\ lh' = dhead
    /\ tail' = 1
    /\ sys' = IF dhead = <<>> THEN "erase" ELSE "install"
    /\ UNCHANGED <<disk, bufs, outstanding, committing, proc, history>>

recover_install ==
    /\ sys = "install"
    /\ install_trans
    /\ sys' = IF tail = Len(lh) THEN "erase" ELSE sys
    /\ UNCHANGED pc

recover_erase ==
    /\ sys = "erase"
    /\ erase_log
    /\ sys' = "up"
    /\ UNCHANGED pc

-----------------------------------------------------------------------------
Init ==
    /\ sys = "head"
    /\ dblk = [b \in Blocks |-> {}]
    /\ dlog = [i \in 1..LOGSIZE |-> {}]
    /\ dhead = <<>>
    /\ valid = {} /\ cache = [b \in Blocks |-> {}] /\ dirty = {}
    /\ lh = <<>> /\ outstanding = 0 /\ committing = 0 /\ tail = 1
    /\ pc = [p \in Procs |-> "idle"]
    /\ op = [p \in Procs |-> 0]
    /\ blk = [p \in Procs |-> NoBlock]
    /\ nextop = 1
    /\ wrote = [o \in OpIds |-> {}]
    /\ crashes = 0

\* The bound on calls is reached and every call has returned.
Quiesced ==
    /\ sys = "up"
    /\ nextop \notin OpIds
    /\ \A p \in Procs : pc[p] = "idle"
    /\ UNCHANGED vars

\* The steps a process inside a call takes without choice.
Step(p) ==
    \/ begin_op_again(p)
    \/ log_write_locked(p)
    \/ commit(p)
    \/ write_log(p)
    \/ write_head(p)
    \/ commit_install(p)
    \/ commit_erase(p)
    \/ end_op_finish(p)

Recover == read_head \/ recover_install \/ recover_erase

Next ==
    \/ \E p \in Procs : \/ begin_op(p)
                        \/ \E b \in Blocks : log_write(p, b)
                        \/ end_op(p)
                        \/ Step(p)
    \/ \E b \in Blocks : bget_recycle(b)
    \/ Recover
    \/ crash
    \/ Quiesced

Spec == Init /\ [][Next]_vars

\* A process in the kernel keeps running; a call makes finitely many
\* log_writes, so it calls end_op if it can again and again.
FairSpec ==
    /\ Spec
    /\ WF_vars(Recover)
    /\ \A p \in Procs : WF_vars(Step(p)) /\ SF_vars(end_op(p))

-----------------------------------------------------------------------------
(* Properties.                                                             *)

PCs == {"idle", "sleep", "woken", "op", "locked", "commit", "write_log",
        "write_head", "install", "erase", "finish"}

DiskType ==
    /\ dblk \in [Blocks -> SUBSET OpIds]
    /\ dlog \in [1..LOGSIZE -> SUBSET OpIds]
    /\ dhead \in Seq(Blocks) /\ Len(dhead) <= LOGSIZE

MemType ==
    /\ sys \in {"head", "install", "erase", "up", "panic"}
    /\ valid \subseteq Blocks /\ dirty \subseteq Blocks
    /\ cache \in [Blocks -> SUBSET OpIds]
    /\ lh \in Seq(Blocks) /\ Len(lh) <= LOGSIZE
    /\ outstanding \in Nat
    /\ committing \in {0, 1}
    /\ tail \in 1..LOGSIZE + 1

ProcType ==
    /\ pc \in [Procs -> PCs]
    /\ op \in [Procs -> OpIds \cup {0}]
    /\ blk \in [Procs -> Blocks \cup {NoBlock}]
    /\ nextop \in 1..MaxOps + 1
    /\ wrote \in [OpIds -> SUBSET Blocks]
    /\ crashes \in 0..MaxCrashes

TypeOK == DiskType /\ MemType /\ ProcType

\* Block b once install_trans has copied log blocks log, named by header
\* head, over the blocks home.
Replay(head, log, home, b) ==
    IF \E i \in 1..Len(head) : head[i] = b
    THEN log[CHOOSE i \in 1..Len(head) :
               /\ head[i] = b
               /\ \A j \in i + 1..Len(head) : head[j] # b]
    ELSE home[b]

\* What recover_from_log would leave in block b if power failed now.
Recovered(b) == Replay(dhead, dlog, dblk, b)

\* Crash atomicity (log.c:9-15): whenever power fails, recovery leaves
\* either all the blocks a file system call wrote or none of them.
CrashAtomic ==
    \A o \in OpIds : \/ \A b \in wrote[o] : o \in Recovered(b)
                     \/ \A b \in wrote[o] : o \notin Recovered(b)

Committed(o) == \A b \in wrote[o] : o \in Recovered(b)

\* A call that is durable stays so (log.c:98-100 "the true point at which
\* the current transaction commits"): no later commit, recycled buffer,
\* power failure or interrupted recovery undoes it.
CommittedStays ==
    [][\A o \in OpIds : wrote[o] # {} /\ Committed(o) => Committed(o)']_vars

\* Once the last end_op has returned, nothing the system shows is volatile:
\* each block reads as what a reboot would find (log.c:143-144).
QuietIsDurable ==
    sys = "up" /\ outstanding = 0 /\ committing = 0 =>
        \A b \in Blocks : bread(b) = Recovered(b)

\* The reservation in begin_op keeps log_write from "too big a transaction"
\* and end_op from "log.committing" (log.c:132, 152, 218-221).
NeverPanics == sys # "panic"

\* The header never lists more blocks than the log region has room for, so
\* write_log stays inside it, although log_write tests this without log.lock.
LogInBounds == Len(lh) <= NLOG - 1

\* No process sleeps in begin_op without an end_op to come that wakes it:
\* log space always comes back (log.c:129-134, 157-161, 169-171).
SleeperHasWaker ==
    \A p \in Procs : pc[p] = "sleep" => committing = 1 \/ outstanding > 0

\* A process asleep in begin_op is eventually woken, or power fails.
SleeperWoken ==
    \A p \in Procs : pc[p] = "sleep" ~> (pc[p] # "sleep")

\* What the running system reads from block b; while recovery runs, no one
\* reads but what recovery will leave.
View(b) == IF sys \in {"up", "panic"} THEN bread(b) ELSE Recovered(b)

\* The log implements a disk with atomic, durable commits.
Atomic == INSTANCE AtomicDisk
            WITH Contents <- SUBSET OpIds,
                 view    <- [b \in Blocks |-> View(b)],
                 durable <- [b \in Blocks |-> Recovered(b)],
                 open    <- outstanding

ImplementsAtomicDisk == Atomic!Spec
=============================================================================
