------------------------------- MODULE LogInv -------------------------------
(***************************************************************************)
(* The inductive invariant behind the properties of Log: who is in a call, *)
(* who commits, how much log space is still promised, and how buffers, log *)
(* blocks and home blocks relate at each point of a commit or a recovery.  *)
(***************************************************************************)
EXTENDS Log

\* A call really writes two blocks less than begin_op reserves for it, or
\* the log region is larger than mkfs makes it (NLOG = LOGSIZE there).
EnoughLog ==
    /\ OpBlocks < MAXOPBLOCKS
    /\ LOGSIZE - (MAXOPBLOCKS - OpBlocks) < NLOG - 1

InOp(p)   == pc[p] \in {"op", "locked"}
Active    == {p \in Procs : InOp(p)}
Writes(p) == pc[p] \in {"write_log", "write_head", "install", "erase"}
Commits(p) == pc[p] \in {"commit", "finish"} \/ Writes(p)

\* Each process's call, its buffer and the blocks it has written.
CallInv ==
    /\ \A p \in Procs :
         /\ pc[p] # "idle" => op[p] \in OpIds /\ op[p] < nextop
         /\ (pc[p] = "locked") <=> (blk[p] # NoBlock)
         /\ blk[p] # NoBlock => blk[p] \in wrote[op[p]] /\ blk[p] \in valid
         /\ pc[p] \in {"sleep", "woken"} => wrote[op[p]] = {}
    /\ \A p, q \in Procs :
         p # q => /\ pc[p] # "idle" /\ pc[q] # "idle" => op[p] # op[q]
                  /\ blk[p] # NoBlock => blk[p] # blk[q]
    /\ \A o \in OpIds : /\ Cardinality(wrote[o]) <= OpBlocks
                        /\ o >= nextop => wrote[o] = {}

\* log.outstanding counts the calls in progress.
CountInv == outstanding = Cardinality(Active)

\* No process runs until recovery is done, and recovery's loop stays inside
\* the header.
BootInv ==
    /\ sys # "panic"
    /\ sys # "up" => committing = 0 /\ \A p \in Procs : pc[p] = "idle"
    /\ sys = "head" => lh = <<>>
    /\ sys = "install" => tail \in 1..Len(lh)

\* One process at a time commits, with no call in progress.
CommitInv ==
    /\ committing = 1 <=> \E p \in Procs : Commits(p)
    /\ \A p \in Procs : Commits(p) =>
         \A q \in Procs : ~InOp(q) /\ (Commits(q) => q = p)

\* The header in memory is empty outside a transaction; a commit's loops stay
\* inside it.
LoopInv ==
    /\ \A p \in Procs :
         /\ pc[p] \in {"write_log", "install"} => tail \in 1..Len(lh)
         /\ pc[p] = "write_head" => Len(lh) > 0
         /\ pc[p] = "finish" => lh = <<>>
    /\ sys = "up" /\ committing = 0 /\ Active = {} => lh = <<>>

PhaseInv == BootInv /\ CommitInv /\ LoopInv

\* Log slots still promised to the calls in progress, one token for each.
Used(p) == Cardinality(wrote[op[p]] \cap Logged)
Tokens  == {t \in Procs \X (1..MAXOPBLOCKS) : InOp(t[1]) /\ t[2] > Used(t[1])}

SpaceInv == Len(lh) + Cardinality(Tokens) <= LOGSIZE

\* Neither header lists more blocks than the log region has.
BoundInv == Len(lh) <= NLOG - 1 /\ Len(dhead) <= NLOG - 1

ControlInv == TypeOK /\ CallInv /\ CountInv /\ PhaseInv /\ SpaceInv

-----------------------------------------------------------------------------
Injective(s) == \A i, j \in 1..Len(s) : s[i] = s[j] => i = j
Clean(b)     == b \in valid => cache[b] = dblk[b]
Held(b)      == \E p \in Procs : blk[p] = b
Installing   == \E p \in Procs : pc[p] \in {"install", "erase"}

\* The header on disk is empty until the commit point and is the one in
\* memory from there on.
HeadInv ==
    /\ Injective(lh) /\ Injective(dhead)
    /\ sys \in {"install", "erase"} \/ Installing => lh = dhead
    /\ sys = "up" /\ ~Installing => dhead = <<>>

\* A buffer that differs from its home block is held or pinned.
CleanInv ==
    /\ \A b \in Blocks : \/ Clean(b)
                         \/ Held(b)
                         \/ b \in Logged /\ b \in valid /\ b \in dirty
    /\ sys # "up" => \A b \in Blocks : Clean(b)

\* Log blocks hold the buffers' contents once written, home blocks hold the
\* log's once installed.
CopyInv ==
    /\ sys = "install" => \A i \in 1..tail - 1 : dblk[lh[i]] = dlog[i]
    /\ sys = "erase" => \A i \in 1..Len(lh) : dblk[lh[i]] = dlog[i]
    /\ \A p \in Procs :
         /\ pc[p] = "write_log" =>
              \A i \in 1..tail - 1 : bread(lh[i]) = dlog[i]
         /\ pc[p] \in {"write_head", "install", "erase"} =>
              \A i \in 1..Len(lh) : bread(lh[i]) = dlog[i]
         /\ pc[p] = "install" => \A i \in 1..tail - 1 : dblk[lh[i]] = dlog[i]
         /\ pc[p] = "erase" => \A i \in 1..Len(lh) : dblk[lh[i]] = dlog[i]

DataInv == HeadInv /\ CleanInv /\ CopyInv

\* A call is wholly in what the system shows or not at all, and the same for
\* what a reboot would find; a call in progress is in the one, not the other.
AtomOf(o) ==
    /\ \A b \in Blocks :
         o \in View(b) \/ o \in Recovered(b) => b \in wrote[o]
    /\ \/ \A b \in wrote[o] : o \in View(b)
       \/ \A b \in Blocks : o \notin View(b)
    /\ \/ \A b \in wrote[o] : o \in Recovered(b)
       \/ \A b \in Blocks : o \notin Recovered(b)
    /\ (\E b \in Blocks : o \in Recovered(b)) =>
          \A b \in wrote[o] : o \in View(b)
    /\ \A p \in Procs : InOp(p) /\ op[p] = o =>
          /\ \A b \in wrote[o] : o \in View(b)
          /\ \A b \in Blocks : o \notin Recovered(b)

AtomInv == \A o \in OpIds : AtomOf(o)

IInv == ControlInv /\ DataInv /\ AtomInv
=============================================================================
