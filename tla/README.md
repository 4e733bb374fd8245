# A verification of XV6-code

TLA+ modules for `src/XV6-code`, an xv6 kernel for the x86 with its shell,
`init`, the library's allocator and a line editor. TLC checks the modules on
small instances; TLAPS proves the properties of the write-ahead log, of
processes, locks, pipes, the console, the clock, the buffer cache, open files
and user memory for every instance. Line numbers below refer to files in `src/XV6-code`.

## The system and its modules

System calls enter through `trap`, run on the kernel stack of their process
and wait with `sleep`/`wakeup` under spinlocks. File system calls run between
`begin_op` and `end_op`; they lock inodes (sleep-locks), read and change
blocks in the buffer cache, and the log makes a group of calls durable at
once. The modules follow this layering; each one takes the layer below it as
atomic steps that the module of that layer justifies.

| Module | Code | State and actions |
|---|---|---|
| `SpinLock` | spinlock.c | `acquire`, `release`, `holding`, `pushcli`, `popcli` cut at every access to shared memory; interrupts arrive between any two steps while the flag is on, and their handlers take locks too |
| `SleepLock`, `Mutex` | sleeplock.c, proc.c `sleep`, `wakeup` | one action per acquire or release of `lk->lk` and `ptable.lock`; `Mutex` is what callers rely on |
| `Proc` | proc.c, trap.c | process table, one scheduler per CPU, kernel stacks, `swtch`, the interrupt flag and `intena`; `fork`, `exit`, `wait`, `sleep`, `wakeup`, `kill`, `yield`, the tick |
| `Pipe`, `ByteStream` | pipe.c | ring with counters that wrap, readers and writers, `pipeclose`, `kill`; `ByteStream` is a bounded queue of bytes with two ends |
| `Console`, `LineInput` | console.c 200-280 | `consoleintr` and `consoleread` over the ring `input`; `LineInput` is a line being edited and a queue of finished lines |
| `Ticks` | sysproc.c 62-90, trap.c | the clock and `sys_sleep`, in unsigned arithmetic |
| `Bcache` | bio.c, ide.c | buffers with `refcnt`, B_VALID, B_DIRTY and the LRU list, the request queue, `iderw`, `ideintr`; a disk whose blocks have contents |
| `Log`, `AtomicDisk` | log.c | memory and disk copies of header, log blocks and home blocks; one action per critical section and per block written; `crash` at any time, then recovery. `AtomicDisk` is a disk whose transactions take effect at once |
| `Dirs` | fs.c, sysfile.c | inodes, their cache entries and locks, directory entries, current directories and open files; the calls cut at every inode lock |
| `FileData` | fs.c, file.c | block bitmap, direct and indirect blocks, inode in memory and on disk, `filewrite`'s transactions |
| `Files` | file.c, sysfile.c, pipe.c 22-57 | the file table, descriptors, the inode or pipe end behind a file |
| `Vm` | vm.c, kalloc.c, exec.c, proc.c | free pages, page directories and tables, user pages and kernel stacks of `fork`, `exec`, `sbrk`, `exit`, `wait` |
| `Editor` | editor.c | the doubly linked list, the cursor (`curNode`, `currentLine`), the dirty flag, the path; one action per command |
| `ShParse`, `ShGrammar` | sh.c 307-592 | the recursive descent parser and `nulterminate` as operators; `ShGrammar` says what a line means by splitting it at its operators |
| `Shell` | sh.c 66-234, init.c | the processes of command lines with their descriptors and pipes, `init` above them |
| `Heap` | umalloc.c | `malloc`, `free`, `morecore`; a program may call `sbrk` itself |

`MCWaits`, `MCResources` and `MCPrograms` put parts that share no state into
one model: a variable `part`, chosen in the initial state, says which part a
behaviour runs. `MCLog`, `MCProc`, `MCBcache` and `MCDirs` extend one module
each. `Sync` puts the spinlocks, a sleep-lock and the clock side by side,
`Rings` a pipe and the console, each with what its parts have to keep; `MCWaits`
extends both and adds the disk queue. `Resources` declares what `Files` and
`Vm` share. `LogInv` holds the inductive invariant of the log; the modules whose
names end in `Proofs` hold the theorems and the other invariants.

### What is abstracted, and how

* A critical section of one spinlock without `swtch` or `sleep` inside is one
  step, except in `SpinLock`, which is about that.
* A block of the log is the set of calls whose writes it carries, so that a
  call that is lost or half there can be seen. A byte of a file is the pair
  of its file and its offset; a byte of a pipe is its number modulo `NB`; a
  page is its number; an editor's line is one value.
* Blocks and pages that are freed get one fixed content. It is not zero, so
  whoever relies on a cleared block still goes wrong.
* Counters that wrap (`nread`, `nwrite`, `input.r/w/e`, `ticks`, `sz + n`)
  are computed modulo 2^W, with W small.
* Undefined behaviour in the editor (a null or uninitialised pointer, a
  division by zero) stops the model in mode `"undefined"`.
* Definitions whose names start with `mutant_` are faulty variants of the
  definition below them. Nothing uses them; putting one in place of the
  original shows that a property notices that fault.

## The runs

Twelve runs; each cfg names its constants. All but two end without error.

| Run | What is asked | Bounds |
|---|---|---|
| `log` | `CrashAtomic`, `CommittedStays`, `ImplementsAtomicDisk`, and `IInv`, the invariant of the proofs | 3 processes, 3 blocks, reservations for 2 calls of 3 blocks, of which each writes 2, 3 calls, 2 power failures |
| `log_space` | `NeverPanics`, `SleeperWoken` | 3 processes, 3 blocks, no failures; NLOG = LOGSIZE as mkfs makes it, calls that use half their reservation |
| `log_full` | violation of `NeverPanics` | calls that use all of their reservation, NLOG = LOGSIZE |
| `waits` | `SyncSound`, `NoDeadlock`, `RingsSound`, `ImplementsMutex`, `ImplementsByteStream`, `ImplementsLineInput`, `SleptEnough` | 2 CPUs and 2 locks; 3 processes for the sleep-lock and the pipe; rings of 2 with counters modulo 4; a clock modulo 4 |
| `waits_live` | `EveryWaitEnds`, under fairness | rings of 1 and 2, 2 or 3 processes |
| `proc` | `StacksSound`, `FamiliesSound`, `FlagIsPerThread` | one or two CPUs, up to 4 slots, CPUs and processes together at most 5 |
| `proc_live` | `ReadyRuns`, `KilledExits`, `OrphanReaped`, under fairness | one CPU, 3 slots |
| `bcache` | `BuffersSound`, `Coherent`, `RecyclingLosesNothing` | 2 processes, 4 blocks in 3 buffers, up to two of them pinned |
| `dirs` | `PointersSound`, `TreeSound`, `NeverPanics`, `WaitsAreOrdered` | 2 processes with 3 inodes or 1 with 4; five workloads |
| `dirs_deadlock` | violation of `NoCircularWait` | 2 processes, one name |
| `resources` | `FilesSound`, `BlocksOwned`, `ContentsSound`, `WriteFits`, `PagesSound`, `NeverPanics` | 2 processes; 3 files, 2 descriptors each; 6 disk blocks of 2 bytes; 12 pages of 2 bytes |
| `programs` | `ListSound`, `AskedBeforeLoss`, `EditsAsTold`, `RunsWhatWasTyped`, `ProcessesSound`, `PromptReturns`, `HeapSound` | 3 lines of text; all lines of up to 4 characters and 4 pieces; 7 processes and 3 pipes; a heap of 9 units |

What the properties say:

* **Log.** Whenever power fails, recovery leaves each call's blocks all or
  none (`CrashAtomic`); a call that is durable stays so (`CommittedStays`);
  and the log, cache and disk together behave like `AtomicDisk`, which
  commits all open calls in one step when none is in progress.
* **Waiting.** `SyncSound`: mutual exclusion, an exact `holding`, matched
  `pushcli`/`popcli`, an exact `holdingsleep`; nobody is asleep when the
  sleep-lock is free, unless a wakeup is under way, or when their ticks have
  passed. `NoDeadlock`: callers that keep to one order never spin in a circle,
  handlers included. `RingsSound`: nobody sleeps on a pipe or on the console
  when what they wait for is there (for a pipe: except after a killed writer,
  below); a full console ring can be read; a `^D` put back is found by its
  reader. The three `Implements...` are refinements. `SleptEnough`:
  `sys_sleep` never returns 0 too early, wrapping included.
* **Processes.** `StacksSound`: a CPU on a kernel stack is alone on it, the
  page is allocated, `myproc()` is right, and RUNNING means running.
  `FamiliesSound`: every process has a parent that can still wait, and no
  parent sleeps in `wait` over a zombie. `FlagIsPerThread`: a kernel thread
  keeps its interrupt flag over `swtch`, on whatever CPU it goes on.
* **Buffers.** One buffer per block, which stays that block's for whoever
  has it, and none is lost: `bget: no buffers` comes only when the pinned
  buffers and those that processes have are all there are (`BuffersSound`);
  users see the last value stored (`Coherent`); what
  is not cached is on the disk (`RecyclingLosesNothing`).
* **Directories.** Reference counts equal the pointers, and no entry or
  pointer names a free inode (`PointersSound`). Between calls link counts are
  right, directories form a tree and unlinked inodes are free (`TreeSound`).
  The exceptions are named in the definitions and below.
* **Resources.** Descriptors and files, inodes and pipe ends, blocks and
  files, pages and address spaces agree on every error path. A process that
  gives back all its memory (`sbrk(-sz)`, below) faults and is killed.
  `WriteFits` is
  tight: a write of filewrite's maximal length, unaligned, over the border
  between direct and indirect blocks, and with a bitmap block per allocation
  logs exactly MAXOPBLOCKS = 10 blocks.
* **Programs.** The editor's list stays a list, `findNode` finds every line
  from wherever the cursor is, and edits change the lines they should
  (sessions that mix cuts, `p` and line numbers are excepted, below). Who
  leaves without answering N finds the text in a file if the last save met no
  failure, and at least its lines, in an older order, if it was only cut
  since then (`AskedBeforeLoss`). The
  parser gives every line the meaning of the grammar, and after
  `nulterminate` the tree still says what was typed. Programs start with
  exactly three descriptors, a prompt means that the foreground is done, and
  it comes back. The heap is partitioned, its free list ordered and joined.

### Why the bounds are enough

Every bound is as small as it can be with the interesting case still in it:
one process more than there are reservations, one block more than buffers,
one more byte than the ring holds, counters that wrap during the run, two
power failures so that a recovery is interrupted, tables and memory that run
out at every allocation of every call. Two processes show every interleaving
of two calls; where a third could matter (sleepers on one lock, readers
and writers of one pipe, calls in the log) there are three. What several
variables together would make too large is split into workloads (`Dirs`,
`Editor`) chosen in the initial state.

Deadlock is checked in `log`, `log_space`, `proc`, `proc_live`, `bcache` and
`resources`. In `waits` and `waits_live` a CPU may stop in `panic` or wait for a lock in a
behaviour with locks in random order; in `dirs` it is the known deadlock
below; in `programs` the programs end.

### Fairness

* A process inside the kernel keeps running: weak fairness of its steps.
* Where it spins on a spinlock: strong fairness. `xchg` gives no guarantee to
  a single CPU, but on hardware nobody loses every race; spinlocks are held
  for bounded times.
* A call makes finitely many `log_write`s before `end_op`; a process holding
  a buffer or a sleep-lock gives it back; processes that share a pipe close
  their ends in the end (`exit` does); the disk finishes its requests; the
  clock ticks, and the local APIC keeps an interrupt pending until it is
  taken; in `waits_live`, somebody types lines; `init` keeps calling `wait`.
* For the shell, only that some process that can go on does.

## What is proved

TLAPS checks eight modules of theorems. They hold for every number of CPUs,
locks, processes, blocks, buffers, files and pages, every size of the rings,
of the log and of page tables, and every width of the counters.

| Module | Theorem | Statement |
|---|---|---|
| `LogProofs` | `TypeCorrect` | `TypeOK` always |
| | `ReservationSuffices` | no panic of log.c is reached: `NeverPanics` always |
| | `LogStaysInBounds` | no header names more blocks than the region has, although `log_write` tests this before it takes `log.lock` |
| | `SleeperAlwaysHasWaker` | a process asleep in `begin_op` has an `end_op` to come |
| `LogAtomProofs` | `LogInvariant` | `IInv` always |
| | `LogCrashAtomic` | `CrashAtomic` always |
| | `LogQuietIsDurable` | with no call in progress, what is read is what a reboot finds |
| | `LogCommittedStays` | `CommittedStays`, an action property |
| | `LogImplementsAtomicDisk` | `Log` refines `AtomicDisk` |
| `ProcProofs` | `ProcInvariant` | `ProcInv` always |
| | `StacksAreSound` | `StacksSound` always |
| | `FamiliesAreSound` | `FamiliesSound` always |
| | `FlagsArePerThread` | `FlagIsPerThread` always |
| `SyncProofs` | `AcquireExcludes`, `HoldingIsExact`, `PushcliIsMatched` | the three parts of `SyncSound` about spinlocks |
| | `OrderedCallersDoNotDeadlock` | callers that keep to a rank do not spin in a circle |
| | `SyncIsSound`, `SpinlocksDoNotDeadlock` | `SyncSound` and `NoDeadlock` always |
| | `SleepLockIsMutex` | `ImplementsMutex`: the sleep-lock refines `Mutex` |
| | `SleepersSleepEnough` | `SleptEnough`, an action property |
| `RingProofs` | `PipeInvariant`, `ConsInvariant` | `PipeInv` and `ConsInv` always |
| | `RingsAreSound` | `RingsSound` always |
| | `PipeIsByteStream`, `ConsoleIsLineInput` | `ImplementsByteStream`, `ImplementsLineInput`: the refinements |
| `BcacheProofs` | `OneBufferPerBlock`, `BuffersStay` | one buffer per block, which stays that block's for whoever has it |
| | `CacheIsSound` | `BuffersSound` always |
| | `ReadersSeeTheLastStore` | `Coherent` always |
| | `RecyclingIsSafe` | `RecyclingLosesNothing` always |
| `FilesProofs` | `FileCounts` | `FilesSound` always |
| `VmProofs` | `PagesStaySound` | `PagesSound` always |

So every property of the runs `log`, `proc`, `waits` and `bcache` is a
theorem, of `log_space` the invariant (`NeverPanics`), and of `resources` the
two about open files and memory.

### The assumptions

On the constants, named in the modules that declare them and evaluated by TLC
in each run:

* `Log`: the sets are finite, the sizes are natural numbers, a reservation
  fits into the log, and no call writes more blocks than it reserves
  (`LogConstants`).
* `Proc`: the machines a behaviour may start on are sets of CPUs
  (`MachinesAssumption`); there is a slot and a pid (`SizeAssumption`).
* `SpinLock`: finitely many locks, ranked by natural numbers.
* `Pipe`, `Console`: the ring's size divides the range of its counters and is
  smaller than it, as 512 and 128 do 2^32. `Wrap == 2^W` is assumed to be a
  natural number, because the prover has no facts about powers.
* `Bcache`: finitely many processes, at least one buffer.
* `Files`: finitely many processes; tables of at least one entry.
* `Vm`: memory holds the first process (a directory, the kernel's page tables,
  a page table, a page and a kernel stack), and an address space has more than
  one page, so that a program fits below KERNBASE. KERNBASE is at most half
  of the range of unsigned numbers, as 0x80000000 is of 2^32.

Hypotheses of single theorems:

* `EnoughLog` (`LogInv`), of all theorems of the log: a call writes fewer
  blocks than MAXOPBLOCKS, by two if the log region is as mkfs makes it. The
  run `log_full` shows that without it `log_write` panics. With LOGSIZE = 30,
  MAXOPBLOCKS = 10 and the 30 blocks of mkfs it means that a call writes at
  most 8 different blocks. The image has one bitmap block, so `filewrite`
  writes at most 7 (4 data blocks, an indirect block, the inode, the bitmap),
  and `mkdir` at most 6.
* `DiskErrors = 0`, of `ReadersSeeTheLastStore` and `RecyclingIsSafe`:
  `ideintr` declares a buffer valid whose read failed, so without it they are
  false.

### The arguments

None of the properties is inductive. Each is a consequence of an invariant
that is; TLC finds no violation of those invariants on the instances of the
runs.

**The log.** `IInv == ControlInv /\ DataInv /\ AtomInv` is built up in three
layers, each of which uses the one before; run `log` checks the whole of it.

1. *Control* (`LogProofs`). `outstanding` counts the calls in progress; at
   most one process commits, and then nobody is in a call; no process runs
   before recovery is done. The hard part is `SpaceInv`: blocks in the header
   plus *tokens*, the slots of its reservation that a call has not used, are
   at most LOGSIZE. `begin_op` adds MAXOPBLOCKS tokens after its test, a new
   header entry costs its writer one, absorption costs nothing, and `end_op`
   drops what is left. `log_write` tests the size before it takes the lock;
   the tokens are why the test still holds after.
2. *Data* (`LogAtomProofs`, first half). `HeadInv`: the header on disk is
   empty up to the commit point and equals the one in memory from there on.
   `CleanInv`: a buffer that differs from its home block is held or pinned, so
   `bget` cannot recycle it. `CopyInv`: how far `write_log` and
   `install_trans` have got, and that the copies made so far agree. The last
   one makes recovery idempotent: a second failure restarts an installation
   whose log blocks are still what they were.
3. *Atomicity* (`LogAtomProofs`, second half). `AtomInv` speaks of two views
   of a block: what `bread` would return (`View`) and what a reboot would
   leave on disk (`Recovered`). Each call is wholly in each view or absent
   from it; one in progress is in the first and not in the second.
   `Recovered` changes only when `write_head` writes the header, and there it
   becomes `View`. This gives crash atomicity, durability, and the step of
   `AtomicDisk` that the refinement needs; every other step maps to a write
   or a stutter.

**Processes** (`ProcInv`). `ptable.lock` is handed from one stack to another
at `swtch`, so who holds it is a matter of the labels on both sides
(`LockInv`). A CPU *claims* a process from the scheduler's choice to the
moment `sched` leaves its stack: claims are unique, every RUNNING process is
claimed, and a claimed process that is not RUNNING is on its way to `sched`
with the lock held (`ClaimInv`). That is why nobody reaps a stack still in
use, although `exit` makes the process a ZOMBIE while it runs on it. A `fork`
in progress, possibly preempted, has a slot to itself (`StackInv`).
The interrupt flag of a thread is in `c->intena` until `sched` saves it, then
in `sched`'s local variable, also if another CPU restores it (`FlagInv`).

**Spinlocks** (`SpinInv`). From `xchg` to the store of 0 one CPU has the
lock; `lk->cpu` names it except at the instructions next to these two, and
there `holding` cannot err, since only that CPU could be misled (`OwnInv`).
`ncli` counts the locks held and the one under way (`NestInv`), interrupts are
off while it is not 0 (`CliInv`), hence a handler interrupts only code without
locks (`SuspInv`), and with an order on the locks, a CPU spins only on one
above all that it holds (`RankInv`). In a circle of waiting CPUs one lock is
at the top (`TopLock`, over the cardinalities of a finite set); its holder
would wait for one above it.

**Sleep-locks** (`SleepInv`). On the way to sleep a process keeps `lk->lk`
until it has `ptable.lock`. So either the sleep-lock is still taken, or
whoever freed it is in `wakeup` and cannot pass `ptable.lock` before the
process sleeps. `locked` and `pid` map to the owner of `Mutex`.

**Clock** (`ClockInv`). Until they reach 2^W, the ticks that have really
passed are `ticks - ticks0` computed modulo 2^W; a process past the test of
`sys_sleep` holds `tickslock` until it sleeps.

**Rings** (`PipeInv`, `ConsInv`). A slot is found by reducing a counter
twice: modulo 2^W by the machine, modulo the ring's size by the code. The
lemmas of `RingProofs` show that the first does not disturb the second when
the size divides 2^W (`RingShift`, `RingSlot`), that two different offsets
below the size give two slots, and how differences of counters grow and
shrink (`RingUint`). With that, the sequence read off the ring from the read
counter is the queue of `ByteStream` or the lines of `LineInput`: a store
appends to it, a read removes a prefix, a backspace the last character. For
`consoleread`'s loop the number of characters copied in one go exists because
a nonempty set of natural numbers has a least element (`LeastOf`). The
invariants add who holds the ring's lock, that a process on its way to sleep
has seen the ring empty or full and still holds the lock, and in `ConsInv`
that r, w and e lie in this order around the range.

**Composition** (`SyncSpec`, `RingsSpec`). The parts share no variable, so
their specifications are put together by conjunction: a behaviour of the
whole is one of each part, in any interleaving. In `MCWaits` one part moves
and the others stay as they started, so each of its behaviours satisfies
`SyncSpec` and `RingsSpec`.

**Buffers.** `BufInv`: `refcnt` counts the processes between `bget` and
`brelse` (`RefInv`), the lock's owner is the process past `bread`
(`LockInv`), B_VALID and B_DIRTY follow the request (`FlagInv`), and the disk's
queue is that of the processes asleep on it, each once (`QueueInv`). Hence a
buffer with `refcnt` 0 has no user, and recycling takes nobody's buffer.
`DataInv` says where the last store of a block is: in its buffer if it is
valid, on the disk if it is not cached or its buffer is not dirty. `PinInv`
bounds the dirty buffers that are not on their way to the disk. When `bget`
gives up, every other buffer has a user of its own, since a member of `Procs` has
one buffer at a time (a process with two, as in `install_trans`, acts as two
of them), so that by the pigeonhole principle the pinned buffers and
the users are at least NBUF (`AllTaken`). With NBUF = 30, up to 29 pinned
blocks and 64 processes, that is not excluded.

**Open files** (`FilesInv`). `RefsAreDescriptors` and `ObjectsFollowFiles` are
nearly inductive: `ref` of a file is the number of descriptors that name it,
of calls about to close it and of a `pipealloc` that has it; the count of an
inode or pipe end is the number of files with it and of calls that have copied
it out of a file. Each step moves one element from one of these sets to
another, and one lemma per set says what that does to its cardinality.
`CallInv` adds where a process is in its call: its first file of `pipe` has
`ref` 1 and no type yet, what is left to close is at most two files, and a
process that has exited has no descriptor. `FreeInv` says that a free entry
has nothing behind it. Hence the last reference is the last one
(`LastReference`), and the copy that `fileclose` makes before it drops
`ftable.lock` takes over from the entry, which may be in use again.

**Memory** (`VmInv`). `PagesAccounted` gives every page one place: the free
list, a slot of an address space, a kernel stack, or the local variable of a
call. `Owners` turns it into "each page has exactly one owner", and a step
takes a page from the free list (`Take`), gives a set of places back
(`Release`), moves one (`MapPage`) or hands a whole space over (`HandOver`).
`Control` says what is mapped: a process in user mode has exactly the pages
below its size, a call exactly those below the address it has reached, which
is the boundary of a page. From this, `mappages` finds its entry free,
`copyuvm` finds its page present, and the paths after a failed `kalloc` give
back what was taken. The lemmas on rounding (`RoundUp`, `NextPage`,
`SamePages`) are about products with PGSIZE, which the provers know little of,
and rest on the order of the multiples of a page (`Multiples`).

### What is only model-checked

* Liveness: `SleeperWoken`, `ReadyRuns`, `KilledExits`, `OrphanReaped`,
  `EveryWaitEnds`, `PromptReturns`. It needs fairness and ENABLED, which the
  prover does not handle.
* What recursive definitions compute. The shell's parser and grammar are
  `RECURSIVE` operators, and their equality needs induction over data, which
  is out of the prover's reach; `RunsWhatWasTyped` compares them on all short
  inputs.
* Directories (`PointersSound`, `TreeSound`, `NeverPanics`,
  `WaitsAreOrdered`). The counts are sums over all processes and the
  statements depend on the workload; the tree needs induction along paths.
* The blocks and contents of files (`BlocksOwned`, `ContentsSound`,
  `WriteFits`, `NeverPanics` of `resources`). Contents are compared byte by
  byte through direct and indirect blocks, and the number of blocks a
  round logs is a maximum over alignments.
* The editor, the shell's processes and the heap (the rest of `programs`):
  linked lists and trees of processes, which need induction along them.

## Findings

* **`log_full`.** `param.h:11` calls LOGSIZE the "max data blocks in on-disk
  log", and `param.h:10` says that MAXOPBLOCKS is the "max # of blocks any FS
  op writes". `mkfs.c:25` counts the header into `nlog = LOGSIZE`, so the log
  holds LOGSIZE - 1 data blocks, and calls admitted by `begin_op` that use
  all of their reservation reach `panic("too big a transaction")`.
* **`dirs_deadlock`.** `create` calls `iunlockput(dp)` (`sysfile.c:281`) while
  it has the new inode locked, and `iput` starts by locking `dp` again
  (`fs.c:352`). An `unlink` of the new name that locks `dp` in between waits
  for the new inode while `create` waits for `dp`. A `link` to the new name
  does the same, since `dirlink` puts the inode it finds while `dp` is locked
  (`fs.c:578`). `WaitsAreOrdered` in run `dirs` says that without `unlink` and
  `link` beside it nothing of the kind happens: lookups, creations and changes
  of directory by several processes do not wait in a circle, nor does a single
  process wait for itself (unless it links to `.` or `..`, below).

## Observations

Met while modelling; where the models contain them, a property names the
exception.

Kernel:

* `ideintr` sets B_VALID after a read that failed (`ide.c:139-145`).
* `kill` compares pids without looking at the state, so `kill(0)` marks a
  free slot (`proc.c:610`); `allocproc` does not clear `killed`.
* A reader killed between its test of `killed` and `sleep` sleeps until the
  next wakeup (`pipe.c:107`, `console.c:255`). A killed writer returns without
  waking readers of what it has written (`pipe.c:86-89`).
* A `^D` put back for the next read may be found by another reader
  (`console.c:263-267`).
* `sys_sleep` with a negative `n` sleeps for nearly the whole range of the
  unsigned clock (`sysproc.c:77`).
* `dirlink` of the name `.`, or of `..` in the root, finds its own locked
  directory, and its `iput` waits for itself (`fs.c:578`); the run's workloads
  link no such name, and `WaitsAreOrdered` excepts them. `create` does not ask whether the directory is still linked
  (`sysfile.c:278`), and a removed directory's `..` may name a freed inode:
  `ilock: no type` (`fs.c:328`).
* A file that is open but unlinked when power fails keeps its inode and
  blocks. A `write` that fails half way returns -1 and keeps its earlier
  transactions (`file.c:147-153`). A full disk panics (`fs.c:91`).
* `growproc` accepts -sz: `deallocuvm` returns 0, which is taken for failure,
  so the pages are gone and `sz` stays (`proc.c:189`). In `Vm` the process
  then faults. `growproc` returns before `switchuvm`, so that on a machine
  with stale TLB entries it may run on, and a `fork` then panics in `copyuvm`;
  `Vm` has no TLB.
* `bget` panics if the transaction pins nearly all buffers while other
  processes have the rest (`bio.c:129`); run `bcache` gets there.
* `kallocNum` is counted outside the lock (`kalloc.c:134`) and reset by every
  `setupkvm` (`vm.c:181`).

Programs:

* Editor: `saveFile` unlinks the old file before it opens the new one and
  does not look at what `write` returns (`editor.c:211-247`). `quit` ends after
  Y whatever `saveFile` returns (`972-974`), and a failed save of a text that
  is not dirty leaves it so, with no file: `q` then does not ask. Both lose
  the text. Cutting lines sets neither the dirty flag nor the cursor
  (`editor.c:893-958`), so a second cut starts from a freed node; switching
  line numbers off moves `currentLine` without `curNode` (`324-361`); `prev`
  reaches line 0 (`282-289`); `mod` reads an uninitialised pointer for line 0
  and follows NULL beyond the end (`785-791`); `d 2 99` deletes to the end
  and reports an error (`881`); `oriPath` points into the argument buffer
  (`208`); `num 0` and `num 1` are compared as characters with 0 and 1
  (`826-830`); `saveFile` does not end on a line of 511 characters
  (`230-240`), and `loadFile` may read `buf[512]` (`186`).
* Shell: `a > f > g` opens the redirections from the outside in; `a & b` is a
  syntax error; `>>` means `>`; if the second `fork` of a pipeline fails, the
  left command runs on after the prompt. If `init` cannot fork it exits, and
  the kernel panics.

## Not modelled

* **Boot, interrupt controllers, processors, memory disk**: a fixed sequence
  on one CPU, or device registers; the modules start where these end.
* **Ports and polling of the disk, keys, screen, serial line**: device input
  and output without shared state. A lost disk interrupt is not modelled,
  since the driver has no timeout.
* **Registers, segments, page permissions, ELF parsing, argument fetching**:
  pure computations or machine state that belongs to one process.
* **mkfs**, but for the log's size and the root directory: it runs once, alone.
* **`string.c`, `printf.c`, `ulib.c`**: pure functions and formatting.
* **`cat`, `ls`, `grep`, `wc`, ...**: loops around one or two system calls.
  `editor_old.c` is superseded. `usertests`, `forktest` and `stressfs` were
  read for what they say of the kernel.
* **Disk errors**: `Bcache` has the step (`DiskErrors`), the runs do not take
  it, because nothing above the driver looks at the error.
