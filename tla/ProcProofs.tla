----------------------------- MODULE ProcProofs -----------------------------
(***************************************************************************)
(* Proofs about module Proc, for any number of CPUs and slots.             *)
(*                                                                         *)
(* StacksSound, FamiliesSound and FlagIsPerThread follow from one          *)
(* inductive invariant, ProcInv.  What it adds to them is who has          *)
(* ptable.lock at every label (LockInv), which CPU has a claim to a slot   *)
(* from the moment the scheduler chooses it to the moment sched leaves its *)
(* stack (ClaimInv), at which label a slot of each state is (LabelInv),    *)
(* the slot a fork in progress is filling in (StackInv), and in which      *)
(* variable the interrupt flag of a thread is while ptable.lock is held    *)
(* (FlagInv).                                                              *)
(*                                                                         *)
(* The slots are numbers only for allocproc and the scheduler's scan; the  *)
(* proofs treat them as names (SlotFacts).                                 *)
(***************************************************************************)
EXTENDS Proc, TLAPS

(* The types, with the slots as a set of names, ... *)
Typed ==
  /\ state \in [Slots -> States]
  /\ parent \in [Slots -> Slots \cup {0}]
  /\ kstack \in [Slots -> {0, 1}]
  /\ chan \in [Slots -> Slots \cup {0, IO}]
  /\ ptlock \in CPUs \cup {0}
  /\ proc \in [CPUs -> Slots \cup {0}]
  /\ on \in [CPUs -> Slots \cup {0}]
  /\ spc \in [CPUs -> {"loop", "sti", "scan", "swtch", "back"}]
  /\ intf \in [CPUs -> {0, 1}]
  /\ intena \in [CPUs -> {0, 1}]
  /\ pc \in [Slots -> Labels]
  /\ ret \in [Slots -> Interruptible]
  /\ saved \in [Slots -> {0, 1}]
  /\ np \in [Slots -> Slots \cup {0}]

(* ... and of the variables that are counted with. *)
Counted ==
  /\ online \in SUBSET CPUs
  /\ pid \in [Slots -> 0..MaxPid + 1]
  /\ nextpid \in 1..MaxPid + 1
  /\ killed \in [Slots -> {0, 1}]
  /\ scan \in [CPUs -> 1..NPROC + 1]

(* The scheduler is at its swtch exactly while a process runs. *)
CpuInv ==
  \A c \in CPUs :
    /\ on[c] # 0 => spc[c] = "back" /\ proc[c] = on[c]
    /\ spc[c] \in {"loop", "sti", "scan"} => proc[c] = 0
    /\ spc[c] \in {"swtch", "back"} => proc[c] # 0

(* The CPU is between an acquire and a release of ptable.lock, on the      *)
(* scheduler's stack or on that of a process.                              *)
InLock(c) ==
  \/ on[c] = 0 /\ spc[c] \in {"scan", "swtch", "back"}
  \/ on[c] # 0 /\ pc[on[c]] \in Parked \cup {"forkret", "wait"}

LockInv ==
  \A c \in CPUs : /\ ptlock = c <=> InLock(c)
                  /\ ptlock = c => intf[c] = 0

(* The labels at which a process resumes with ptable.lock held. *)
Resumes == {"yield", "sleep", "wait_sleep", "forkret"}

(* The CPU executes the process, or has chosen it and is about to. *)
Claims(c, p) == on[c] = p \/ (spc[c] = "swtch" /\ proc[c] = p)

(* One CPU has a claim to a process at a time, and has one to every        *)
(* RUNNING process; a process that is executed and not RUNNING is on its   *)
(* way to sched.                                                           *)
ClaimInv ==
  /\ \A c, d \in CPUs, p \in Slots : Claims(c, p) /\ Claims(d, p) => c = d
  /\ \A p \in Slots : state[p] = "RUNNING" => \E c \in CPUs : Claims(c, p)
  /\ \A c \in CPUs, p \in Slots : Claims(c, p) =>
       \/ state[p] = "RUNNING"
       \/ /\ on[c] = p /\ pc[p] \in Parked
          /\ state[p] \in {"RUNNABLE", "SLEEPING", "ZOMBIE"}
  /\ \A c \in CPUs : spc[c] = "swtch" => pc[proc[c]] \in Resumes

(* Where a slot can be in each state. *)
LabelInv ==
  \A p \in Slots :
    /\ state[p] \in {"UNUSED", "EMBRYO"} => pc[p] \in {"zombie", "forkret"}
    /\ state[p] = "ZOMBIE" => pc[p] = "zombie"
    /\ state[p] = "SLEEPING" => pc[p] \in {"sleep", "wait_sleep"}
    /\ state[p] = "RUNNABLE" => pc[p] \in Resumes
    /\ state[p] = "RUNNING" => pc[p] # "zombie"

(* Where the process is in its system call, also while a tick interrupts   *)
(* it.                                                                     *)
Where(p) == IF pc[p] \in {"tick", "yield", "iret"} THEN ret[p] ELSE pc[p]
Forking(p) == Where(p) \in {"fork_kstack", "fork_copy", "fork_run"}

(* Every process has its kernel stack.  A fork in progress has a slot to   *)
(* itself, with a stack, forkret's frame and a parent when it gets there.  *)
StackInv ==
  /\ \A p \in Slots : state[p] \notin {"UNUSED", "EMBRYO"} => kstack[p] = 1
  /\ \A p \in Slots : np[p] # 0 <=> Forking(p)
  /\ \A p \in Slots : Forking(p) => state[np[p]] = "EMBRYO"
  /\ \A p, q \in Slots : Forking(p) /\ np[p] = np[q] => p = q
  /\ \A p \in Slots : Where(p) \in {"fork_copy", "fork_run"} =>
       kstack[np[p]] = 1 /\ pc[np[p]] = "forkret"
  /\ \A p \in Slots : Where(p) = "fork_run" => parent[np[p]] = p

(* Init lives and has no parent, nobody is their own parent, and wait      *)
(* sleeps on the caller.                                                   *)
FamilyInv ==
  /\ state[initproc] \notin {"UNUSED", "EMBRYO", "ZOMBIE"}
  /\ parent[initproc] = 0
  /\ \A p \in Slots : parent[p] # p
  /\ NoOrphans
  /\ \A p \in Slots : state[p] = "SLEEPING" /\ pc[p] = "wait_sleep" => chan[p] = p
  /\ WaitSeesZombie

(* The flag with which the thread has to leave ptable.lock: yield belongs  *)
(* to the tick handler, sleep and wait to system calls.                    *)
FlagOf(l) == IF l = "yield" THEN 0 ELSE 1

(* The flag is in c->intena until sched has saved it, and then in sched's  *)
(* local variable until the process is back.                               *)
FlagInv ==
  /\ FlagIsPerThread
  /\ \A c \in CPUs, p \in Slots : on[c] = p =>
       /\ pc[p] = "wait" => intena[c] = 1
       /\ pc[p] \in {"yield", "sleep", "wait_sleep"} /\ state[p] # "RUNNING" =>
            intena[c] = FlagOf(pc[p])
  /\ \A p \in Slots : pc[p] \in {"yield", "sleep", "wait_sleep"} =>
       saved[p] = FlagOf(pc[p]) \/ \E c \in CPUs : on[c] = p /\ state[p] # "RUNNING"

ProcInv ==
  /\ Typed /\ Counted
  /\ CpuInv /\ LockInv /\ ClaimInv
  /\ LabelInv /\ StackInv /\ FamilyInv /\ FlagInv

-----------------------------------------------------------------------------

(* What the proofs need to know of the numbers of the slots. *)
LEMMA SlotFacts == 0 \notin Slots /\ initproc \in Slots /\ IO \notin Slots /\ IO # 0
BY SizeAssumption DEF Slots, initproc, IO

(* The invariant's types are those of TypeOK. *)
LEMMA TypesSplit == TypeOK <=> Typed /\ Counted
<1>1. 0..NPROC = Slots \cup {0} /\ 0..IO = Slots \cup {0, IO}
  BY SizeAssumption DEF Slots, IO
<1>2. QED
  BY Zenon, <1>1 DEF TypeOK, Typed, Counted

(* The slot fork fills in is another one than the caller's, and no CPU has *)
(* a claim to it.                                                          *)
LEMMA ForkHasSlot ==
  ASSUME ProcInv, NEW p \in Slots, pc[p] \in {"fork_kstack", "fork_copy", "fork_run"}
  PROVE  np[p] \in Slots /\ np[p] # p /\ \A d \in CPUs : ~Claims(d, np[p])
<1>1. np[p] \in Slots /\ np[p] # p /\ state[np[p]] = "EMBRYO"
  BY SlotFacts DEF ProcInv, Typed, StackInv, Where, Forking, LabelInv
<1>2. QED
  BY Zenon, <1>1 DEF ProcInv, ClaimInv

(* What exit does to the table: p is a zombie, the sleepers that may have  *)
(* to know are not asleep, and nothing else changes.                       *)
Woken(p) ==
  /\ state' \in [Slots -> States]
  /\ state'[p] = "ZOMBIE"
  /\ \A q \in Slots \ {p} :
       state'[q] = state[q] \/ (state[q] = "SLEEPING" /\ state'[q] = "RUNNABLE")
  /\ \A q \in Slots : chan[q] = parent[p] => state'[q] # "SLEEPING"
  /\ \A q, k \in Slots :
       parent[k] = p /\ state[k] = "ZOMBIE" /\ chan[q] = initproc => state'[q] # "SLEEPING"

(* exit's calls of wakeup1 do that. *)
LEMMA ExitWakes ==
  ASSUME ProcInv, NEW p \in Slots,
         state' = [(IF \E q \in {q \in Slots : parent[q] = p} : state[q] = "ZOMBIE"
                      THEN wakeup1(wakeup1(state, parent[p]), initproc)
                      ELSE wakeup1(state, parent[p])) EXCEPT ![p] = "ZOMBIE"]
  PROVE  Woken(p)
<1> DEFINE told == wakeup1(state, parent[p])
           all == IF \E q \in {q \in Slots : parent[q] = p} : state[q] = "ZOMBIE"
                    THEN wakeup1(told, initproc) ELSE told
<1>1. told \in [Slots -> States]
  BY Zenon DEF wakeup1, ProcInv, Typed, States
<1>2. \A q \in Slots :
        told[q] = IF state[q] = "SLEEPING" /\ chan[q] = parent[p]
                    THEN "RUNNABLE" ELSE state[q]
  BY Zenon DEF wakeup1
<1> HIDE DEF told
<1>3. all \in [Slots -> States]
  BY Zenon, <1>1 DEF wakeup1, States
<1>4. \A q \in Slots :
        all[q] = IF /\ \E k \in Slots : parent[k] = p /\ state[k] = "ZOMBIE"
                    /\ told[q] = "SLEEPING" /\ chan[q] = initproc
                   THEN "RUNNABLE" ELSE told[q]
  BY Zenon DEF wakeup1
<1>5. state' = [all EXCEPT ![p] = "ZOMBIE"]
  BY Zenon DEF told
<1> HIDE DEF all
<1>6. QED
  BY <1>2, <1>3, <1>4, <1>5, Zenon DEF Woken, States

(* The next lemmas say what a step may do to the slots without disturbing  *)
(* a part of the invariant.  The processes that are executed stay RUNNING  *)
(* or are on their way to sched, and a chosen one stays where it is: ...   *)
LEMMA ClaimKept ==
  ASSUME ClaimInv, CpuInv, Typed, UNCHANGED <<proc, on, spc>>,
         \A q \in Slots : state'[q] = "RUNNING" => state[q] = "RUNNING",
         \A d \in CPUs, q \in Slots : on[d] = q =>
           \/ state'[q] = "RUNNING"
           \/ pc'[q] \in Parked /\ state'[q] \in {"RUNNABLE", "SLEEPING", "ZOMBIE"},
         \A d \in CPUs : spc[d] = "swtch" =>
           state'[proc[d]] = state[proc[d]] /\ pc'[proc[d]] = pc[proc[d]]
  PROVE  ClaimInv'
<1>1. \A d \in CPUs, q \in Slots : Claims(d, q)' <=> Claims(d, q)
  BY Zenon DEF Claims
<1>2. \A d, f \in CPUs, q \in Slots : Claims(d, q)' /\ Claims(f, q)' => d = f
  BY Zenon, <1>1 DEF ClaimInv
<1>3. \A q \in Slots : state'[q] = "RUNNING" => \E d \in CPUs : Claims(d, q)'
  BY Zenon, <1>1 DEF ClaimInv
<1>4. ASSUME NEW d \in CPUs, NEW q \in Slots, Claims(d, q)'
      PROVE  \/ state'[q] = "RUNNING"
             \/ /\ on'[d] = q /\ pc'[q] \in Parked
                /\ state'[q] \in {"RUNNABLE", "SLEEPING", "ZOMBIE"}
  <2>1. CASE on[d] = q
    BY Zenon, <2>1
  <2>2. CASE on[d] # q /\ spc[d] = "swtch" /\ proc[d] = q
    BY Zenon, <2>2 DEF ClaimInv, Claims
  <2>3. QED
    BY Zenon, <1>1, <1>4, <2>1, <2>2 DEF Claims
<1>5. \A d \in CPUs : spc'[d] = "swtch" => pc'[proc'[d]] \in Resumes
  BY Zenon DEF ClaimInv
<1>6. QED
  BY Zenon, <1>2, <1>3, <1>4, <1>5 DEF ClaimInv

(* ... the unused slots and those that a fork fills in stay as they are,   *)
(* and the forks where they are: ...                                       *)
LEMMA StackKept ==
  ASSUME StackInv, Typed, UNCHANGED <<kstack, np, parent>>,
         \A q \in Slots :
           state[q] \in {"UNUSED", "EMBRYO"} \/ state'[q] \in {"UNUSED", "EMBRYO"} =>
             state'[q] = state[q] /\ pc'[q] = pc[q],
         \A q \in Slots : Forking(q) \/ Forking(q)' => Where(q)' = Where(q)
  PROVE  StackInv'
<1>1. \A q \in Slots : /\ Forking(q)' <=> Forking(q)
                       /\ Forking(q) => Where(q)' = Where(q)
  BY Zenon DEF Forking
<1>2. \A q \in Slots : Forking(q) =>
        /\ np[q] \in Slots /\ state'[np[q]] = "EMBRYO" /\ pc'[np[q]] = pc[np[q]]
  BY Zenon DEF StackInv, Typed
<1>3. \A q \in Slots : state'[q] \notin {"UNUSED", "EMBRYO"} => kstack'[q] = 1
  BY Zenon DEF StackInv
<1>4. \A q \in Slots : Where(q)' \in {"fork_copy", "fork_run"} => Forking(q)'
  BY Zenon DEF Forking
<1>5. \A q \in Slots : Where(q)' = "fork_run" => Forking(q)'
  BY Zenon DEF Forking
<1>6. \A q \in Slots : Where(q)' \in {"fork_copy", "fork_run"} =>
        kstack'[np'[q]] = 1 /\ pc'[np'[q]] = "forkret"
  BY Zenon, <1>1, <1>2, <1>4 DEF StackInv
<1>7. \A q \in Slots : Where(q)' = "fork_run" => parent'[np'[q]] = q
  <2>1. \A q \in Slots : Where(q)' = "fork_run" => Where(q) = "fork_run"
    BY Zenon, <1>1, <1>5
  <2>2. \A q \in Slots : Where(q) = "fork_run" => parent[np[q]] = q
    BY Zenon DEF StackInv
  <2>3. QED
    BY Zenon, <2>1, <2>2
<1>8. QED
  BY Zenon, <1>1, <1>2, <1>3, <1>6, <1>7 DEF StackInv

(* ... nobody dies or is born, and nobody goes to sleep in wait.           *)
LEMMA FamilyKept ==
  ASSUME FamilyInv, Typed, UNCHANGED parent,
         \A q \in Slots :
           (\/ state[q] \in {"UNUSED", "EMBRYO", "ZOMBIE"}
            \/ state'[q] \in {"UNUSED", "EMBRYO", "ZOMBIE"}) => state'[q] = state[q],
         \A q \in Slots : state'[q] = "SLEEPING" /\ pc'[q] = "wait_sleep" =>
           state[q] = "SLEEPING" /\ pc[q] = "wait_sleep" /\ chan'[q] = chan[q]
  PROVE  FamilyInv'
<1>1. \A q \in Slots : state'[q] \in {"UNUSED", "EMBRYO", "ZOMBIE"} => state'[q] = state[q]
  BY Zenon
<1>2. NoOrphans'
  <2>1. \A q \in Slots : state'[q] \notin {"UNUSED", "EMBRYO"} =>
          state[q] \notin {"UNUSED", "EMBRYO"}
    BY Zenon
  <2>2. ASSUME NEW q \in Slots \ {initproc}, state'[q] \notin {"UNUSED", "EMBRYO"}
        PROVE  parent[q] # 0 /\ state'[parent[q]] \notin {"UNUSED", "EMBRYO", "ZOMBIE"}
    <3>1. parent[q] # 0 /\ state[parent[q]] \notin {"UNUSED", "EMBRYO", "ZOMBIE"}
      BY Zenon, <2>1, <2>2 DEF FamilyInv, NoOrphans
    <3>2. parent[q] \in Slots
      <4>1. q \in Slots
        BY Zenon
      <4>2. parent[q] \in Slots \cup {0}
        BY Zenon, <4>1 DEF Typed
      <4>3. QED
        BY Zenon, <3>1, <4>2
    <3>3. QED
      BY Zenon, <1>1, <3>1, <3>2
  <2>3. QED
    BY Zenon, <2>2 DEF NoOrphans
<1>3. WaitSeesZombie'
  BY Zenon, <1>1 DEF FamilyInv, WaitSeesZombie
<1>4. QED
  BY Zenon, <1>1, <1>2, <1>3, SlotFacts DEF FamilyInv

-----------------------------------------------------------------------------
(* One lemma for each action: it keeps the invariant.  An action that      *)
(* picks a process is restated for that process first.                     *)

USE CPUAssumption, SlotFacts
USE DEF Typed, Parked, At, goto, Lock, Unlock, Scheduling, sgoto,
        table, cpus, flags, local

(* A scheduler that has nothing to run opens interrupts (proc.c, scheduler). *)
LEMMA scheduler_sti_step ==
  ASSUME ProcInv, NEW c \in CPUs, scheduler_sti(c), UNCHANGED online
  PROVE  ProcInv'
<1> /\ Typed /\ Counted /\ CpuInv /\ LockInv /\ ClaimInv
    /\ LabelInv /\ StackInv /\ FamilyInv /\ FlagInv
  BY Zenon DEF ProcInv
<1> USE DEF scheduler_sti
<1>1. Typed'
  BY Zenon DEF States, Labels, Interruptible
<1>2. Counted' /\ LabelInv' /\ StackInv' /\ FamilyInv'
  BY DEF Counted, LabelInv, StackInv, Where, Forking, FamilyInv, NoOrphans,
    WaitSeesZombie
<1>3. CpuInv'
  BY Zenon DEF CpuInv
<1>4. LockInv'
  BY DEF LockInv, CpuInv, InLock, ClaimInv, Claims, Resumes, Interruptible
<1>5. ClaimInv'
  BY DEF CpuInv, ClaimInv, LabelInv, LockInv, InLock, Claims, Resumes
<1>6. FlagInv'
  BY DEF FlagInv, FlagIsPerThread, FlagOf, LockInv, InLock, ClaimInv, Claims, CpuInv,
    Interruptible, Resumes
<1>7. QED
  BY Zenon, <1>1, <1>2, <1>3, <1>4, <1>5, <1>6 DEF ProcInv

(* It takes ptable.lock, which nobody holds, before it looks at the table. *)
LEMMA scheduler_acquire_step ==
  ASSUME ProcInv, NEW c \in CPUs, scheduler_acquire(c), UNCHANGED online
  PROVE  ProcInv'
<1> /\ Typed /\ Counted /\ CpuInv /\ LockInv /\ ClaimInv
    /\ LabelInv /\ StackInv /\ FamilyInv /\ FlagInv
  BY Zenon DEF ProcInv
<1> USE DEF scheduler_acquire
<1>1. Typed'
  BY Zenon DEF States, Labels, Interruptible
<1>2. Counted' /\ LabelInv' /\ StackInv' /\ FamilyInv'
  BY DEF Counted, LabelInv, StackInv, Where, Forking, FamilyInv, NoOrphans,
    WaitSeesZombie
<1>3. CpuInv'
  BY Zenon DEF CpuInv
<1>4. LockInv'
  BY DEF LockInv, CpuInv, InLock, ClaimInv, Claims, Resumes, Interruptible
<1>5. ClaimInv'
  BY DEF CpuInv, ClaimInv, LabelInv, LockInv, InLock, Claims, Resumes
<1>6. FlagInv'
  BY DEF FlagInv, FlagIsPerThread, FlagOf, LockInv, InLock, ClaimInv, Claims, CpuInv,
    Interruptible, Resumes
<1>7. QED
  BY Zenon, <1>1, <1>2, <1>3, <1>4, <1>5, <1>6 DEF ProcInv

(* It chooses a slot that is RUNNABLE.  It holds ptable.lock, so no CPU is *)
(* still on that slot's stack.                                             *)
LEMMA scheduler_choose_step ==
  ASSUME ProcInv, NEW c \in CPUs, scheduler_choose(c), UNCHANGED online
  PROVE  ProcInv'
<1> /\ Typed /\ Counted /\ CpuInv /\ LockInv /\ ClaimInv
    /\ LabelInv /\ StackInv /\ FamilyInv /\ FlagInv
  BY Zenon DEF ProcInv
<1>1. ASSUME NEW p \in Slots,
            Scheduling(c, "scan"),
            state[p] = "RUNNABLE",
            proc' = [proc EXCEPT ![c] = p],
            state' = [state EXCEPT ![p] = "RUNNING"],
            scan' = [scan EXCEPT ![c] = p + 1],
            sgoto(c, "swtch"),
            UNCHANGED <<pid, parent, chan, killed, kstack, nextpid, ptlock, on, flags, pc, local>>
     PROVE  ProcInv'
  <2> USE <1>1
  <2>1. Typed'
    BY Zenon DEF States, Labels, Interruptible
  <2>2. Counted'
    BY SizeAssumption DEF Counted, Slots
  <2>3. CpuInv'
    BY Zenon DEF CpuInv
  <2>4. LockInv'
    BY DEF LockInv, CpuInv, InLock, ClaimInv, Claims, Resumes, Interruptible
  <2>5. ClaimInv'
    BY DEF CpuInv, ClaimInv, LabelInv, LockInv, InLock, Claims, Resumes
  <2>6. LabelInv'
    BY DEF LabelInv, Resumes, StackInv, Where, Forking, Interruptible
  <2>7. StackInv'
    BY DEF LabelInv, StackInv, Where, Forking, Resumes, Interruptible
  <2>8. FamilyInv'
    BY DEF LabelInv, FamilyInv, NoOrphans, WaitSeesZombie, NoZombieChild, StackInv,
      Where, Forking, Resumes
  <2>9. FlagInv'
    BY DEF FlagInv, FlagIsPerThread, FlagOf, LockInv, InLock, ClaimInv, Claims, CpuInv,
      Interruptible, Resumes
  <2>10. QED
    BY Zenon, <2>1, <2>2, <2>3, <2>4, <2>5, <2>6, <2>7, <2>8, <2>9 DEF ProcInv
<1>2. QED
  BY <1>1, Zenon DEF scheduler_choose

(* It switches to the chosen stack, and the lock goes with it: the slot is *)
(* at a label that expects to hold ptable.lock.                            *)
LEMMA scheduler_swtch_step ==
  ASSUME ProcInv, NEW c \in CPUs, scheduler_swtch(c), UNCHANGED online
  PROVE  ProcInv'
<1> /\ Typed /\ Counted /\ CpuInv /\ LockInv /\ ClaimInv
    /\ LabelInv /\ StackInv /\ FamilyInv /\ FlagInv
  BY Zenon DEF ProcInv
<1> USE DEF scheduler_swtch
<1>1. Typed'
  BY Zenon DEF States, Labels, Interruptible
<1>2. Counted' /\ LabelInv' /\ StackInv' /\ FamilyInv'
  BY DEF Counted, LabelInv, StackInv, Where, Forking, FamilyInv, NoOrphans,
    WaitSeesZombie
<1>3. CpuInv'
  BY Zenon DEF CpuInv
<1>4. LockInv'
  BY DEF LockInv, CpuInv, InLock, ClaimInv, Claims, Resumes, Interruptible
<1>5. ClaimInv'
  BY DEF CpuInv, ClaimInv, LabelInv, LockInv, InLock, Claims, Resumes
<1>6. FlagInv'
  BY DEF FlagInv, FlagIsPerThread, FlagOf, LockInv, InLock, ClaimInv, Claims, CpuInv,
    Interruptible, Resumes
<1>7. QED
  BY Zenon, <1>1, <1>2, <1>3, <1>4, <1>5, <1>6 DEF ProcInv

(* The process has switched back. *)
LEMMA scheduler_back_step ==
  ASSUME ProcInv, NEW c \in CPUs, scheduler_back(c), UNCHANGED online
  PROVE  ProcInv'
<1> /\ Typed /\ Counted /\ CpuInv /\ LockInv /\ ClaimInv
    /\ LabelInv /\ StackInv /\ FamilyInv /\ FlagInv
  BY Zenon DEF ProcInv
<1> USE DEF scheduler_back
<1>1. Typed'
  BY Zenon DEF States, Labels, Interruptible
<1>2. Counted' /\ LabelInv' /\ StackInv' /\ FamilyInv' /\ FlagInv'
  BY DEF Counted, LabelInv, StackInv, Where, Forking, FamilyInv, NoOrphans,
    WaitSeesZombie, FlagInv, FlagIsPerThread, FlagOf
<1>3. CpuInv'
  BY Zenon DEF CpuInv
<1>4. LockInv'
  BY DEF LockInv, CpuInv, InLock, ClaimInv, Claims, Resumes, Interruptible
<1>5. ClaimInv'
  BY DEF CpuInv, ClaimInv, LabelInv, LockInv, InLock, Claims, Resumes
<1>6. QED
  BY Zenon, <1>1, <1>2, <1>3, <1>4, <1>5 DEF ProcInv

(* The scan is over. *)
LEMMA scheduler_release_step ==
  ASSUME ProcInv, NEW c \in CPUs, scheduler_release(c), UNCHANGED online
  PROVE  ProcInv'
<1> /\ Typed /\ Counted /\ CpuInv /\ LockInv /\ ClaimInv
    /\ LabelInv /\ StackInv /\ FamilyInv /\ FlagInv
  BY Zenon DEF ProcInv
<1> USE DEF scheduler_release
<1>1. Typed'
  BY Zenon DEF States, Labels, Interruptible
<1>2. LabelInv' /\ StackInv' /\ FamilyInv'
  BY DEF LabelInv, StackInv, Where, Forking, FamilyInv, NoOrphans,
    WaitSeesZombie
<1>3. Counted'
  BY SizeAssumption DEF Counted, Slots
<1>4. CpuInv'
  BY Zenon DEF CpuInv
<1>5. LockInv'
  BY DEF LockInv, CpuInv, InLock, ClaimInv, Claims, Resumes, Interruptible
<1>6. ClaimInv'
  BY DEF CpuInv, ClaimInv, LabelInv, LockInv, InLock, Claims, Resumes
<1>7. FlagInv'
  BY DEF FlagInv, FlagIsPerThread, FlagOf, LockInv, InLock, ClaimInv, Claims, CpuInv,
    Interruptible, Resumes
<1>8. QED
  BY Zenon, <1>1, <1>2, <1>3, <1>4, <1>5, <1>6, <1>7 DEF ProcInv

(* A process that has given up the CPU switches to the scheduler; from then *)
(* on its flag is in sched's local variable.                               *)
LEMMA sched_step ==
  ASSUME ProcInv, NEW c \in CPUs, sched(c), UNCHANGED online
  PROVE  ProcInv'
<1> /\ Typed /\ Counted /\ CpuInv /\ LockInv /\ ClaimInv
    /\ LabelInv /\ StackInv /\ FamilyInv /\ FlagInv
  BY Zenon DEF ProcInv
<1>1. ASSUME NEW p \in Slots,
            on[c] = p,
            pc[p] \in Parked,
            state[p] # "RUNNING",
            saved' = [saved EXCEPT ![p] = intena[c]],
            on' = [on EXCEPT ![c] = 0],
            UNCHANGED <<table, ptlock, proc, spc, scan, flags, pc, ret, np>>
     PROVE  ProcInv'
  <2> USE <1>1
  <2>1. Typed'
    BY Zenon DEF States, Labels, Interruptible
  <2>2. Counted' /\ LabelInv' /\ StackInv' /\ FamilyInv'
    BY DEF Counted, LabelInv, StackInv, Where, Forking, FamilyInv, NoOrphans,
      WaitSeesZombie
  <2>3. CpuInv'
    BY Zenon DEF CpuInv
  <2>4. LockInv'
    BY DEF LockInv, CpuInv, InLock, ClaimInv, Claims, Resumes, Interruptible
  <2>5. ClaimInv'
    BY DEF CpuInv, ClaimInv, LabelInv, LockInv, InLock, Claims, Resumes
  <2>6. FlagInv'
    BY DEF FlagInv, FlagIsPerThread, FlagOf, LockInv, InLock, ClaimInv, Claims, CpuInv,
      Interruptible, Resumes
  <2>7. QED
    BY Zenon, <2>1, <2>2, <2>3, <2>4, <2>5, <2>6 DEF ProcInv
<1>2. QED
  BY <1>1, Zenon DEF sched

(* A tick interrupts a process, or ends a killed one. *)
LEMMA trap_timer_step ==
  ASSUME ProcInv, NEW c \in CPUs, trap_timer(c), UNCHANGED online
  PROVE  ProcInv'
<1> /\ Typed /\ Counted /\ CpuInv /\ LockInv /\ ClaimInv
    /\ LabelInv /\ StackInv /\ FamilyInv /\ FlagInv
  BY Zenon DEF ProcInv
<1>1. ASSUME NEW p \in Slots,
            At(c, p, "user"),
            goto(p, "exit"),
            intf[c] = 1,
            intf' = [intf EXCEPT ![c] = 0],
            UNCHANGED <<table, ptlock, cpus, intena, local>>
     PROVE  ProcInv'
  <2> USE <1>1
  <2>1. Typed'
    BY Zenon DEF States, Labels, Interruptible
  <2>2. Counted' /\ CpuInv'
    BY Zenon DEF Counted, CpuInv
  <2>3. LockInv'
    BY DEF LockInv, CpuInv, InLock, ClaimInv, Claims, Resumes, Interruptible
  <2>4. ClaimInv'
    BY DEF CpuInv, ClaimInv, LabelInv, LockInv, InLock, Claims, Resumes
  <2>5. LabelInv'
    BY DEF LabelInv, Resumes, StackInv, Where, Forking, Interruptible
  <2>6. StackInv'
    BY DEF LabelInv, StackInv, Where, Forking, Resumes, Interruptible
  <2>7. FamilyInv'
    BY DEF LabelInv, FamilyInv, NoOrphans, WaitSeesZombie, NoZombieChild, StackInv,
      Where, Forking, Resumes
  <2>8. FlagInv'
    BY DEF FlagInv, FlagIsPerThread, FlagOf, LockInv, InLock, ClaimInv, Claims, CpuInv,
      Interruptible, Resumes
  <2>9. QED
    BY Zenon, <2>1, <2>2, <2>3, <2>4, <2>5, <2>6, <2>7, <2>8 DEF ProcInv
<1>2. ASSUME NEW p \in Slots, NEW l \in Interruptible,
            At(c, p, l),
            goto(p, "tick"),
            ret' = [ret EXCEPT ![p] = l],
            intf[c] = 1,
            intf' = [intf EXCEPT ![c] = 0],
            UNCHANGED <<table, ptlock, cpus, intena, saved, np>>
     PROVE  ProcInv'
  <2> USE <1>2
  <2>1. Typed'
    BY Zenon DEF States, Labels, Interruptible
  <2>2. Counted' /\ CpuInv'
    BY Zenon DEF Counted, CpuInv
  <2>3. LockInv'
    BY DEF LockInv, CpuInv, InLock, ClaimInv, Claims, Resumes, Interruptible
  <2>4. ClaimInv'
    BY DEF CpuInv, ClaimInv, LabelInv, LockInv, InLock, Claims, Resumes
  <2>5. LabelInv'
    BY DEF LabelInv, Resumes, StackInv, Where, Forking, Interruptible
  <2>6. StackInv'
    BY DEF LabelInv, StackInv, Where, Forking, Resumes, Interruptible
  <2>7. FamilyInv'
    BY DEF LabelInv, FamilyInv, NoOrphans, WaitSeesZombie, NoZombieChild, StackInv,
      Where, Forking, Resumes
  <2>8. FlagInv'
    BY DEF FlagInv, FlagIsPerThread, FlagOf, LockInv, InLock, ClaimInv, Claims, CpuInv,
      Interruptible, Resumes
  <2>9. QED
    BY Zenon, <2>1, <2>2, <2>3, <2>4, <2>5, <2>6, <2>7, <2>8 DEF ProcInv
<1>3. QED
  BY Zenon, <1>1, <1>2 DEF trap_timer

(* The tick handler gives up the CPU. *)
LEMMA yield_step ==
  ASSUME ProcInv, NEW c \in CPUs, yield(c), UNCHANGED online
  PROVE  ProcInv'
<1> /\ Typed /\ Counted /\ CpuInv /\ LockInv /\ ClaimInv
    /\ LabelInv /\ StackInv /\ FamilyInv /\ FlagInv
  BY Zenon DEF ProcInv
<1>1. ASSUME NEW p \in Slots,
            At(c, p, "tick"),
            state' = [state EXCEPT ![p] = "RUNNABLE"],
            goto(p, "yield"),
            Lock(c),
            UNCHANGED <<pid, parent, chan, killed, kstack, nextpid, cpus, local>>
     PROVE  ProcInv'
  <2> USE <1>1
  <2>1. Typed'
    BY Zenon DEF States, Labels, Interruptible
  <2>2. Counted' /\ CpuInv'
    BY Zenon DEF Counted, CpuInv
  <2>3. LockInv'
    BY DEF LockInv, CpuInv, InLock, ClaimInv, Claims, Resumes, Interruptible
  <2>4. ClaimInv'
    BY DEF CpuInv, ClaimInv, LabelInv, LockInv, InLock, Claims, Resumes
  <2>5. LabelInv'
    BY DEF LabelInv, Resumes, StackInv, Where, Forking, Interruptible
  <2>6. StackInv'
    BY DEF LabelInv, StackInv, Where, Forking, Resumes, Interruptible
  <2>7. FamilyInv'
    BY DEF LabelInv, FamilyInv, NoOrphans, WaitSeesZombie, NoZombieChild, StackInv,
      Where, Forking, Resumes
  <2>8. FlagInv'
    BY DEF FlagInv, FlagIsPerThread, FlagOf, LockInv, InLock, ClaimInv, Claims, CpuInv,
      Interruptible, Resumes
  <2>9. QED
    BY Zenon, <2>1, <2>2, <2>3, <2>4, <2>5, <2>6, <2>7, <2>8 DEF ProcInv
<1>2. QED
  BY <1>1, Zenon DEF yield

(* ... and gets it back, perhaps on another CPU. *)
LEMMA yield_return_step ==
  ASSUME ProcInv, NEW c \in CPUs, yield_return(c), UNCHANGED online
  PROVE  ProcInv'
<1> /\ Typed /\ Counted /\ CpuInv /\ LockInv /\ ClaimInv
    /\ LabelInv /\ StackInv /\ FamilyInv /\ FlagInv
  BY Zenon DEF ProcInv
<1>1. ASSUME NEW p \in Slots,
            At(c, p, "yield"),
            Unlock(c, saved[p]),
            saved' = [saved EXCEPT ![p] = 0],
            goto(p, "iret"),
            UNCHANGED <<table, cpus, ret, np>>
     PROVE  ProcInv'
  <2> USE <1>1
  <2>1. Typed'
    BY Zenon DEF States, Labels, Interruptible
  <2>2. Counted' /\ CpuInv'
    BY Zenon DEF Counted, CpuInv
  <2>3. LockInv'
    BY DEF LockInv, CpuInv, InLock, ClaimInv, Claims, Resumes, Interruptible
  <2>4. ClaimInv'
    BY DEF CpuInv, ClaimInv, LabelInv, LockInv, InLock, Claims, Resumes
  <2>5. LabelInv'
    BY DEF LabelInv, Resumes, StackInv, Where, Forking, Interruptible
  <2>6. StackInv'
    BY DEF LabelInv, StackInv, Where, Forking, Resumes, Interruptible
  <2>7. FamilyInv'
    BY DEF LabelInv, FamilyInv, NoOrphans, WaitSeesZombie, NoZombieChild, StackInv,
      Where, Forking, Resumes
  <2>8. FlagInv'
    BY DEF FlagInv, FlagIsPerThread, FlagOf, LockInv, InLock, ClaimInv, Claims, CpuInv,
      Interruptible, Resumes
  <2>9. QED
    BY Zenon, <2>1, <2>2, <2>3, <2>4, <2>5, <2>6, <2>7, <2>8 DEF ProcInv
<1>2. QED
  BY <1>1, Zenon DEF yield_return, sched_return

(* The handler returns to the code it interrupted. *)
LEMMA trap_iret_step ==
  ASSUME ProcInv, NEW c \in CPUs, trap_iret(c), UNCHANGED online
  PROVE  ProcInv'
<1> /\ Typed /\ Counted /\ CpuInv /\ LockInv /\ ClaimInv
    /\ LabelInv /\ StackInv /\ FamilyInv /\ FlagInv
  BY Zenon DEF ProcInv
<1>1. ASSUME NEW p \in Slots,
            At(c, p, "iret"),
            ret[p] = "user",
            goto(p, "exit"),
            ret' = [ret EXCEPT ![p] = "user"],
            UNCHANGED <<table, ptlock, cpus, intf, intena, saved, np>>
     PROVE  ProcInv'
  <2> USE <1>1
  <2>1. Typed'
    BY Zenon DEF States, Labels, Interruptible
  <2>2. Counted' /\ CpuInv'
    BY Zenon DEF Counted, CpuInv
  <2>3. LockInv'
    BY DEF LockInv, CpuInv, InLock, ClaimInv, Claims, Resumes, Interruptible
  <2>4. ClaimInv'
    BY DEF CpuInv, ClaimInv, LabelInv, LockInv, InLock, Claims, Resumes
  <2>5. LabelInv'
    BY DEF LabelInv, Resumes, StackInv, Where, Forking, Interruptible
  <2>6. StackInv'
    BY DEF LabelInv, StackInv, Where, Forking, Resumes, Interruptible
  <2>7. FamilyInv'
    BY DEF LabelInv, FamilyInv, NoOrphans, WaitSeesZombie, NoZombieChild, StackInv,
      Where, Forking, Resumes
  <2>8. FlagInv'
    BY DEF FlagInv, FlagIsPerThread, FlagOf, LockInv, InLock, ClaimInv, Claims, CpuInv,
      Interruptible, Resumes
  <2>9. QED
    BY Zenon, <2>1, <2>2, <2>3, <2>4, <2>5, <2>6, <2>7, <2>8 DEF ProcInv
<1>2. ASSUME NEW p \in Slots, NEW l \in Interruptible,
            At(c, p, "iret"),
            l = ret[p],
            goto(p, l),
            intf' = [intf EXCEPT ![c] = 1],
            ret' = [ret EXCEPT ![p] = "user"],
            UNCHANGED <<table, ptlock, cpus, intena, saved, np>>
     PROVE  ProcInv'
  <2> USE <1>2
  <2>1. Typed'
    BY Zenon DEF States, Labels, Interruptible
  <2>2. Counted' /\ CpuInv'
    BY Zenon DEF Counted, CpuInv
  <2>3. LockInv'
    BY DEF LockInv, CpuInv, InLock, ClaimInv, Claims, Resumes, Interruptible
  <2>4. ClaimInv'
    BY SMTT(40) DEF CpuInv, ClaimInv, LabelInv, LockInv, InLock, Claims, Resumes
  <2>5. LabelInv'
    BY DEF LabelInv, Resumes, StackInv, Where, Forking, Interruptible
  <2>6. StackInv'
    BY DEF LabelInv, StackInv, Where, Forking, Resumes, Interruptible
  <2>7. FamilyInv'
    BY DEF LabelInv, FamilyInv, NoOrphans, WaitSeesZombie, NoZombieChild, StackInv,
      Where, Forking, Resumes
  <2>8. FlagInv'
    BY DEF FlagInv, FlagIsPerThread, FlagOf, LockInv, InLock, ClaimInv, Claims, CpuInv,
      Interruptible, Resumes
  <2>9. QED
    BY Zenon, <2>1, <2>2, <2>3, <2>4, <2>5, <2>6, <2>7, <2>8 DEF ProcInv
<1>3. QED
  BY <1>1, <1>2, Zenon DEF trap_iret

(* A new process releases the lock that the scheduler took. *)
LEMMA forkret_step ==
  ASSUME ProcInv, NEW c \in CPUs, forkret(c), UNCHANGED online
  PROVE  ProcInv'
<1> /\ Typed /\ Counted /\ CpuInv /\ LockInv /\ ClaimInv
    /\ LabelInv /\ StackInv /\ FamilyInv /\ FlagInv
  BY Zenon DEF ProcInv
<1>1. ASSUME NEW p \in Slots,
            At(c, p, "forkret"),
            goto(p, "trapret"),
            Unlock(c, intena[c]),
            UNCHANGED <<table, cpus, local>>
     PROVE  ProcInv'
  <2> USE <1>1
  <2>1. Typed'
    BY Zenon DEF States, Labels, Interruptible
  <2>2. Counted' /\ CpuInv'
    BY Zenon DEF Counted, CpuInv
  <2>3. LockInv'
    BY DEF LockInv, CpuInv, InLock, ClaimInv, Claims, Resumes, Interruptible
  <2>4. ClaimInv'
    BY DEF CpuInv, ClaimInv, LabelInv, LockInv, InLock, Claims, Resumes
  <2>5. LabelInv'
    BY DEF LabelInv, Resumes, StackInv, Where, Forking, Interruptible
  <2>6. StackInv'
    BY DEF LabelInv, StackInv, Where, Forking, Resumes, Interruptible
  <2>7. FamilyInv'
    BY DEF LabelInv, FamilyInv, NoOrphans, WaitSeesZombie, NoZombieChild, StackInv,
      Where, Forking, Resumes
  <2>8. FlagInv'
    BY DEF FlagInv, FlagIsPerThread, FlagOf, LockInv, InLock, ClaimInv, Claims, CpuInv,
      Interruptible, Resumes
  <2>9. QED
    BY Zenon, <2>1, <2>2, <2>3, <2>4, <2>5, <2>6, <2>7, <2>8 DEF ProcInv
<1>2. QED
  BY <1>1, Zenon DEF forkret

(* It goes to user space. *)
LEMMA trapret_step ==
  ASSUME ProcInv, NEW c \in CPUs, trapret(c), UNCHANGED online
  PROVE  ProcInv'
<1> /\ Typed /\ Counted /\ CpuInv /\ LockInv /\ ClaimInv
    /\ LabelInv /\ StackInv /\ FamilyInv /\ FlagInv
  BY Zenon DEF ProcInv
<1>1. ASSUME NEW p \in Slots,
            At(c, p, "trapret"),
            goto(p, "user"),
            intf' = [intf EXCEPT ![c] = 1],
            UNCHANGED <<table, ptlock, cpus, intena, local>>
     PROVE  ProcInv'
  <2> USE <1>1
  <2>1. Typed'
    BY Zenon DEF States, Labels, Interruptible
  <2>2. Counted' /\ CpuInv'
    BY Zenon DEF Counted, CpuInv
  <2>3. LockInv'
    BY DEF LockInv, CpuInv, InLock, ClaimInv, Claims, Resumes, Interruptible
  <2>4. ClaimInv'
    BY DEF CpuInv, ClaimInv, LabelInv, LockInv, InLock, Claims, Resumes
  <2>5. LabelInv'
    BY DEF LabelInv, Resumes, StackInv, Where, Forking, Interruptible
  <2>6. StackInv'
    BY DEF LabelInv, StackInv, Where, Forking, Resumes, Interruptible
  <2>7. FamilyInv'
    BY DEF LabelInv, FamilyInv, NoOrphans, WaitSeesZombie, NoZombieChild, StackInv,
      Where, Forking, Resumes
  <2>8. FlagInv'
    BY DEF FlagInv, FlagIsPerThread, FlagOf, LockInv, InLock, ClaimInv, Claims, CpuInv,
      Interruptible, Resumes
  <2>9. QED
    BY Zenon, <2>1, <2>2, <2>3, <2>4, <2>5, <2>6, <2>7, <2>8 DEF ProcInv
<1>2. QED
  BY <1>1, Zenon DEF trapret

(* A system call starts. *)
LEMMA trap_syscall_step ==
  ASSUME ProcInv, NEW c \in CPUs, trap_syscall(c), UNCHANGED online
  PROVE  ProcInv'
<1> /\ Typed /\ Counted /\ CpuInv /\ LockInv /\ ClaimInv
    /\ LabelInv /\ StackInv /\ FamilyInv /\ FlagInv
  BY Zenon DEF ProcInv
<1>1. ASSUME NEW p \in Slots, NEW m \in {"exit", "sys"},
            At(c, p, "user"),
            goto(p, m),
            UNCHANGED <<table, ptlock, cpus, flags, local>>
     PROVE  ProcInv'
  <2> USE <1>1
  <2>1. Typed'
    BY Zenon DEF States, Labels, Interruptible
  <2>2. Counted' /\ CpuInv'
    BY Zenon DEF Counted, CpuInv
  <2>3. LockInv'
    BY DEF LockInv, CpuInv, InLock, ClaimInv, Claims, Resumes, Interruptible
  <2>4. ClaimInv'
    BY DEF CpuInv, ClaimInv, LabelInv, LockInv, InLock, Claims, Resumes
  <2>5. LabelInv'
    BY DEF LabelInv, Resumes, StackInv, Where, Forking, Interruptible
  <2>6. StackInv'
    BY DEF LabelInv, StackInv, Where, Forking, Resumes, Interruptible
  <2>7. FamilyInv'
    BY DEF LabelInv, FamilyInv, NoOrphans, WaitSeesZombie, NoZombieChild, StackInv,
      Where, Forking, Resumes
  <2>8. FlagInv'
    BY DEF FlagInv, FlagIsPerThread, FlagOf, LockInv, InLock, ClaimInv, Claims, CpuInv,
      Interruptible, Resumes
  <2>9. QED
    BY Zenon, <2>1, <2>2, <2>3, <2>4, <2>5, <2>6, <2>7, <2>8 DEF ProcInv
<1>2. QED
  BY <1>1, Zenon DEF trap_syscall

(* A system call ends. *)
LEMMA sysret_step ==
  ASSUME ProcInv, NEW c \in CPUs, sysret(c), UNCHANGED online
  PROVE  ProcInv'
<1> /\ Typed /\ Counted /\ CpuInv /\ LockInv /\ ClaimInv
    /\ LabelInv /\ StackInv /\ FamilyInv /\ FlagInv
  BY Zenon DEF ProcInv
<1>1. ASSUME NEW p \in Slots, NEW l \in {"sys", "sysret"}, NEW m \in {"exit", "user"},
            At(c, p, l),
            goto(p, m),
            UNCHANGED <<table, ptlock, cpus, flags, local>>
     PROVE  ProcInv'
  <2> USE <1>1
  <2>1. Typed'
    BY Zenon DEF States, Labels, Interruptible
  <2>2. Counted' /\ CpuInv'
    BY Zenon DEF Counted, CpuInv
  <2>3. LockInv'
    BY DEF LockInv, CpuInv, InLock, ClaimInv, Claims, Resumes, Interruptible
  <2>4. ClaimInv'
    BY DEF CpuInv, ClaimInv, LabelInv, LockInv, InLock, Claims, Resumes
  <2>5. LabelInv'
    BY DEF LabelInv, Resumes, StackInv, Where, Forking, Interruptible
  <2>6. StackInv'
    BY DEF LabelInv, StackInv, Where, Forking, Resumes, Interruptible
  <2>7. FamilyInv'
    BY DEF LabelInv, FamilyInv, NoOrphans, WaitSeesZombie, NoZombieChild, StackInv,
      Where, Forking, Resumes
  <2>8. FlagInv'
    BY DEF FlagInv, FlagIsPerThread, FlagOf, LockInv, InLock, ClaimInv, Claims, CpuInv,
      Interruptible, Resumes
  <2>9. QED
    BY Zenon, <2>1, <2>2, <2>3, <2>4, <2>5, <2>6, <2>7, <2>8 DEF ProcInv
<1>2. QED
  BY <1>1, Zenon DEF sysret

(* allocproc finds no free slot, or claims the first one. *)
LEMMA allocproc_step ==
  ASSUME ProcInv, NEW c \in CPUs, allocproc(c), UNCHANGED online
  PROVE  ProcInv'
<1> /\ Typed /\ Counted /\ CpuInv /\ LockInv /\ ClaimInv
    /\ LabelInv /\ StackInv /\ FamilyInv /\ FlagInv
  BY Zenon DEF ProcInv
<1>1. ASSUME NEW p \in Slots,
            At(c, p, "sys"),
            goto(p, "sysret"),
            UNCHANGED <<table, ptlock, cpus, flags, local>>
     PROVE  ProcInv'
  <2> USE <1>1
  <2>1. Typed'
    BY Zenon DEF States, Labels, Interruptible
  <2>2. Counted' /\ CpuInv'
    BY Zenon DEF Counted, CpuInv
  <2>3. LockInv'
    BY DEF LockInv, CpuInv, InLock, ClaimInv, Claims, Resumes, Interruptible
  <2>4. ClaimInv'
    BY DEF CpuInv, ClaimInv, LabelInv, LockInv, InLock, Claims, Resumes
  <2>5. LabelInv'
    BY DEF LabelInv, Resumes, StackInv, Where, Forking, Interruptible
  <2>6. StackInv'
    BY DEF LabelInv, StackInv, Where, Forking, Resumes, Interruptible
  <2>7. FamilyInv'
    BY DEF LabelInv, FamilyInv, NoOrphans, WaitSeesZombie, NoZombieChild, StackInv,
      Where, Forking, Resumes
  <2>8. FlagInv'
    BY SMTT(40) DEF FlagInv, FlagIsPerThread, FlagOf, LockInv, InLock, ClaimInv, Claims, CpuInv,
      Interruptible, Resumes
  <2>9. QED
    BY Zenon, <2>1, <2>2, <2>3, <2>4, <2>5, <2>6, <2>7, <2>8 DEF ProcInv
<1>2. ASSUME NEW p \in Slots, NEW q \in Slots,
            At(c, p, "sys"),
            state[q] = "UNUSED",
            nextpid <= MaxPid,
            state' = [state EXCEPT ![q] = "EMBRYO"],
            pid' = [pid EXCEPT ![q] = nextpid],
            nextpid' = nextpid + 1,
            np' = [np EXCEPT ![p] = q],
            goto(p, "fork_kstack"),
            UNCHANGED <<parent, chan, killed, kstack, ptlock, cpus, flags, ret, saved>>
     PROVE  ProcInv'
  <2> USE <1>2
  <2>1. Typed'
    BY Zenon DEF States, Labels, Interruptible
  <2>2. CpuInv'
    BY Zenon DEF CpuInv
  <2>3. Counted'
    BY SizeAssumption DEF Counted, Slots
  <2>4. LockInv'
    BY DEF LockInv, CpuInv, InLock, ClaimInv, Claims, Resumes, Interruptible
  <2>5. ClaimInv'
    BY SMTT(40) DEF CpuInv, ClaimInv, LabelInv, LockInv, InLock, Claims, Resumes
  <2>6. LabelInv'
    BY DEF LabelInv, Resumes, StackInv, Where, Forking, Interruptible
  <2>7. StackInv'
    BY SMTT(40) DEF LabelInv, StackInv, Where, Forking, Resumes, Interruptible
  <2>8. FamilyInv'
    BY SMTT(40) DEF LabelInv, FamilyInv, NoOrphans, WaitSeesZombie, NoZombieChild, StackInv,
      Where, Forking, Resumes
  <2>9. FlagInv'
    BY DEF FlagInv, FlagIsPerThread, FlagOf, LockInv, InLock, ClaimInv, Claims, CpuInv,
      Interruptible, Resumes
  <2>10. QED
    BY Zenon, <2>1, <2>2, <2>3, <2>4, <2>5, <2>6, <2>7, <2>8, <2>9 DEF ProcInv
<1>3. QED
  BY <1>1, <1>2, Zenon DEF allocproc

(* The new slot, which no CPU is on, gets its stack, or is given back. *)
LEMMA allocproc_kstack_step ==
  ASSUME ProcInv, NEW c \in CPUs, allocproc_kstack(c), UNCHANGED online
  PROVE  ProcInv'
<1> /\ Typed /\ Counted /\ CpuInv /\ LockInv /\ ClaimInv
    /\ LabelInv /\ StackInv /\ FamilyInv /\ FlagInv
  BY Zenon DEF ProcInv
<1>1. ASSUME NEW p \in Slots, NEW q \in Slots,
            At(c, p, "fork_kstack"),
            q = np[p],
            q # p,
            \A d \in CPUs : ~Claims(d, q),
            kstack' = [kstack EXCEPT ![q] = 1],
            pc' = [pc EXCEPT ![p] = "fork_copy", ![q] = "forkret"],
            UNCHANGED <<state, pid, parent, chan, killed, nextpid, ptlock, cpus, flags, local>>
     PROVE  ProcInv'
  <2> USE <1>1
  <2>1. Typed'
    BY Zenon DEF States, Labels, Interruptible
  <2>2. Counted' /\ CpuInv'
    BY Zenon DEF Counted, CpuInv
  <2>3. LockInv'
    BY DEF LockInv, CpuInv, InLock, ClaimInv, Claims, Resumes, Interruptible
  <2>4. ClaimInv'
    BY SMTT(40) DEF CpuInv, ClaimInv, LabelInv, LockInv, InLock, Claims, Resumes
  <2>5. LabelInv'
    BY DEF LabelInv, Resumes, StackInv, Where, Forking, Interruptible
  <2>6. StackInv'
    BY SMTT(40) DEF LabelInv, StackInv, Where, Forking, Resumes, Interruptible
  <2>7. FamilyInv'
    BY DEF LabelInv, FamilyInv, NoOrphans, WaitSeesZombie, NoZombieChild, StackInv,
      Where, Forking, Resumes
  <2>8. FlagInv'
    <3>1. pc'[p] = "fork_copy" /\ \A r \in Slots \ {p, q} : pc'[r] = pc[r]
      BY Zenon
    <3>2. pc'[q] = "forkret"
      BY Zenon
    <3>3. \A d \in CPUs : on[d] # q
      BY Zenon DEF Claims
    <3>4. FlagIsPerThread'
      BY <3>1, <3>2 DEF FlagInv, FlagIsPerThread, Interruptible
    <3>5. QED
      BY <3>1, <3>2, <3>3, <3>4 DEF FlagInv, FlagOf
  <2>9. QED
    BY Zenon, <2>1, <2>2, <2>3, <2>4, <2>5, <2>6, <2>7, <2>8 DEF ProcInv
<1>2. ASSUME NEW p \in Slots, NEW q \in Slots,
            At(c, p, "fork_kstack"),
            q = np[p],
            q # p,
            \A d \in CPUs : ~Claims(d, q),
            state' = [state EXCEPT ![q] = "UNUSED"],
            np' = [np EXCEPT ![p] = 0],
            goto(p, "sysret"),
            UNCHANGED <<pid, parent, chan, killed, kstack, nextpid, ptlock, cpus, flags, ret, saved>>
     PROVE  ProcInv'
  <2> USE <1>2
  <2>1. Typed'
    BY Zenon DEF States, Labels, Interruptible
  <2>2. Counted' /\ CpuInv'
    BY Zenon DEF Counted, CpuInv
  <2>3. LockInv'
    BY DEF LockInv, CpuInv, InLock, ClaimInv, Claims, Resumes, Interruptible
  <2>4. ClaimInv'
    BY DEF CpuInv, ClaimInv, LabelInv, LockInv, InLock, Claims, Resumes
  <2>5. LabelInv'
    BY DEF LabelInv, Resumes, StackInv, Where, Forking, Interruptible
  <2>6. StackInv'
    BY DEF LabelInv, StackInv, Where, Forking, Resumes, Interruptible
  <2>7. FamilyInv'
    BY DEF LabelInv, FamilyInv, NoOrphans, WaitSeesZombie, NoZombieChild, StackInv,
      Where, Forking, Resumes
  <2>8. FlagInv'
    BY SMTT(40) DEF FlagInv, FlagIsPerThread, FlagOf, LockInv, InLock, ClaimInv, Claims, CpuInv,
      Interruptible, Resumes
  <2>9. QED
    BY Zenon, <2>1, <2>2, <2>3, <2>4, <2>5, <2>6, <2>7, <2>8 DEF ProcInv
<1>3. QED
  BY Zenon, <1>1, <1>2, ForkHasSlot DEF allocproc_kstack

(* fork copies the address space and names the parent, or gives the slot back. *)
LEMMA fork_copy_step ==
  ASSUME ProcInv, NEW c \in CPUs, fork_copy(c), UNCHANGED online
  PROVE  ProcInv'
<1> /\ Typed /\ Counted /\ CpuInv /\ LockInv /\ ClaimInv
    /\ LabelInv /\ StackInv /\ FamilyInv /\ FlagInv
  BY Zenon DEF ProcInv
<1>1. ASSUME NEW p \in Slots, NEW q \in Slots,
            At(c, p, "fork_copy"),
            q = np[p],
            q # p,
            \A d \in CPUs : ~Claims(d, q),
            parent' = [parent EXCEPT ![q] = p],
            goto(p, "fork_run"),
            UNCHANGED <<state, pid, chan, killed, kstack, nextpid, ptlock, cpus, flags, local>>
     PROVE  ProcInv'
  <2> USE <1>1
  <2>1. Typed'
    BY Zenon DEF States, Labels, Interruptible
  <2>2. Counted' /\ CpuInv'
    BY Zenon DEF Counted, CpuInv
  <2>3. LockInv'
    BY DEF LockInv, CpuInv, InLock, ClaimInv, Claims, Resumes, Interruptible
  <2>4. ClaimInv'
    BY DEF CpuInv, ClaimInv, LabelInv, LockInv, InLock, Claims, Resumes
  <2>5. LabelInv'
    BY DEF LabelInv, Resumes, StackInv, Where, Forking, Interruptible
  <2>6. StackInv'
    BY DEF LabelInv, StackInv, Where, Forking, Resumes, Interruptible
  <2>7. FamilyInv'
    BY DEF LabelInv, FamilyInv, NoOrphans, WaitSeesZombie, NoZombieChild, StackInv,
      Where, Forking, Resumes
  <2>8. FlagInv'
    BY DEF FlagInv, FlagIsPerThread, FlagOf, LockInv, InLock, ClaimInv, Claims, CpuInv,
      Interruptible, Resumes
  <2>9. QED
    BY Zenon, <2>1, <2>2, <2>3, <2>4, <2>5, <2>6, <2>7, <2>8 DEF ProcInv
<1>2. ASSUME NEW p \in Slots, NEW q \in Slots,
            At(c, p, "fork_copy"),
            q = np[p],
            q # p,
            \A d \in CPUs : ~Claims(d, q),
            kstack' = [kstack EXCEPT ![q] = 0],
            state' = [state EXCEPT ![q] = "UNUSED"],
            np' = [np EXCEPT ![p] = 0],
            goto(p, "sysret"),
            UNCHANGED <<pid, parent, chan, killed, nextpid, ptlock, cpus, flags, ret, saved>>
     PROVE  ProcInv'
  <2> USE <1>2
  <2>1. Typed'
    BY Zenon DEF States, Labels, Interruptible
  <2>2. Counted' /\ CpuInv'
    BY Zenon DEF Counted, CpuInv
  <2>3. LockInv'
    BY DEF LockInv, CpuInv, InLock, ClaimInv, Claims, Resumes, Interruptible
  <2>4. ClaimInv'
    BY DEF CpuInv, ClaimInv, LabelInv, LockInv, InLock, Claims, Resumes
  <2>5. LabelInv'
    BY DEF LabelInv, Resumes, StackInv, Where, Forking, Interruptible
  <2>6. StackInv'
    BY DEF LabelInv, StackInv, Where, Forking, Resumes, Interruptible
  <2>7. FamilyInv'
    BY DEF LabelInv, FamilyInv, NoOrphans, WaitSeesZombie, NoZombieChild, StackInv,
      Where, Forking, Resumes
  <2>8. FlagInv'
    BY DEF FlagInv, FlagIsPerThread, FlagOf, LockInv, InLock, ClaimInv, Claims, CpuInv,
      Interruptible, Resumes
  <2>9. QED
    BY Zenon, <2>1, <2>2, <2>3, <2>4, <2>5, <2>6, <2>7, <2>8 DEF ProcInv
<1>3. QED
  BY Zenon, <1>1, <1>2, ForkHasSlot DEF fork_copy

(* fork makes the child RUNNABLE: it has a stack, a parent that lives, and *)
(* starts in forkret.                                                      *)
LEMMA fork_run_step ==
  ASSUME ProcInv, NEW c \in CPUs, fork_run(c), UNCHANGED online
  PROVE  ProcInv'
<1> /\ Typed /\ Counted /\ CpuInv /\ LockInv /\ ClaimInv
    /\ LabelInv /\ StackInv /\ FamilyInv /\ FlagInv
  BY Zenon DEF ProcInv
<1>1. ASSUME NEW p \in Slots, NEW q \in Slots,
            At(c, p, "fork_run"),
            q = np[p],
            q # p,
            \A d \in CPUs : ~Claims(d, q),
            ptlock = 0,
            state' = [state EXCEPT ![q] = "RUNNABLE"],
            np' = [np EXCEPT ![p] = 0],
            goto(p, "sysret"),
            UNCHANGED <<pid, parent, chan, killed, kstack, nextpid, ptlock, cpus, flags, ret, saved>>
     PROVE  ProcInv'
  <2> USE <1>1
  <2>1. Typed'
    BY Zenon DEF States, Labels, Interruptible
  <2>2. Counted' /\ CpuInv'
    BY Zenon DEF Counted, CpuInv
  <2>3. LockInv'
    BY DEF LockInv, CpuInv, InLock, ClaimInv, Claims, Resumes, Interruptible
  <2>4. ClaimInv'
    BY DEF CpuInv, ClaimInv, LabelInv, LockInv, InLock, Claims, Resumes
  <2>5. LabelInv'
    BY DEF LabelInv, Resumes, StackInv, Where, Forking, Interruptible
  <2>6. StackInv'
    BY DEF LabelInv, StackInv, Where, Forking, Resumes, Interruptible
  <2>7. FamilyInv'
    BY DEF LabelInv, FamilyInv, NoOrphans, WaitSeesZombie, NoZombieChild, StackInv,
      Where, Forking, Resumes
  <2>8. FlagInv'
    BY DEF FlagInv, FlagIsPerThread, FlagOf, LockInv, InLock, ClaimInv, Claims, CpuInv,
      Interruptible, Resumes
  <2>9. QED
    BY Zenon, <2>1, <2>2, <2>3, <2>4, <2>5, <2>6, <2>7, <2>8 DEF ProcInv
<1>2. QED
  BY <1>1, ForkHasSlot, Zenon DEF fork_run

(* A process asks to exit. *)
LEMMA sys_exit_step ==
  ASSUME ProcInv, NEW c \in CPUs, sys_exit(c), UNCHANGED online
  PROVE  ProcInv'
<1> /\ Typed /\ Counted /\ CpuInv /\ LockInv /\ ClaimInv
    /\ LabelInv /\ StackInv /\ FamilyInv /\ FlagInv
  BY Zenon DEF ProcInv
<1>1. ASSUME NEW p \in Slots,
            At(c, p, "sys"),
            goto(p, "exit"),
            UNCHANGED <<table, ptlock, cpus, flags, local>>
     PROVE  ProcInv'
  <2> USE <1>1
  <2>1. Typed'
    BY Zenon DEF States, Labels, Interruptible
  <2>2. Counted' /\ CpuInv'
    BY Zenon DEF Counted, CpuInv
  <2>3. LockInv'
    BY DEF LockInv, CpuInv, InLock, ClaimInv, Claims, Resumes, Interruptible
  <2>4. ClaimInv'
    BY DEF CpuInv, ClaimInv, LabelInv, LockInv, InLock, Claims, Resumes
  <2>5. LabelInv'
    BY DEF LabelInv, Resumes, StackInv, Where, Forking, Interruptible
  <2>6. StackInv'
    BY DEF LabelInv, StackInv, Where, Forking, Resumes, Interruptible
  <2>7. FamilyInv'
    BY DEF LabelInv, FamilyInv, NoOrphans, WaitSeesZombie, NoZombieChild, StackInv,
      Where, Forking, Resumes
  <2>8. FlagInv'
    BY DEF FlagInv, FlagIsPerThread, FlagOf, LockInv, InLock, ClaimInv, Claims, CpuInv,
      Interruptible, Resumes
  <2>9. QED
    BY Zenon, <2>1, <2>2, <2>3, <2>4, <2>5, <2>6, <2>7, <2>8 DEF ProcInv
<1>2. QED
  BY <1>1, Zenon DEF sys_exit

(* exit becomes a zombie, hands its children to init, and wakes whoever may *)
(* have to wait for it or for them.                                        *)
LEMMA exit_step ==
  ASSUME ProcInv, NEW c \in CPUs, exit(c), UNCHANGED online
  PROVE  ProcInv'
<1> /\ Typed /\ Counted /\ CpuInv /\ LockInv /\ ClaimInv
    /\ LabelInv /\ StackInv /\ FamilyInv /\ FlagInv
  BY Zenon DEF ProcInv
<1>1. ASSUME NEW p \in Slots \ {initproc},
            At(c, p, "exit"),
            parent' = [q \in Slots |-> IF parent[q] = p THEN initproc ELSE parent[q]],
            Woken(p),
            goto(p, "zombie"),
            Lock(c),
            UNCHANGED <<pid, chan, killed, kstack, nextpid, cpus, local>>
     PROVE  ProcInv'
  <2> USE <1>1 DEF Woken
  <2>1. Typed'
    BY Zenon DEF States, Labels, Interruptible
  <2>2. Counted' /\ CpuInv'
    BY Zenon DEF Counted, CpuInv
  <2>3. LockInv'
    BY DEF LockInv, CpuInv, InLock, ClaimInv, Claims, Resumes, Interruptible
  <2>4. ClaimInv'
    BY DEF CpuInv, ClaimInv, LabelInv, LockInv, InLock, Claims, Resumes
  <2>5. LabelInv'
    BY DEF LabelInv, Resumes, StackInv, Where, Forking, Interruptible
  <2>6. StackInv'
    <3>1. \A q \in Slots : q # p => pc'[q] = pc[q]
      BY Zenon
    <3>2. \A q \in Slots : state'[q] = "EMBRYO" <=> state[q] = "EMBRYO"
      BY Zenon DEF States
    <3>3. \A q \in Slots : state'[q] = "UNUSED" <=> state[q] = "UNUSED"
      BY Zenon DEF States
    <3>4. ~Forking(p) /\ ~Forking(p)'
      BY Zenon DEF Where, Forking
    <3>5. \A q \in Slots : q # p => Where(q)' = Where(q)
      BY Zenon, <3>1 DEF Where
    <3>6. QED
      BY <3>1, <3>2, <3>3, <3>4, <3>5, SMTT(40) DEF StackInv, Forking
  <2>7. FamilyInv'
    <3>1. \A q \in Slots \ {p} :
            /\ state'[q] \in {"UNUSED", "EMBRYO", "ZOMBIE"} => state'[q] = state[q]
            /\ state'[q] = "SLEEPING" => state[q] = "SLEEPING"
            /\ state[q] \in {"UNUSED", "EMBRYO", "ZOMBIE"} => state'[q] = state[q]
      BY Zenon
    <3>2. (state[initproc] \notin {"UNUSED", "EMBRYO", "ZOMBIE"})'
      BY Zenon, <3>1 DEF FamilyInv
    <3>3. (parent[initproc] = 0 /\ \A q \in Slots : parent[q] # q)'
      BY Zenon DEF FamilyInv
    <3>4. NoOrphans'
      BY <3>1, <3>2 DEF FamilyInv, NoOrphans
    <3>5. (\A q \in Slots : state[q] = "SLEEPING" /\ pc[q] = "wait_sleep" => chan[q] = q)'
      BY Zenon, <3>1 DEF FamilyInv
    <3>6. WaitSeesZombie'
      BY <3>1, <3>5 DEF FamilyInv, WaitSeesZombie
    <3>7. QED
      BY Zenon, <3>2, <3>3, <3>4, <3>5, <3>6 DEF FamilyInv
  <2>8. FlagInv'
    BY DEF FlagInv, FlagIsPerThread, FlagOf, LockInv, InLock, ClaimInv, Claims, CpuInv,
      Interruptible, Resumes
  <2>9. QED
    BY Zenon, <2>1, <2>2, <2>3, <2>4, <2>5, <2>6, <2>7, <2>8 DEF ProcInv
<1>2. PICK p \in Slots \ {initproc} :
        /\ At(c, p, "exit")
        /\ parent' = [q \in Slots |-> IF q \in {k \in Slots : parent[k] = p}
                                        THEN initproc ELSE parent[q]]
        /\ state' = [(IF \E q \in {q \in Slots : parent[q] = p} : state[q] = "ZOMBIE"
                        THEN wakeup1(wakeup1(state, parent[p]), initproc)
                        ELSE wakeup1(state, parent[p])) EXCEPT ![p] = "ZOMBIE"]
        /\ goto(p, "zombie")
  BY Zenon DEF exit
<1>3. parent' = [q \in Slots |-> IF parent[q] = p THEN initproc ELSE parent[q]]
  BY Zenon, <1>2
<1>4. Woken(p)
  BY <1>2, ExitWakes, Zenon
<1>5. Lock(c) /\ UNCHANGED <<pid, chan, killed, kstack, nextpid, cpus, local>>
  BY Zenon DEF exit
<1>6. QED
  BY <1>1, <1>2, <1>3, <1>4, <1>5, Zenon

(* wait takes ptable.lock. *)
LEMMA wait_step ==
  ASSUME ProcInv, NEW c \in CPUs, wait(c), UNCHANGED online
  PROVE  ProcInv'
<1> /\ Typed /\ Counted /\ CpuInv /\ LockInv /\ ClaimInv
    /\ LabelInv /\ StackInv /\ FamilyInv /\ FlagInv
  BY Zenon DEF ProcInv
<1>1. ASSUME NEW p \in Slots,
            At(c, p, "sys"),
            goto(p, "wait"),
            Lock(c),
            UNCHANGED <<table, cpus, local>>
     PROVE  ProcInv'
  <2> USE <1>1
  <2>1. Typed'
    BY Zenon DEF States, Labels, Interruptible
  <2>2. Counted' /\ CpuInv'
    BY Zenon DEF Counted, CpuInv
  <2>3. LockInv'
    BY DEF LockInv, CpuInv, InLock, ClaimInv, Claims, Resumes, Interruptible
  <2>4. ClaimInv'
    BY DEF CpuInv, ClaimInv, LabelInv, LockInv, InLock, Claims, Resumes
  <2>5. LabelInv'
    BY DEF LabelInv, Resumes, StackInv, Where, Forking, Interruptible
  <2>6. StackInv'
    BY DEF LabelInv, StackInv, Where, Forking, Resumes, Interruptible
  <2>7. FamilyInv'
    BY DEF LabelInv, FamilyInv, NoOrphans, WaitSeesZombie, NoZombieChild, StackInv,
      Where, Forking, Resumes
  <2>8. FlagInv'
    BY SMTT(40) DEF FlagInv, FlagIsPerThread, FlagOf, LockInv, InLock, ClaimInv, Claims, CpuInv,
      Interruptible, Resumes
  <2>9. QED
    BY Zenon, <2>1, <2>2, <2>3, <2>4, <2>5, <2>6, <2>7, <2>8 DEF ProcInv
<1>2. QED
  BY <1>1, Zenon DEF wait

(* wait frees a zombie.  The zombie has left its stack, because it held    *)
(* ptable.lock until it switched away from it.                             *)
LEMMA wait_reap_step ==
  ASSUME ProcInv, NEW c \in CPUs, wait_reap(c), UNCHANGED online
  PROVE  ProcInv'
<1> /\ Typed /\ Counted /\ CpuInv /\ LockInv /\ ClaimInv
    /\ LabelInv /\ StackInv /\ FamilyInv /\ FlagInv
  BY Zenon DEF ProcInv
<1>1. ASSUME NEW p \in Slots, NEW z \in Slots,
            At(c, p, "wait"),
            parent[z] = p,
            state[z] = "ZOMBIE",
            kstack' = [kstack EXCEPT ![z] = 0],
            pid' = [pid EXCEPT ![z] = 0],
            parent' = [parent EXCEPT ![z] = 0],
            killed' = [killed EXCEPT ![z] = 0],
            state' = [state EXCEPT ![z] = "UNUSED"],
            goto(p, "sysret"),
            Unlock(c, intena[c]),
            UNCHANGED <<chan, nextpid, cpus, local>>
     PROVE  ProcInv'
  <2> USE <1>1
  <2>1. Typed'
    BY Zenon DEF States, Labels, Interruptible
  <2>2. CpuInv'
    BY Zenon DEF CpuInv
  <2>3. Counted'
    BY SizeAssumption DEF Counted, Slots
  <2>4. LockInv'
    BY DEF LockInv, CpuInv, InLock, ClaimInv, Claims, Resumes, Interruptible
  <2>5. ClaimInv'
    BY SMTT(40) DEF CpuInv, ClaimInv, LabelInv, LockInv, InLock, Claims, Resumes
  <2>6. LabelInv'
    BY DEF LabelInv, Resumes, StackInv, Where, Forking, Interruptible
  <2>7. StackInv'
    BY SMTT(40) DEF LabelInv, StackInv, Where, Forking, Resumes, Interruptible
  <2>8. FamilyInv'
    BY DEF LabelInv, FamilyInv, NoOrphans, WaitSeesZombie, NoZombieChild, StackInv,
      Where, Forking, Resumes
  <2>9. FlagInv'
    BY SMTT(40) DEF FlagInv, FlagIsPerThread, FlagOf, LockInv, InLock, ClaimInv, Claims, CpuInv,
      Interruptible, Resumes
  <2>10. QED
    BY Zenon, <2>1, <2>2, <2>3, <2>4, <2>5, <2>6, <2>7, <2>8, <2>9 DEF ProcInv
<1>2. QED
  BY <1>1, Zenon DEF wait_reap

(* wait has nothing to wait for. *)
LEMMA wait_fail_step ==
  ASSUME ProcInv, NEW c \in CPUs, wait_fail(c), UNCHANGED online
  PROVE  ProcInv'
<1> /\ Typed /\ Counted /\ CpuInv /\ LockInv /\ ClaimInv
    /\ LabelInv /\ StackInv /\ FamilyInv /\ FlagInv
  BY Zenon DEF ProcInv
<1>1. ASSUME NEW p \in Slots,
            At(c, p, "wait"),
            goto(p, "sysret"),
            Unlock(c, intena[c]),
            UNCHANGED <<table, cpus, local>>
     PROVE  ProcInv'
  <2> USE <1>1
  <2>1. Typed'
    BY Zenon DEF States, Labels, Interruptible
  <2>2. Counted' /\ CpuInv'
    BY Zenon DEF Counted, CpuInv
  <2>3. LockInv'
    BY DEF LockInv, CpuInv, InLock, ClaimInv, Claims, Resumes, Interruptible
  <2>4. ClaimInv'
    BY SMTT(40) DEF CpuInv, ClaimInv, LabelInv, LockInv, InLock, Claims, Resumes
  <2>5. LabelInv'
    BY SMTT(40) DEF LabelInv, Resumes, StackInv, Where, Forking, Interruptible
  <2>6. StackInv'
    BY SMTT(40) DEF LabelInv, StackInv, Where, Forking, Resumes, Interruptible
  <2>7. FamilyInv'
    BY SMTT(40) DEF LabelInv, FamilyInv, NoOrphans, WaitSeesZombie, NoZombieChild, StackInv,
      Where, Forking, Resumes
  <2>8. FlagInv'
    BY SMTT(40) DEF FlagInv, FlagIsPerThread, FlagOf, LockInv, InLock, ClaimInv, Claims, CpuInv,
      Interruptible, Resumes
  <2>9. QED
    BY Zenon, <2>1, <2>2, <2>3, <2>4, <2>5, <2>6, <2>7, <2>8 DEF ProcInv
<1>2. QED
  BY <1>1, Zenon DEF wait_fail

(* wait goes to sleep when no child is a zombie. *)
LEMMA wait_sleep_step ==
  ASSUME ProcInv, NEW c \in CPUs, wait_sleep(c), UNCHANGED online
  PROVE  ProcInv'
<1> /\ Typed /\ Counted /\ CpuInv /\ LockInv /\ ClaimInv
    /\ LabelInv /\ StackInv /\ FamilyInv /\ FlagInv
  BY Zenon DEF ProcInv
<1>1. ASSUME NEW p \in Slots,
            At(c, p, "wait"),
            NoZombieChild(p),
            chan' = [chan EXCEPT ![p] = p],
            state' = [state EXCEPT ![p] = "SLEEPING"],
            goto(p, "wait_sleep"),
            UNCHANGED <<pid, parent, killed, kstack, nextpid, ptlock, cpus, flags, local>>
     PROVE  ProcInv'
  <2> USE <1>1
  <2>1. Typed'
    BY Zenon DEF States, Labels, Interruptible
  <2>2. Counted' /\ CpuInv'
    BY Zenon DEF Counted, CpuInv
  <2>3. LockInv'
    BY DEF LockInv, CpuInv, InLock, ClaimInv, Claims, Resumes, Interruptible
  <2>4. ClaimInv'
    BY DEF CpuInv, ClaimInv, LabelInv, LockInv, InLock, Claims, Resumes
  <2>5. LabelInv'
    BY DEF LabelInv, Resumes, StackInv, Where, Forking, Interruptible
  <2>6. StackInv'
    BY DEF LabelInv, StackInv, Where, Forking, Resumes, Interruptible
  <2>7. FamilyInv'
    BY SMTT(40) DEF LabelInv, FamilyInv, NoOrphans, WaitSeesZombie, NoZombieChild, StackInv,
      Where, Forking, Resumes
  <2>8. FlagInv'
    BY SMTT(40) DEF FlagInv, FlagIsPerThread, FlagOf, LockInv, InLock, ClaimInv, Claims, CpuInv,
      Interruptible, Resumes
  <2>9. QED
    BY Zenon, <2>1, <2>2, <2>3, <2>4, <2>5, <2>6, <2>7, <2>8 DEF ProcInv
<1>2. QED
  BY <1>1, Zenon DEF wait_sleep

(* ... and comes back with the flag it had. *)
LEMMA wait_sleep_return_step ==
  ASSUME ProcInv, NEW c \in CPUs, wait_sleep_return(c), UNCHANGED online
  PROVE  ProcInv'
<1> /\ Typed /\ Counted /\ CpuInv /\ LockInv /\ ClaimInv
    /\ LabelInv /\ StackInv /\ FamilyInv /\ FlagInv
  BY Zenon DEF ProcInv
<1>1. ASSUME NEW p \in Slots,
            At(c, p, "wait_sleep"),
            intena' = [intena EXCEPT ![c] = saved[p]],
            saved' = [saved EXCEPT ![p] = 0],
            chan' = [chan EXCEPT ![p] = 0],
            goto(p, "wait"),
            UNCHANGED <<state, pid, parent, killed, kstack, nextpid, ptlock, cpus, intf, ret, np>>
     PROVE  ProcInv'
  <2> USE <1>1
  <2>1. Typed'
    BY Zenon DEF States, Labels, Interruptible
  <2>2. Counted' /\ CpuInv'
    BY Zenon DEF Counted, CpuInv
  <2>a. /\ \A d \in CPUs : on[d] = p => d = c
        /\ \A d \in CPUs : spc[d] = "swtch" => proc[d] \in Slots \ {p}
    <3>1. Claims(c, p) /\ spc[c] # "swtch"
      BY Zenon DEF CpuInv, Claims
    <3>2. \A d \in CPUs : Claims(d, p) => d = c
      BY Zenon, <3>1 DEF ClaimInv
    <3>3. \A d \in CPUs : spc[d] = "swtch" => proc[d] \in Slots
      BY Zenon DEF CpuInv
    <3>4. QED
      BY Zenon, <3>1, <3>2, <3>3 DEF Claims
  <2>b. /\ pc[p] = "wait_sleep" /\ pc'[p] = "wait" /\ state[p] = "RUNNING" /\ state' = state
        /\ \A q \in Slots : q # p => pc'[q] = pc[q] /\ chan'[q] = chan[q]
    BY Zenon
  <2>3. LockInv'
    BY DEF LockInv, CpuInv, InLock, ClaimInv, Claims, Resumes, Interruptible
  <2>4. ClaimInv'
    <3>1. \A d \in CPUs, q \in Slots : on[d] = q => state'[q] = "RUNNING" \/
            (pc'[q] \in Parked /\ state'[q] \in {"RUNNABLE", "SLEEPING", "ZOMBIE"})
      <4>1. \A d \in CPUs, q \in Slots : on[d] = q => state[q] = "RUNNING" \/
              (pc[q] \in Parked /\ state[q] \in {"RUNNABLE", "SLEEPING", "ZOMBIE"})
        BY Zenon DEF ClaimInv, Claims
      <4>2. QED
        BY <2>b, <4>1
    <3>2. \A d \in CPUs : spc[d] = "swtch" =>
            state'[proc[d]] = state[proc[d]] /\ pc'[proc[d]] = pc[proc[d]]
      BY Zenon, <2>a, <2>b
    <3>3. QED
      BY Zenon, <2>b, <3>1, <3>2, ClaimKept
  <2>5. LabelInv'
    BY DEF LabelInv, Resumes, StackInv, Where, Forking, Interruptible
  <2>6. StackInv'
    <3>1. \A q \in Slots : Where(q) = Where(q)' \/ ~(Forking(q) \/ Forking(q)')
      BY <2>b DEF Where, Forking
    <3>2. QED
      BY Zenon, <2>b, <3>1, StackKept
  <2>7. FamilyInv'
    BY Zenon, <2>b, FamilyKept
  <2>8. FlagInv'
    BY SMTT(40) DEF FlagInv, FlagIsPerThread, FlagOf, LockInv, InLock, ClaimInv, Claims, CpuInv,
      Interruptible, Resumes
  <2>9. QED
    BY Zenon, <2>1, <2>2, <2>3, <2>4, <2>5, <2>6, <2>7, <2>8 DEF ProcInv
<1>2. QED
  BY <1>1, Zenon DEF wait_sleep_return, sched_return

(* sleep takes ptable.lock and sleeps on a channel of a device. *)
LEMMA sleep_step ==
  ASSUME ProcInv, NEW c \in CPUs, sleep(c), UNCHANGED online
  PROVE  ProcInv'
<1> /\ Typed /\ Counted /\ CpuInv /\ LockInv /\ ClaimInv
    /\ LabelInv /\ StackInv /\ FamilyInv /\ FlagInv
  BY Zenon DEF ProcInv
<1>1. ASSUME NEW p \in Slots,
            At(c, p, "sys"),
            chan' = [chan EXCEPT ![p] = IO],
            state' = [state EXCEPT ![p] = "SLEEPING"],
            goto(p, "sleep"),
            Lock(c),
            UNCHANGED <<pid, parent, killed, kstack, nextpid, cpus, local>>
     PROVE  ProcInv'
  <2> USE <1>1
  <2>1. Typed'
    BY Zenon DEF States, Labels, Interruptible
  <2>2. Counted' /\ CpuInv'
    BY Zenon DEF Counted, CpuInv
  <2>a. /\ \A d \in CPUs : on[d] = p => d = c
        /\ \A d \in CPUs : spc[d] = "swtch" => proc[d] \in Slots \ {p}
    <3>1. Claims(c, p) /\ spc[c] # "swtch"
      BY Zenon DEF CpuInv, Claims
    <3>2. \A d \in CPUs : Claims(d, p) => d = c
      BY Zenon, <3>1 DEF ClaimInv
    <3>3. \A d \in CPUs : spc[d] = "swtch" => proc[d] \in Slots
      BY Zenon DEF CpuInv
    <3>4. QED
      BY Zenon, <3>1, <3>2, <3>3 DEF Claims
  <2>b. /\ pc[p] = "sys" /\ pc'[p] = "sleep" /\ state[p] = "RUNNING" /\ state'[p] = "SLEEPING"
        /\ \A q \in Slots : q # p => pc'[q] = pc[q] /\ state'[q] = state[q] /\ chan'[q] = chan[q]
    BY Zenon
  <2>3. LockInv'
    BY DEF LockInv, CpuInv, InLock, ClaimInv, Claims, Resumes, Interruptible
  <2>4. ClaimInv'
    <3>1. \A d \in CPUs, q \in Slots : on[d] = q => state'[q] = "RUNNING" \/
            (pc'[q] \in Parked /\ state'[q] \in {"RUNNABLE", "SLEEPING", "ZOMBIE"})
      <4>1. \A d \in CPUs, q \in Slots : on[d] = q => state[q] = "RUNNING" \/
              (pc[q] \in Parked /\ state[q] \in {"RUNNABLE", "SLEEPING", "ZOMBIE"})
        BY Zenon DEF ClaimInv, Claims
      <4>2. QED
        BY <2>b, <4>1
    <3>2. \A d \in CPUs : spc[d] = "swtch" =>
            state'[proc[d]] = state[proc[d]] /\ pc'[proc[d]] = pc[proc[d]]
      BY <2>a, <2>b
    <3>3. QED
      BY Zenon, <2>b, <3>1, <3>2, ClaimKept
  <2>5. LabelInv'
    BY DEF LabelInv, Resumes, StackInv, Where, Forking, Interruptible
  <2>6. StackInv'
    <3>1. \A q \in Slots : Where(q) = Where(q)' \/ ~(Forking(q) \/ Forking(q)')
      BY <2>b DEF Where, Forking
    <3>2. QED
      BY Zenon, <2>b, <3>1, StackKept
  <2>7. FamilyInv'
    BY Zenon, <2>b, FamilyKept
  <2>8. FlagInv'
    <3>1. intf[c] = 1 /\ ptlock = 0
      BY Zenon DEF FlagInv, FlagIsPerThread, Interruptible
    <3>2. /\ ptlock' = c /\ intena'[c] = 1
          /\ \A d \in CPUs : d # c => intf'[d] = intf[d] /\ intena'[d] = intena[d] /\ ptlock # d
      BY Zenon, <3>1
    <3>3. FlagIsPerThread'
      BY <2>a, <2>b, <3>2 DEF FlagInv, FlagIsPerThread
    <3>4. ASSUME NEW d \in CPUs, NEW q \in Slots, on[d] = q
          PROVE  /\ pc'[q] = "wait" => intena'[d] = 1
                 /\ pc'[q] \in {"yield", "sleep", "wait_sleep"} /\ state'[q] # "RUNNING" =>
                      intena'[d] = FlagOf(pc'[q])
      <4>1. CASE q = p
        BY <2>a, <2>b, <3>2, <3>4, <4>1 DEF FlagOf
      <4>2. CASE q # p
        BY <2>b, <3>2, <3>4, <4>2 DEF FlagInv
      <4>3. QED
        BY Zenon, <4>1, <4>2
    <3>5. ASSUME NEW q \in Slots, pc'[q] \in {"yield", "sleep", "wait_sleep"}
          PROVE  saved'[q] = FlagOf(pc'[q]) \/ \E d \in CPUs : on'[d] = q /\ state'[q] # "RUNNING"
      BY <2>b, <3>5 DEF FlagInv
    <3>6. QED
      BY <3>3, <3>4, <3>5 DEF FlagInv
  <2>9. QED
    BY Zenon, <2>1, <2>2, <2>3, <2>4, <2>5, <2>6, <2>7, <2>8 DEF ProcInv
<1>2. QED
  BY <1>1, Zenon DEF sleep

(* ... and comes back with the flag it had. *)
LEMMA sleep_return_step ==
  ASSUME ProcInv, NEW c \in CPUs, sleep_return(c), UNCHANGED online
  PROVE  ProcInv'
<1> /\ Typed /\ Counted /\ CpuInv /\ LockInv /\ ClaimInv
    /\ LabelInv /\ StackInv /\ FamilyInv /\ FlagInv
  BY Zenon DEF ProcInv
<1>1. ASSUME NEW p \in Slots,
            At(c, p, "sleep"),
            Unlock(c, saved[p]),
            saved' = [saved EXCEPT ![p] = 0],
            chan' = [chan EXCEPT ![p] = 0],
            goto(p, "sys"),
            UNCHANGED <<state, pid, parent, killed, kstack, nextpid, cpus, ret, np>>
     PROVE  ProcInv'
  <2> USE <1>1
  <2>1. Typed'
    BY Zenon DEF States, Labels, Interruptible
  <2>2. Counted' /\ CpuInv'
    BY Zenon DEF Counted, CpuInv
  <2>a. /\ \A d \in CPUs : on[d] = p => d = c
        /\ \A d \in CPUs : spc[d] = "swtch" => proc[d] \in Slots \ {p}
    <3>1. Claims(c, p) /\ spc[c] # "swtch"
      BY Zenon DEF CpuInv, Claims
    <3>2. \A d \in CPUs : Claims(d, p) => d = c
      BY Zenon, <3>1 DEF ClaimInv
    <3>3. \A d \in CPUs : spc[d] = "swtch" => proc[d] \in Slots
      BY Zenon DEF CpuInv
    <3>4. QED
      BY Zenon, <3>1, <3>2, <3>3 DEF Claims
  <2>b. /\ pc[p] = "sleep" /\ pc'[p] = "sys" /\ state[p] = "RUNNING" /\ state' = state
        /\ \A q \in Slots : q # p => pc'[q] = pc[q] /\ chan'[q] = chan[q]
    BY Zenon
  <2>3. LockInv'
    BY SMTT(40) DEF LockInv, CpuInv, InLock, ClaimInv, Claims, Resumes, Interruptible
  <2>4. ClaimInv'
    <3>1. \A d \in CPUs, q \in Slots : on[d] = q => state'[q] = "RUNNING" \/
            (pc'[q] \in Parked /\ state'[q] \in {"RUNNABLE", "SLEEPING", "ZOMBIE"})
      <4>1. \A d \in CPUs, q \in Slots : on[d] = q => state[q] = "RUNNING" \/
              (pc[q] \in Parked /\ state[q] \in {"RUNNABLE", "SLEEPING", "ZOMBIE"})
        BY Zenon DEF ClaimInv, Claims
      <4>2. QED
        BY <2>b, <4>1
    <3>2. \A d \in CPUs : spc[d] = "swtch" =>
            state'[proc[d]] = state[proc[d]] /\ pc'[proc[d]] = pc[proc[d]]
      BY Zenon, <2>a, <2>b
    <3>3. QED
      BY Zenon, <2>b, <3>1, <3>2, ClaimKept
  <2>5. LabelInv'
    BY DEF LabelInv, Resumes, StackInv, Where, Forking, Interruptible
  <2>6. StackInv'
    <3>1. \A q \in Slots : Where(q) = Where(q)' \/ ~(Forking(q) \/ Forking(q)')
      BY <2>b DEF Where, Forking
    <3>2. QED
      BY Zenon, <2>b, <3>1, StackKept
  <2>7. FamilyInv'
    BY Zenon, <2>b, FamilyKept
  <2>8. FlagInv'
    <3>1. saved[p] = 1
      <4>1. ~ \E d \in CPUs : on[d] = p /\ state[p] # "RUNNING"
        BY Zenon, <2>b
      <4>2. QED
        BY Zenon, <2>b, <4>1 DEF FlagInv, FlagOf
    <3>2. ptlock = c
      BY Zenon, <2>b DEF LockInv, InLock
    <3>3. /\ intf'[c] = 1
          /\ \A d \in CPUs : d # c =>
               intf'[d] = intf[d] /\ intena'[d] = intena[d] /\ ptlock # d
      BY Zenon, <3>1, <3>2
    <3>4. "sys" \notin {"tick", "iret"}
      BY Zenon
    <3>5. FlagIsPerThread'
      BY <2>a, <2>b, <3>3, <3>4 DEF FlagInv, FlagIsPerThread
    <3>6. ASSUME NEW d \in CPUs, NEW q \in Slots, on[d] = q
          PROVE  /\ pc'[q] = "wait" => intena'[d] = 1
                 /\ pc'[q] \in {"yield", "sleep", "wait_sleep"} /\ state'[q] # "RUNNING" =>
                      intena'[d] = FlagOf(pc'[q])
      BY <2>b, <3>3, <3>6 DEF FlagInv
    <3>7. ASSUME NEW q \in Slots, pc'[q] \in {"yield", "sleep", "wait_sleep"}
          PROVE  saved'[q] = FlagOf(pc'[q]) \/ \E d \in CPUs : on'[d] = q /\ state'[q] # "RUNNING"
      <4>1. q # p
        BY Zenon, <2>b, <3>7
      <4>2. saved'[q] = saved[q] /\ pc'[q] = pc[q]
        BY Zenon, <2>b, <4>1
      <4>3. QED
        BY <2>b, <3>7, <4>2 DEF FlagInv
    <3>8. QED
      BY <3>5, <3>6, <3>7 DEF FlagInv
  <2>9. QED
    BY Zenon, <2>1, <2>2, <2>3, <2>4, <2>5, <2>6, <2>7, <2>8 DEF ProcInv
<1>2. QED
  BY <1>1, Zenon DEF sleep_return, sched_return

(* A device's interrupt handler makes sleepers RUNNABLE. *)
LEMMA wakeup_step ==
  ASSUME ProcInv, NEW c \in CPUs, wakeup(c), UNCHANGED online
  PROVE  ProcInv'
<1> /\ Typed /\ Counted /\ CpuInv /\ LockInv /\ ClaimInv
    /\ LabelInv /\ StackInv /\ FamilyInv /\ FlagInv
  BY Zenon DEF ProcInv
<1> USE DEF wakeup, wakeup1
<1>1. Typed'
  BY Zenon DEF States, Labels, Interruptible
<1>2. Counted' /\ CpuInv' /\ LockInv'
  BY Zenon DEF Counted, CpuInv, LockInv, InLock
<1>a. /\ pc' = pc /\ chan' = chan
      /\ \A q \in Slots : state'[q] = state[q] \/ (state[q] = "SLEEPING" /\ state'[q] = "RUNNABLE")
  BY Zenon
<1>3. ClaimInv'
  <2>1. \A d \in CPUs, q \in Slots : on[d] = q => state'[q] = "RUNNING" \/
          (pc'[q] \in Parked /\ state'[q] \in {"RUNNABLE", "SLEEPING", "ZOMBIE"})
    <3>1. \A d \in CPUs, q \in Slots : on[d] = q => state[q] = "RUNNING" \/
            (pc[q] \in Parked /\ state[q] \in {"RUNNABLE", "SLEEPING", "ZOMBIE"})
      BY Zenon DEF ClaimInv, Claims
    <3>2. QED
      BY Zenon, <1>a, <3>1
  <2>2. \A d \in CPUs : spc[d] = "swtch" => state[proc[d]] = "RUNNING" /\ proc[d] \in Slots
    <3>1. \A d \in CPUs : spc[d] = "swtch" => proc[d] \in Slots /\ on[d] # proc[d]
      BY Zenon DEF CpuInv
    <3>2. QED
      BY <3>1 DEF ClaimInv, Claims
  <2>3. \A d \in CPUs : spc[d] = "swtch" =>
          state'[proc[d]] = state[proc[d]] /\ pc'[proc[d]] = pc[proc[d]]
    BY Zenon, <1>a, <2>2
  <2>4. QED
    BY Zenon, <1>a, <2>1, <2>3, ClaimKept
<1>4. LabelInv'
  BY Zenon DEF LabelInv, Resumes, StackInv, Where, Forking, Interruptible
<1>5. StackInv'
  <2>1. \A q \in Slots : Where(q)' = Where(q)
    BY Zenon DEF Where
  <2>2. QED
    BY Zenon, <1>a, <2>1, StackKept
<1>6. FamilyInv'
  BY Zenon, <1>a, FamilyKept
<1>7. FlagInv'
  <2>1. FlagIsPerThread'
    BY Zenon DEF FlagInv, FlagIsPerThread
  <2>2. QED
    BY <1>a, <2>1 DEF FlagInv, FlagOf
<1>8. QED
  BY Zenon, <1>1, <1>2, <1>3, <1>4, <1>5, <1>6, <1>7 DEF ProcInv

(* kill makes a sleeper RUNNABLE. *)
LEMMA kill_step ==
  ASSUME ProcInv, NEW c \in CPUs, kill(c), UNCHANGED online
  PROVE  ProcInv'
<1> /\ Typed /\ Counted /\ CpuInv /\ LockInv /\ ClaimInv
    /\ LabelInv /\ StackInv /\ FamilyInv /\ FlagInv
  BY Zenon DEF ProcInv
<1>1. ASSUME NEW p \in Slots, NEW q \in Slots,
            At(c, p, "sys"),
            ptlock = 0,
            killed' = [killed EXCEPT ![q] = 1],
            state' = [state EXCEPT ![q] = IF @ = "SLEEPING" THEN "RUNNABLE" ELSE @],
            goto(p, "sysret"),
            UNCHANGED <<pid, parent, chan, kstack, nextpid, ptlock, cpus, flags, local>>
     PROVE  ProcInv'
  <2> USE <1>1
  <2>1. Typed'
    BY Zenon DEF States, Labels, Interruptible
  <2>2. CpuInv'
    BY Zenon DEF CpuInv
  <2>3. Counted'
    BY Zenon, SizeAssumption DEF Counted, Slots
  <2>a. /\ \A d \in CPUs : on[d] = p => d = c
        /\ \A d \in CPUs : spc[d] = "swtch" =>
             proc[d] \in Slots \ {p} /\ state[proc[d]] = "RUNNING"
    <3>1. Claims(c, p) /\ spc[c] # "swtch"
      BY Zenon DEF CpuInv, Claims
    <3>2. \A d \in CPUs : Claims(d, p) => d = c
      BY Zenon, <3>1 DEF ClaimInv
    <3>3. \A d \in CPUs : spc[d] = "swtch" => proc[d] \in Slots /\ on[d] # proc[d]
      BY Zenon DEF CpuInv
    <3>4. \A d \in CPUs : spc[d] = "swtch" => state[proc[d]] = "RUNNING"
      BY <3>3 DEF ClaimInv, Claims
    <3>5. QED
      BY Zenon, <3>1, <3>2, <3>3, <3>4 DEF Claims
  <2>b. /\ pc[p] = "sys" /\ pc'[p] = "sysret" /\ state[p] = "RUNNING" /\ state'[p] = "RUNNING"
        /\ \A r \in Slots : r # p => pc'[r] = pc[r]
        /\ \A r \in Slots : state'[r] = state[r] \/ (state[r] = "SLEEPING" /\ state'[r] = "RUNNABLE")
        /\ chan' = chan
    BY Zenon
  <2>4. LockInv'
    BY SMTT(40) DEF LockInv, CpuInv, InLock, ClaimInv, Claims, Resumes, Interruptible
  <2>5. ClaimInv'
    <3>1. \A d \in CPUs, r \in Slots : on[d] = r => state'[r] = "RUNNING" \/
            (pc'[r] \in Parked /\ state'[r] \in {"RUNNABLE", "SLEEPING", "ZOMBIE"})
      <4>1. \A d \in CPUs, r \in Slots : on[d] = r => state[r] = "RUNNING" \/
              (pc[r] \in Parked /\ state[r] \in {"RUNNABLE", "SLEEPING", "ZOMBIE"})
        BY Zenon DEF ClaimInv, Claims
      <4>2. QED
        BY <2>b, <4>1
    <3>2. \A d \in CPUs : spc[d] = "swtch" =>
            state'[proc[d]] = state[proc[d]] /\ pc'[proc[d]] = pc[proc[d]]
      BY Zenon, <2>a, <2>b
    <3>3. QED
      BY Zenon, <2>b, <3>1, <3>2, ClaimKept
  <2>6. LabelInv'
    BY <2>b DEF LabelInv, Resumes
  <2>7. StackInv'
    <3>1. \A r \in Slots : Where(r) = Where(r)' \/ ~(Forking(r) \/ Forking(r)')
      BY <2>b DEF Where, Forking
    <3>2. QED
      BY Zenon, <2>b, <3>1, StackKept
  <2>8. FamilyInv'
    BY Zenon, <2>b, FamilyKept
  <2>9. FlagInv'
    <3>1. FlagIsPerThread'
      BY <2>a, <2>b DEF FlagInv, FlagIsPerThread, Interruptible
    <3>2. ASSUME NEW d \in CPUs, NEW r \in Slots, on[d] = r
          PROVE  /\ pc'[r] = "wait" => intena'[d] = 1
                 /\ pc'[r] \in {"yield", "sleep", "wait_sleep"} /\ state'[r] # "RUNNING" =>
                      intena'[d] = FlagOf(pc'[r])
      BY <2>b, <3>2 DEF FlagInv
    <3>3. ASSUME NEW r \in Slots, pc'[r] \in {"yield", "sleep", "wait_sleep"}
          PROVE  saved'[r] = FlagOf(pc'[r]) \/ \E d \in CPUs : on'[d] = r /\ state'[r] # "RUNNING"
      BY <2>b, <3>3 DEF FlagInv
    <3>4. QED
      BY <3>1, <3>2, <3>3 DEF FlagInv
  <2>10. QED
    BY Zenon, <2>1, <2>2, <2>3, <2>4, <2>5, <2>6, <2>7, <2>8, <2>9 DEF ProcInv
<1>2. QED
  BY <1>1, Zenon DEF kill

-----------------------------------------------------------------------------

(* userinit has made one RUNNABLE process, and no CPU has left its         *)
(* scheduler's first instruction.                                          *)
LEMMA ProcInit == Init => ProcInv
<1> SUFFICES ASSUME Init PROVE ProcInv
  BY Zenon
<1>1. Typed
  BY Zenon DEF Init, States, Labels, Interruptible
<1>2. Counted
  BY SizeAssumption, MachinesAssumption DEF Init, Counted, Slots
<1>3. CpuInv /\ LockInv /\ ClaimInv /\ LabelInv
  BY Zenon DEF Init, CpuInv, LockInv, InLock, ClaimInv, Claims, LabelInv, Resumes
<1>4. StackInv /\ FamilyInv /\ FlagInv
  BY Zenon DEF Init, StackInv, Where, Forking, FamilyInv, NoOrphans, WaitSeesZombie, FlagInv,
    FlagIsPerThread, Interruptible
<1>5. QED
  BY Zenon, <1>1, <1>2, <1>3, <1>4 DEF ProcInv

(* Whatever a CPU does next keeps the invariant. *)
LEMMA ProcStep == ProcInv /\ [Next]_vars => ProcInv'
<1> SUFFICES ASSUME ProcInv, [Next]_vars PROVE ProcInv'
  BY Zenon
<1>1. CASE UNCHANGED vars
  <2> USE <1>1 DEF vars, steps
  <2> /\ Typed /\ Counted /\ CpuInv /\ LockInv /\ ClaimInv
      /\ LabelInv /\ StackInv /\ FamilyInv /\ FlagInv
    BY Zenon DEF ProcInv
  <2>1. Typed'
    BY Zenon
  <2>2. Counted'
    BY Zenon DEF Counted
  <2>3. CpuInv'
    BY Zenon DEF CpuInv
  <2>4. LockInv'
    BY Zenon DEF LockInv, InLock
  <2>5. ClaimInv'
    BY DEF ClaimInv, Claims
  <2>6. LabelInv'
    BY Zenon DEF LabelInv
  <2>7. StackInv'
    BY DEF StackInv, Where, Forking
  <2>8. FamilyInv'
    BY DEF FamilyInv, NoOrphans, WaitSeesZombie
  <2>9. FlagInv'
    BY Zenon DEF FlagInv, FlagIsPerThread, FlagOf
  <2>10. QED
    BY Zenon, <2>1, <2>2, <2>3, <2>4, <2>5, <2>6, <2>7, <2>8, <2>9 DEF ProcInv
<1>2. ASSUME NEW c \in CPUs, UNCHANGED online, Scheduler(c) PROVE ProcInv'
  BY Zenon, <1>2, scheduler_sti_step, scheduler_acquire_step, scheduler_choose_step,
    scheduler_swtch_step, scheduler_back_step, scheduler_release_step DEF Scheduler
<1>3. ASSUME NEW c \in CPUs, UNCHANGED online, Switching(c) PROVE ProcInv'
  BY Zenon, <1>3, sched_step, trap_timer_step, yield_step, yield_return_step, trap_iret_step,
    forkret_step, trapret_step, trap_syscall_step, sysret_step DEF Switching
<1>4. ASSUME NEW c \in CPUs, UNCHANGED online, Syscall(c) PROVE ProcInv'
  BY Zenon, <1>4, allocproc_step, allocproc_kstack_step, fork_copy_step, fork_run_step,
    sys_exit_step, exit_step, wait_step, wait_reap_step, wait_fail_step, wait_sleep_step,
    wait_sleep_return_step, sleep_step, sleep_return_step, wakeup_step, kill_step
    DEF Syscall
<1>5. QED
  BY Zenon, <1>1, <1>2, <1>3, <1>4 DEF Next

(* The invariant holds in every state the scheduler, the interrupts and    *)
(* the system calls of proc.c reach, for any number of CPUs and slots.     *)
THEOREM ProcInvariant == Spec => []ProcInv
BY ProcInit, ProcStep, PTL DEF Spec

(* A CPU is on a stack of its own that is not freed under it, RUNNING      *)
(* means just that, and sched finds ptable.lock held and interrupts off    *)
(* (swtch under ptable.lock, proc.c:405, 439).                             *)
THEOREM StacksAreSound == Spec => []StacksSound
<1>1. ASSUME ProcInv PROVE StacksSound
  <2> USE <1>1 DEF ProcInv
  <2>1. TypeOK
    BY Zenon, TypesSplit
  <2>2. StackSafe
    BY SMTT(40) DEF StackSafe, CpuInv, ClaimInv, Claims, StackInv, LabelInv
  <2>3. RunningIsOnCPU
    BY DEF RunningIsOnCPU, LockInv, InLock, CpuInv, ClaimInv, Claims
  <2>4. SchedNeverPanics
    BY Zenon DEF SchedNeverPanics, LockInv, InLock
  <2>5. QED
    BY Zenon, <2>1, <2>2, <2>3, <2>4 DEF StacksSound
<1>2. QED
  BY <1>1, ProcInvariant, PTL

(* Every process has a parent that can still wait for it, and that does    *)
(* not sleep while it is a zombie (exit and wait, proc.c:289-308).         *)
THEOREM FamiliesAreSound == Spec => []FamiliesSound
<1>1. ProcInv => FamiliesSound
  BY Zenon DEF ProcInv, FamilyInv, FamiliesSound
<1>2. QED
  BY <1>1, ProcInvariant, PTL

(* A kernel thread that has released ptable.lock runs with the interrupt   *)
(* flag it had before it took it, on whatever CPU (proc.c:432).            *)
THEOREM FlagsArePerThread == Spec => []FlagIsPerThread
<1>1. ProcInv => FlagIsPerThread
  BY Zenon DEF ProcInv, FlagInv
<1>2. QED
  BY <1>1, ProcInvariant, PTL
=============================================================================
