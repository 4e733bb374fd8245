-------------------------------- MODULE Proc --------------------------------
(***************************************************************************)
(* Processes and their scheduling (proc.c, and the parts of trap.c that    *)
(* preempt and end a process).  Several CPUs run the scheduler and, through *)
(* swtch, the kernel stacks of the processes.                              *)
(*                                                                         *)
(* What happens between acquire(&ptable.lock) and release is one step when *)
(* no swtch lies in between (module SpinLock justifies that).  A critical  *)
(* section that switches stacks is cut at the swtch: the lock stays with   *)
(* the CPU, and the code on the other stack releases it.                   *)
(* Local variables are reset where they go out of scope.                   *)
(***************************************************************************)
EXTENDS Integers, FiniteSets

CONSTANTS CPUs,
          NPROC,      \* size of ptable.proc
          Machines,   \* the sets of CPUs that mpinit may find
          MaxPid,     \* bound: pids that are handed out
          MaxLoad,    \* bound: CPUs and processes together
          KillPids    \* the arguments kill is called with

ASSUME CPUAssumption == 0 \notin CPUs
ASSUME SizeAssumption == NPROC \in Nat \ {0} /\ MaxPid \in Nat \ {0}
ASSUME MachinesAssumption == Machines \subseteq SUBSET CPUs

Slots == 1..NPROC
initproc == 1
IO == NPROC + 1    \* a channel that an interrupt handler wakes up

VARIABLES
  online,   \* the CPUs that have reached scheduler()
  state, pid, parent, chan, killed, \* fields of struct proc
  kstack,   \* 1 while the slot has a kernel stack page
  nextpid,
  ptlock,   \* the CPU that holds ptable.lock, or 0
  proc,     \* c->proc
  on,       \* the stack the CPU executes on: a slot, or 0 for the scheduler's
  spc,      \* where the scheduler of the CPU is
  scan,     \* its p, the slot it looks at next
  intf,     \* the interrupt flag of the CPU
  intena,   \* c->intena
  pc,       \* where the kernel stack of the slot is
  ret,      \* the code a clock tick has interrupted
  saved,    \* sched's local intena
  np        \* fork's local np

table == <<state, pid, parent, chan, killed, kstack, nextpid>>
cpus == <<proc, on, spc, scan>>
flags == <<intf, intena>>
local == <<ret, saved, np>>
steps == <<table, ptlock, cpus, flags, pc, local>>
vars == <<online, steps>>

-----------------------------------------------------------------------------

(* userinit has made the first process; the CPUs enter their schedulers. *)
Init ==
  /\ online \in Machines
  /\ state = [p \in Slots |-> IF p = initproc THEN "RUNNABLE" ELSE "UNUSED"]
  /\ pid = [p \in Slots |-> IF p = initproc THEN 1 ELSE 0]
  /\ nextpid = 2
  /\ parent = [p \in Slots |-> 0]
  /\ chan = [p \in Slots |-> 0]
  /\ killed = [p \in Slots |-> 0]
  /\ kstack = [p \in Slots |-> IF p = initproc THEN 1 ELSE 0]
  /\ ptlock = 0
  /\ proc = [c \in CPUs |-> 0]
  /\ on = [c \in CPUs |-> 0]
  /\ spc = [c \in CPUs |-> "loop"]
  /\ scan = [c \in CPUs |-> 1]
  /\ intf = [c \in CPUs |-> 0]
  /\ intena = [c \in CPUs |-> 0]
  /\ pc = [p \in Slots |-> "forkret"]
  /\ ret = [p \in Slots |-> "user"]
  /\ saved = [p \in Slots |-> 0]
  /\ np = [p \in Slots |-> 0]

(* CPU c executes process p at label l, outside the scheduler. *)
At(c, p, l) == on[c] = p /\ pc[p] = l /\ state[p] = "RUNNING"
goto(p, l) == pc' = [pc EXCEPT ![p] = l]

(* acquire(&ptable.lock) that a swtch will follow, and its release. *)
Lock(c) ==
  /\ ptlock = 0
  /\ ptlock' = c
  /\ intena' = [intena EXCEPT ![c] = intf[c]]
  /\ intf' = [intf EXCEPT ![c] = 0]

(* flag is what intena is at that point; the field is dead afterwards.     *)
Unlock(c, flag) ==
  /\ ptlock' = 0
  /\ intf' = [intf EXCEPT ![c] = flag]
  /\ intena' = [intena EXCEPT ![c] = 0]

(* state after wakeup1(ch) *)
wakeup1(st, ch) ==
  [p \in Slots |-> IF st[p] = "SLEEPING" /\ chan[p] = ch THEN "RUNNABLE" ELSE st[p]]

-----------------------------------------------------------------------------
(* The scheduler of CPU c. *)

Scheduling(c, l) == on[c] = 0 /\ spc[c] = l
sgoto(c, l) == spc' = [spc EXCEPT ![c] = l]

scheduler_sti(c) ==
  /\ Scheduling(c, "loop") /\ c \in online
  /\ intf' = [intf EXCEPT ![c] = 1]
  /\ sgoto(c, "sti")
  /\ UNCHANGED <<table, ptlock, proc, on, scan, intena, pc, local>>

scheduler_acquire(c) ==
  /\ Scheduling(c, "sti")
  /\ Lock(c)
  /\ sgoto(c, "scan")
  /\ UNCHANGED <<table, proc, on, scan, pc, local>>

mutant_scheduler_choose_first(c) ==
  /\ Scheduling(c, "scan")
  /\ \E p \in Slots :
       /\ scan[c] = 1 /\ state[p] = "RUNNABLE"
       /\ \A q \in Slots : q < p => state[q] # "RUNNABLE"
       /\ proc' = [proc EXCEPT ![c] = p]
       /\ state' = [state EXCEPT ![p] = "RUNNING"]
  /\ sgoto(c, "swtch")
  /\ UNCHANGED <<pid, parent, chan, killed, kstack, nextpid, ptlock, on, scan, flags, pc, local>>

(* The next RUNNABLE slot at or after scan is chosen. *)
scheduler_choose(c) ==
  /\ Scheduling(c, "scan")
  /\ \E p \in Slots :
       /\ p >= scan[c] /\ state[p] = "RUNNABLE"
       /\ \A q \in Slots : q >= scan[c] /\ q < p => state[q] # "RUNNABLE"
       /\ proc' = [proc EXCEPT ![c] = p]
       /\ state' = [state EXCEPT ![p] = "RUNNING"]
       /\ scan' = [scan EXCEPT ![c] = p + 1]
  /\ sgoto(c, "swtch")
  /\ UNCHANGED <<pid, parent, chan, killed, kstack, nextpid, ptlock, on, flags, pc, local>>

scheduler_swtch(c) ==
  /\ Scheduling(c, "swtch")
  /\ on' = [on EXCEPT ![c] = proc[c]]
  /\ sgoto(c, "back")
  /\ UNCHANGED <<table, ptlock, proc, scan, flags, pc, local>>

scheduler_back(c) ==
  /\ Scheduling(c, "back")
  /\ proc' = [proc EXCEPT ![c] = 0]
  /\ sgoto(c, "scan")
  /\ UNCHANGED <<table, ptlock, on, scan, flags, pc, local>>

scheduler_release(c) ==
  /\ Scheduling(c, "scan")
  /\ \A p \in Slots : p >= scan[c] => state[p] # "RUNNABLE"
  /\ Unlock(c, intena[c])
  /\ scan' = [scan EXCEPT ![c] = 1]
  /\ sgoto(c, "loop")
  /\ UNCHANGED <<table, proc, on, pc, local>>

-----------------------------------------------------------------------------
(* Giving up the CPU.  A process that has changed its state is at one of   *)
(* these labels and resumes there when the scheduler switches back.        *)

Parked == {"yield", "sleep", "wait_sleep", "zombie"}

mutant_sched_after_release(c) ==
  /\ \E p \in Slots :
       /\ on[c] = p /\ pc[p] \in Parked /\ state[p] # "RUNNING"
       /\ saved' = [saved EXCEPT ![p] = intena[c]]
       /\ ptlock' = IF pc[p] = "zombie" /\ ptlock = c THEN 0 ELSE ptlock
       /\ on' = IF pc[p] = "zombie" /\ ptlock = c THEN on ELSE [on EXCEPT ![c] = 0]
  /\ UNCHANGED <<table, proc, spc, scan, flags, pc, ret, np>>

(* sched up to its swtch. *)
sched(c) ==
  /\ \E p \in Slots :
       /\ on[c] = p /\ pc[p] \in Parked /\ state[p] # "RUNNING"
       /\ saved' = [saved EXCEPT ![p] = intena[c]]
  /\ on' = [on EXCEPT ![c] = 0]
  /\ UNCHANGED <<table, ptlock, proc, spc, scan, flags, pc, ret, np>>

mutant_sched_return_of_cpu(c, p) == intena[c]

(* The intena that sched puts back after its swtch. *)
sched_return(c, p) == saved[p]

(* A clock tick; trap ends a killed process that was in user space. *)
Interruptible == {"user", "sys", "sysret", "trapret", "fork_kstack", "fork_copy", "fork_run"}
trap_timer(c) ==
  /\ intf[c] = 1
  /\ \E p \in Slots, l \in Interruptible :
       /\ At(c, p, l)
       /\ IF l = "user" /\ killed[p] = 1
            THEN goto(p, "exit") /\ UNCHANGED ret
            ELSE goto(p, "tick") /\ ret' = [ret EXCEPT ![p] = l]
  /\ intf' = [intf EXCEPT ![c] = 0]
  /\ UNCHANGED <<table, ptlock, cpus, intena, saved, np>>

yield(c) ==
  /\ \E p \in Slots :
       /\ At(c, p, "tick")
       /\ state' = [state EXCEPT ![p] = "RUNNABLE"]
       /\ goto(p, "yield")
  /\ Lock(c)
  /\ UNCHANGED <<pid, parent, chan, killed, kstack, nextpid, cpus, local>>

yield_return(c) ==
  /\ \E p \in Slots :
       /\ At(c, p, "yield")
       /\ Unlock(c, sched_return(c, p))
       /\ saved' = [saved EXCEPT ![p] = 0]
       /\ goto(p, "iret")
  /\ UNCHANGED <<table, cpus, ret, np>>

trap_iret(c) ==
  /\ \E p \in Slots :
       /\ At(c, p, "iret")
       /\ IF ret[p] = "user" /\ killed[p] = 1
            THEN goto(p, "exit") /\ UNCHANGED intf
            ELSE goto(p, ret[p]) /\ intf' = [intf EXCEPT ![c] = 1]
       /\ ret' = [ret EXCEPT ![p] = "user"]
  /\ UNCHANGED <<table, ptlock, cpus, intena, saved, np>>

forkret(c) ==
  /\ \E p \in Slots : At(c, p, "forkret") /\ goto(p, "trapret")
  /\ Unlock(c, intena[c])
  /\ UNCHANGED <<table, cpus, local>>

trapret(c) ==
  /\ \E p \in Slots : At(c, p, "trapret") /\ goto(p, "user")
  /\ intf' = [intf EXCEPT ![c] = 1]
  /\ UNCHANGED <<table, ptlock, cpus, intena, local>>

(* A system call starts and ends; both times a killed process exits.  At   *)
(* "sys" the call is under way: it forks, waits, kills, or sleeps any      *)
(* number of times.                                                        *)
trap_syscall(c) ==
  /\ \E p \in Slots :
       /\ At(c, p, "user")
       /\ goto(p, IF killed[p] = 1 THEN "exit" ELSE "sys")
  /\ UNCHANGED <<table, ptlock, cpus, flags, local>>

sysret(c) ==
  /\ \E p \in Slots, l \in {"sys", "sysret"} :
       /\ At(c, p, l)
       /\ goto(p, IF killed[p] = 1 THEN "exit" ELSE "user")
  /\ UNCHANGED <<table, ptlock, cpus, flags, local>>

-----------------------------------------------------------------------------
(* System calls. *)

(* allocproc up to its release: the first free slot is claimed. *)
allocproc(c) ==
  /\ ptlock = 0
  /\ \E p \in Slots :
       /\ At(c, p, "sys")
       /\ \/ /\ \A q \in Slots : state[q] # "UNUSED"
             /\ goto(p, "sysret")
             /\ UNCHANGED <<state, pid, nextpid, np>>
          \/ \E q \in Slots :
               /\ state[q] = "UNUSED" /\ \A r \in 1..(q-1) : state[r] # "UNUSED"
               /\ nextpid <= MaxPid
               /\ Cardinality(online) + Cardinality({r \in Slots : state[r] # "UNUSED"})
                    < MaxLoad
               /\ state' = [state EXCEPT ![q] = "EMBRYO"]
               /\ pid' = [pid EXCEPT ![q] = nextpid]
               /\ nextpid' = nextpid + 1
               /\ np' = [np EXCEPT ![p] = q]
               /\ goto(p, "fork_kstack")
  /\ UNCHANGED <<parent, chan, killed, kstack, ptlock, cpus, flags, ret, saved>>

(* The rest of allocproc: kalloc gives a page for the stack, or it fails. *)
allocproc_kstack(c) ==
  /\ \E p \in Slots :
       /\ At(c, p, "fork_kstack")
       /\ \/ /\ kstack' = [kstack EXCEPT ![np[p]] = 1]
             /\ pc' = [pc EXCEPT ![p] = "fork_copy", ![np[p]] = "forkret"]
             /\ UNCHANGED <<state, np>>
          \/ /\ state' = [state EXCEPT ![np[p]] = "UNUSED"]
             /\ np' = [np EXCEPT ![p] = 0]
             /\ goto(p, "sysret")
             /\ UNCHANGED kstack
  /\ UNCHANGED <<pid, parent, chan, killed, nextpid, ptlock, cpus, flags, ret, saved>>

(* fork: copyuvm succeeds, or it fails and the slot is given back. *)
fork_copy(c) ==
  /\ \E p \in Slots :
       /\ At(c, p, "fork_copy")
       /\ \/ /\ parent' = [parent EXCEPT ![np[p]] = p]
             /\ goto(p, "fork_run")
             /\ UNCHANGED <<state, kstack, np>>
          \/ /\ kstack' = [kstack EXCEPT ![np[p]] = 0]
             /\ state' = [state EXCEPT ![np[p]] = "UNUSED"]
             /\ np' = [np EXCEPT ![p] = 0]
             /\ goto(p, "sysret")
             /\ UNCHANGED parent
  /\ UNCHANGED <<pid, chan, killed, nextpid, ptlock, cpus, flags, ret, saved>>

fork_run(c) ==
  /\ ptlock = 0
  /\ \E p \in Slots :
       /\ At(c, p, "fork_run")
       /\ state' = [state EXCEPT ![np[p]] = "RUNNABLE"]
       /\ np' = [np EXCEPT ![p] = 0]
       /\ goto(p, "sysret")
  /\ UNCHANGED <<pid, parent, chan, killed, kstack, nextpid, ptlock, cpus, flags, ret, saved>>

(* A process other than init asks to exit. *)
sys_exit(c) ==
  /\ \E p \in Slots \ {initproc} : At(c, p, "sys") /\ goto(p, "exit")
  /\ UNCHANGED <<table, ptlock, cpus, flags, local>>

mutant_exit_no_init_wakeup(c) ==
  /\ \E p \in Slots \ {initproc} :
       LET kids == {q \in Slots : parent[q] = p} IN
       /\ At(c, p, "exit")
       /\ parent' = [q \in Slots |-> IF q \in kids THEN initproc ELSE parent[q]]
       /\ state' = [wakeup1(state, parent[p]) EXCEPT ![p] = "ZOMBIE"]
       /\ goto(p, "zombie")
  /\ Lock(c)
  /\ UNCHANGED <<pid, chan, killed, kstack, nextpid, cpus, local>>

mutant_exit_no_wakeup(c) ==
  /\ \E p \in Slots \ {initproc} :
       LET kids == {q \in Slots : parent[q] = p} IN
       /\ At(c, p, "exit")
       /\ parent' = [q \in Slots |-> IF q \in kids THEN initproc ELSE parent[q]]
       /\ state' = [state EXCEPT ![p] = "ZOMBIE"]
       /\ goto(p, "zombie")
  /\ Lock(c)
  /\ UNCHANGED <<pid, chan, killed, kstack, nextpid, cpus, local>>

(* exit after it has closed its files: up to sched. *)
exit(c) ==
  /\ \E p \in Slots \ {initproc} :
       LET kids == {q \in Slots : parent[q] = p}
           told == wakeup1(state, parent[p])
       IN
       /\ At(c, p, "exit")
       /\ parent' = [q \in Slots |-> IF q \in kids THEN initproc ELSE parent[q]]
       /\ state' = [(IF \E q \in kids : state[q] = "ZOMBIE"
                       THEN wakeup1(told, initproc) ELSE told) EXCEPT ![p] = "ZOMBIE"]
       /\ goto(p, "zombie")
  /\ Lock(c)
  /\ UNCHANGED <<pid, chan, killed, kstack, nextpid, cpus, local>>

wait(c) ==
  /\ \E p \in Slots : At(c, p, "sys") /\ goto(p, "wait")
  /\ Lock(c)
  /\ UNCHANGED <<table, cpus, local>>

(* One pass over the table: the first zombie child is freed. *)
wait_reap(c) ==
  /\ \E p \in Slots : \E z \in Slots :
       /\ At(c, p, "wait")
       /\ parent[z] = p /\ state[z] = "ZOMBIE"
       /\ \A q \in 1..(z-1) : ~(parent[q] = p /\ state[q] = "ZOMBIE")
       /\ kstack' = [kstack EXCEPT ![z] = 0]
       /\ pid' = [pid EXCEPT ![z] = 0]
       /\ parent' = [parent EXCEPT ![z] = 0]
       /\ killed' = [killed EXCEPT ![z] = 0]
       /\ state' = [state EXCEPT ![z] = "UNUSED"]
       /\ goto(p, "sysret")
  /\ Unlock(c, intena[c])
  /\ UNCHANGED <<chan, nextpid, cpus, local>>

NoZombieChild(p) == \A q \in Slots : ~(parent[q] = p /\ state[q] = "ZOMBIE")

(* ... nothing to wait for, or killed ... *)
wait_fail(c) ==
  /\ \E p \in Slots :
       /\ At(c, p, "wait")
       /\ NoZombieChild(p)
       /\ killed[p] = 1 \/ \A q \in Slots : parent[q] # p
       /\ goto(p, "sysret")
  /\ Unlock(c, intena[c])
  /\ UNCHANGED <<table, cpus, local>>

mutant_wait_sleep_killed(c) ==
  /\ \E p \in Slots :
       /\ At(c, p, "wait")
       /\ NoZombieChild(p)
       /\ \E q \in Slots : parent[q] = p
       /\ chan' = [chan EXCEPT ![p] = p]
       /\ state' = [state EXCEPT ![p] = "SLEEPING"]
       /\ goto(p, "wait_sleep")
  /\ UNCHANGED <<pid, parent, killed, kstack, nextpid, ptlock, cpus, flags, local>>

(* ... or sleep(curproc, &ptable.lock). *)
wait_sleep(c) ==
  /\ \E p \in Slots :
       /\ At(c, p, "wait")
       /\ NoZombieChild(p)
       /\ killed[p] = 0 /\ \E q \in Slots : parent[q] = p
       /\ chan' = [chan EXCEPT ![p] = p]
       /\ state' = [state EXCEPT ![p] = "SLEEPING"]
       /\ goto(p, "wait_sleep")
  /\ UNCHANGED <<pid, parent, killed, kstack, nextpid, ptlock, cpus, flags, local>>

wait_sleep_return(c) ==
  /\ \E p \in Slots :
       /\ At(c, p, "wait_sleep")
       /\ intena' = [intena EXCEPT ![c] = sched_return(c, p)]
       /\ saved' = [saved EXCEPT ![p] = 0]
       /\ chan' = [chan EXCEPT ![p] = 0]
       /\ goto(p, "wait")
  /\ UNCHANGED <<state, pid, parent, killed, kstack, nextpid, ptlock, cpus, intf, ret, np>>

(* sleep(chan, lk) with a lock lk of the caller; lk itself is the subject  *)
(* of module SleepLock.  Init only forks and waits (init.c).               *)
sleep(c) ==
  /\ \E p \in Slots \ {initproc} :
       /\ At(c, p, "sys")
       /\ chan' = [chan EXCEPT ![p] = IO]
       /\ state' = [state EXCEPT ![p] = "SLEEPING"]
       /\ goto(p, "sleep")
  /\ Lock(c)
  /\ UNCHANGED <<pid, parent, killed, kstack, nextpid, cpus, local>>

sleep_return(c) ==
  /\ \E p \in Slots :
       /\ At(c, p, "sleep")
       /\ Unlock(c, sched_return(c, p))
       /\ saved' = [saved EXCEPT ![p] = 0]
       /\ chan' = [chan EXCEPT ![p] = 0]
       /\ goto(p, "sys")
  /\ UNCHANGED <<state, pid, parent, killed, kstack, nextpid, cpus, ret, np>>

(* A device interrupt on a CPU that takes interrupts wakes the sleepers up. *)
wakeup(c) ==
  /\ intf[c] = 1 /\ ptlock = 0
  /\ state' = wakeup1(state, IO)
  /\ UNCHANGED <<pid, parent, chan, killed, kstack, nextpid, ptlock, cpus, flags, pc, local>>

kill(c) ==
  /\ ptlock = 0
  /\ \E p \in Slots \ {initproc}, k \in KillPids :
       /\ At(c, p, "sys")
       /\ \E q \in Slots :
            /\ pid[q] = k /\ \A r \in 1..(q-1) : pid[r] # k
            /\ killed' = [killed EXCEPT ![q] = 1]
            /\ state' = [state EXCEPT ![q] = IF @ = "SLEEPING" THEN "RUNNABLE" ELSE @]
       /\ goto(p, "sysret")
  /\ UNCHANGED <<pid, parent, chan, kstack, nextpid, ptlock, cpus, flags, local>>

-----------------------------------------------------------------------------

Scheduler(c) ==
  \/ scheduler_sti(c) \/ scheduler_acquire(c) \/ scheduler_choose(c)
  \/ scheduler_swtch(c) \/ scheduler_back(c) \/ scheduler_release(c)

Switching(c) ==
  \/ sched(c) \/ trap_timer(c) \/ yield(c) \/ yield_return(c) \/ trap_iret(c)
  \/ forkret(c) \/ trapret(c) \/ trap_syscall(c) \/ sysret(c)

Syscall(c) ==
  \/ allocproc(c) \/ allocproc_kstack(c) \/ fork_copy(c) \/ fork_run(c)
  \/ sys_exit(c) \/ exit(c) \/ wait(c) \/ wait_reap(c) \/ wait_fail(c)
  \/ wait_sleep(c) \/ wait_sleep_return(c) \/ sleep(c) \/ sleep_return(c)
  \/ wakeup(c) \/ kill(c)

Next ==
  /\ UNCHANGED online
  /\ \E c \in CPUs : Scheduler(c) \/ Switching(c) \/ Syscall(c)

Spec == Init /\ [][Next]_vars

(* What a CPU does next of itself, and the acquires on which it may spin:  *)
(* strong fairness says that no CPU loses the race for ptable.lock for     *)
(* ever.  The local APIC keeps a tick or a device interrupt pending until  *)
(* the CPU takes it.                                                       *)
Step(c) ==
  \/ scheduler_sti(c) \/ scheduler_choose(c) \/ scheduler_swtch(c)
  \/ scheduler_back(c) \/ scheduler_release(c)
  \/ sched(c) \/ yield_return(c) \/ trap_iret(c) \/ forkret(c) \/ trapret(c)
  \/ allocproc_kstack(c) \/ fork_copy(c) \/ wait_reap(c) \/ wait_fail(c)
  \/ wait_sleep(c) \/ wait_sleep_return(c) \/ sleep_return(c)

Spin(c) == scheduler_acquire(c) \/ yield(c) \/ exit(c) \/ fork_run(c)

GetOn(c) ==
  \/ trapret(c) \/ sysret(c)
  \/ allocproc_kstack(c) \/ fork_copy(c) \/ fork_run(c)

(* A process gets on between two ticks: system calls end, and init keeps   *)
(* calling wait (init.c:41).                                               *)
Fairness ==
  /\ \A c \in CPUs : /\ WF_steps(Step(c)) /\ SF_steps(Spin(c))
                     /\ SF_steps(trap_timer(c)) /\ SF_steps(wakeup(c))
  /\ \A p \in Slots : SF_steps(\E c \in CPUs : on[c] = p /\ GetOn(c))
  /\ SF_steps(\E c \in CPUs : on[c] = initproc /\ trap_syscall(c))
  /\ SF_steps(\E c \in CPUs : on[c] = initproc /\ wait(c))

LiveSpec == Spec /\ Fairness

-----------------------------------------------------------------------------

States == {"UNUSED", "EMBRYO", "SLEEPING", "RUNNABLE", "RUNNING", "ZOMBIE"}
Labels == Interruptible \cup Parked \cup
          {"tick", "iret", "forkret", "exit", "wait"}

TypeOK ==
  /\ online \in SUBSET CPUs
  /\ state \in [Slots -> States]
  /\ pid \in [Slots -> 0..MaxPid + 1]
  /\ nextpid \in 1..MaxPid + 1
  /\ parent \in [Slots -> 0..NPROC]
  /\ chan \in [Slots -> 0..IO]
  /\ killed \in [Slots -> {0, 1}]
  /\ kstack \in [Slots -> {0, 1}]
  /\ ptlock \in CPUs \cup {0}
  /\ proc \in [CPUs -> 0..NPROC]
  /\ on \in [CPUs -> 0..NPROC]
  /\ spc \in [CPUs -> {"loop", "sti", "scan", "swtch", "back"}]
  /\ scan \in [CPUs -> 1..NPROC + 1]
  /\ intf \in [CPUs -> {0, 1}]
  /\ intena \in [CPUs -> {0, 1}]
  /\ pc \in [Slots -> Labels]
  /\ ret \in [Slots -> Interruptible]
  /\ saved \in [Slots -> {0, 1}]
  /\ np \in [Slots -> 0..NPROC]

(* While a CPU executes on a process's kernel stack, myproc() is that      *)
(* process, the stack page is allocated and no other CPU executes on it.   *)
(* This is what holding ptable.lock across swtch is for (the comments at   *)
(* proc.c:405 and proc.c:439): exit still runs on the stack that wait      *)
(* frees, and yield on the stack another CPU may choose.                   *)
StackSafe ==
  \A c \in CPUs : on[c] # 0 =>
    /\ proc[c] = on[c]
    /\ kstack[on[c]] = 1 /\ state[on[c]] \notin {"UNUSED", "EMBRYO"}
    /\ \A d \in CPUs : on[d] = on[c] => d = c

(* When nobody is inside ptable.lock, the RUNNING processes are exactly    *)
(* the ones some CPU executes.                                             *)
RunningIsOnCPU ==
  ptlock = 0 => \A p \in Slots : state[p] = "RUNNING" <=> \E c \in CPUs : on[c] = p

(* sched finds what it insists on: ptable.lock is held, by this CPU, and   *)
(* interrupts are off ("sched ptable.lock", "sched interruptible",         *)
(* proc.c:449, 458).                                                       *)
SchedNeverPanics ==
  \A c \in CPUs, p \in Slots :
    on[c] = p /\ pc[p] \in Parked /\ state[p] # "RUNNING" => ptlock = c /\ intf[c] = 0

(* Every CPU runs on a stack of its own that is not freed under it,        *)
(* RUNNING means just that, and the switch is made under ptable.lock       *)
(* (proc.c:405, 439).                                                      *)
StacksSound == TypeOK /\ StackSafe /\ RunningIsOnCPU /\ SchedNeverPanics

(* Every process but init has a parent that can still wait for it: exit    *)
(* hands its children to init before it becomes a zombie, and wait frees a *)
(* slot only after its own children have gone.                             *)
NoOrphans ==
  \A p \in Slots \ {initproc} :
    state[p] \notin {"UNUSED", "EMBRYO"} =>
      /\ parent[p] # 0
      /\ state[parent[p]] \notin {"UNUSED", "EMBRYO", "ZOMBIE"}

(* Nobody sleeps in wait while a child of theirs is a zombie: exit wakes   *)
(* the parent, and init when it inherits a zombie, in the same critical    *)
(* section that makes the zombie ("Parent might be sleeping in wait()",    *)
(* proc.c:289).                                                            *)
WaitSeesZombie ==
  \A p, q \in Slots :
    ~(state[p] = "SLEEPING" /\ pc[p] = "wait_sleep" /\ parent[q] = p /\ state[q] = "ZOMBIE")

(* exit and wait: every process has a parent that can still wait for it,   *)
(* and that does not sleep while it is a zombie (proc.c:289-308).          *)
FamiliesSound == NoOrphans /\ WaitSeesZombie

(* A kernel thread that has released ptable.lock runs with the interrupt   *)
(* flag it had before it acquired the lock, even if it went through the    *)
(* scheduler and came back on another CPU: system calls run with           *)
(* interrupts on and the tick handler with interrupts off ("intena is a    *)
(* property of this kernel thread, not this CPU", proc.c:432).             *)
FlagIsPerThread ==
  \A c \in CPUs, p \in Slots : on[c] = p /\ ptlock # c =>
    /\ pc[p] \in Interruptible \ {"trapret"} => intf[c] = 1
    /\ pc[p] \in {"tick", "iret"} => intf[c] = 0

(* A process that is ready runs: the scheduler resumes its scan after the  *)
(* slot it has chosen, and a tick takes the CPU from whoever has it.       *)
ReadyRuns == \A p \in Slots : state[p] = "RUNNABLE" ~> state[p] = "RUNNING"

(* A killed process exits, also when the kill meets it on its way to sleep *)
(* in wait or finds it asleep ("Wake process from sleep if necessary",     *)
(* proc.c:612).                                                            *)
KilledExits ==
  \A p \in Slots : killed[p] = 1 /\ state[p] \in {"SLEEPING", "RUNNABLE", "RUNNING"}
                  ~> state[p] \in {"ZOMBIE", "UNUSED"}

(* A zombie that init has inherited, or made, is freed. *)
OrphanReaped ==
  \A p \in Slots : state[p] = "ZOMBIE" /\ parent[p] = initproc ~> state[p] = "UNUSED"
=============================================================================
