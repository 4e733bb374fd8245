------------------------------ MODULE SpinLock ------------------------------
(***************************************************************************)
(* The spinlocks of spinlock.c.  Every CPU runs kernel code that acquires  *)
(* and releases locks; while its interrupt flag is set an interrupt may    *)
(* suspend that code and run a handler, which takes and releases locks of  *)
(* its own on the same CPU.                                                *)
(*                                                                         *)
(* acquire and release are cut at every access to memory that another CPU  *)
(* may touch (locked and cpu of the lock) and at the one point inside them *)
(* where an interrupt can still arrive: between readeflags and cli.  Stores *)
(* are seen in program order, as on the x86 the code is written for.  What *)
(* follows cli up to the next shared access is one step, because nothing   *)
(* else can observe it.                                                    *)
(***************************************************************************)
EXTENDS Integers, FiniteSets

CONSTANTS CPUs,     \* the processors
          Locks,    \* the spinlocks
          Rank      \* the order in which the kernel nests its locks

SpinLockConstants ==
  0 \notin CPUs /\ 0 \notin Locks /\ IsFiniteSet(Locks) /\ Rank \in [Locks -> Nat]

VARIABLES
  locked,   \* lk->locked
  cpu,      \* lk->cpu, 0 when nobody has recorded itself
  intf,     \* the interrupt flag of each CPU
  ncli,     \* cpu->ncli, the depth of pushcli nesting
  intena,   \* cpu->intena, were interrupts on before the first pushcli?
  at, lk,   \* where the CPU is, and the lock it is working on
  eflags,   \* pushcli's local variable
  held,     \* the locks the running code has acquired and not yet released
  susp,     \* the code an interrupt handler has suspended
  ordered   \* 1: callers follow Rank and release what they hold
            \* 0: callers may acquire and release anything

vars == <<locked, cpu, intf, ncli, intena, at, lk, eflags, held, susp, ordered>>
shared == <<locked, cpu>>
clis == <<intf, ncli, intena>>
frame == <<at, lk, eflags, held>>

NoFrame == [at |-> "none", lk |-> 0, eflags |-> 0, held |-> {}]
Panics == {"acquire_panic", "release_panic", "popcli_panic"}
PCs == {"run", "pushcli", "acq_locked", "acq_cpu", "xchg", "setcpu",
        "rel_locked", "rel_cpu", "clear", "unlock", "popcli"} \cup Panics
Frames == [at : PCs, lk : Locks \cup {0}, eflags : {0, 1}, held : SUBSET Locks]

-----------------------------------------------------------------------------

(* initlock for every lock; the CPUs have finished mpmain: interrupts on. *)
Init ==
  /\ locked = [l \in Locks |-> 0]
  /\ cpu = [l \in Locks |-> 0]
  /\ intf = [c \in CPUs |-> 1]
  /\ ncli = [c \in CPUs |-> 0]
  /\ intena = [c \in CPUs |-> 0]
  /\ at = [c \in CPUs |-> "run"]
  /\ lk = [c \in CPUs |-> 0]
  /\ eflags = [c \in CPUs |-> 0]
  /\ held = [c \in CPUs |-> {}]
  /\ susp = [c \in CPUs |-> NoFrame]
  /\ ordered \in {0, 1}

goto(c, pc) == at' = [at EXCEPT ![c] = pc]

(* acquire is called; pushcli has read the flags and not yet disabled      *)
(* interrupts.                                                             *)
acquire(c, l) ==
  /\ at[c] = "run"
  /\ ordered = 1 => \A h \in held[c] : Rank[h] < Rank[l]
  /\ goto(c, "pushcli")
  /\ lk' = [lk EXCEPT ![c] = l]
  /\ eflags' = [eflags EXCEPT ![c] = intf[c]]
  /\ UNCHANGED <<shared, clis, held, susp>>

mutant_pushcli_no_cli(c) ==
  /\ at[c] = "pushcli"
  /\ intena' = [intena EXCEPT ![c] = IF ncli[c] = 0 THEN eflags[c] ELSE @]
  /\ ncli' = [ncli EXCEPT ![c] = @ + 1]
  /\ goto(c, "acq_locked")
  /\ UNCHANGED <<shared, intf, lk, eflags, held, susp>>

(* The rest of pushcli: cli, remember the flag of the outermost call. *)
pushcli(c) ==
  /\ at[c] = "pushcli"
  /\ intf' = [intf EXCEPT ![c] = 0]
  /\ intena' = [intena EXCEPT ![c] = IF ncli[c] = 0 THEN eflags[c] ELSE @]
  /\ ncli' = [ncli EXCEPT ![c] = @ + 1]
  /\ goto(c, "acq_locked")
  /\ UNCHANGED <<shared, lk, eflags, held, susp>>

(* holding reads locked, and then cpu only if locked was set.  Its own     *)
(* pushcli and popcli cancel out: no interrupt arrives between the reads.  *)
holding_locked(c, from, ifFree, ifLocked) ==
  /\ at[c] = from
  /\ goto(c, IF locked[lk[c]] = 0 THEN ifFree ELSE ifLocked)
  /\ UNCHANGED <<shared, clis, lk, eflags, held, susp>>

holding_cpu(c, from, ifOther, ifMine) ==
  /\ at[c] = from
  /\ goto(c, IF cpu[lk[c]] = c THEN ifMine ELSE ifOther)
  /\ UNCHANGED <<shared, clis, lk, eflags, held, susp>>

acquire_holding(c) ==
  \/ holding_locked(c, "acq_locked", "xchg", "acq_cpu")
  \/ holding_cpu(c, "acq_cpu", "xchg", "acquire_panic")

(* The xchg that finds the lock free.  One that finds it taken stores 1    *)
(* over 1 and is repeated.                                                 *)
xchg(c) ==
  /\ at[c] = "xchg"
  /\ locked[lk[c]] = 0
  /\ locked' = [locked EXCEPT ![lk[c]] = 1]
  /\ goto(c, "setcpu")
  /\ UNCHANGED <<cpu, clis, lk, eflags, held, susp>>

setcpu(c) ==
  /\ at[c] = "setcpu"
  /\ cpu' = [cpu EXCEPT ![lk[c]] = c]
  /\ held' = [held EXCEPT ![c] = @ \cup {lk[c]}]
  /\ goto(c, "run")
  /\ UNCHANGED <<locked, clis, lk, eflags, susp>>

release(c, l) ==
  /\ at[c] = "run"
  /\ ordered = 1 => l \in held[c]
  /\ goto(c, "rel_locked")
  /\ lk' = [lk EXCEPT ![c] = l]
  /\ UNCHANGED <<shared, clis, eflags, held, susp>>

release_holding(c) ==
  \/ holding_locked(c, "rel_locked", "release_panic", "rel_cpu")
  \/ holding_cpu(c, "rel_cpu", "release_panic", "clear")

clear(c) ==
  /\ at[c] = "clear"
  /\ cpu' = [cpu EXCEPT ![lk[c]] = 0]
  /\ goto(c, "unlock")
  /\ UNCHANGED <<locked, clis, lk, eflags, held, susp>>

unlock(c) ==
  /\ at[c] = "unlock"
  /\ locked' = [locked EXCEPT ![lk[c]] = 0]
  /\ held' = [held EXCEPT ![c] = @ \ {lk[c]}]
  /\ goto(c, "popcli")
  /\ UNCHANGED <<cpu, clis, lk, eflags, susp>>

mutant_popcli_always_sti(c) ==
  /\ at[c] = "popcli"
  /\ ncli' = [ncli EXCEPT ![c] = @ - 1]
  /\ intf' = [intf EXCEPT ![c] = IF ncli'[c] = 0 THEN 1 ELSE @]
  /\ goto(c, "run")
  /\ UNCHANGED <<shared, intena, lk, eflags, held, susp>>

popcli(c) ==
  /\ at[c] = "popcli"
  /\ IF intf[c] = 1
       THEN goto(c, "popcli_panic") /\ UNCHANGED clis
       ELSE /\ ncli' = [ncli EXCEPT ![c] = @ - 1]
            /\ intf' = [intf EXCEPT ![c] = IF ncli'[c] = 0 THEN intena[c] ELSE @]
            /\ goto(c, IF ncli'[c] < 0 THEN "popcli_panic" ELSE "run")
            /\ UNCHANGED intena
  /\ UNCHANGED <<shared, lk, eflags, held, susp>>

(* The gates tvinit sets up for devices clear the interrupt flag (trap.c,  *)
(* SETGATE with istrap 0): the suspended code resumes at iret, which       *)
(* restores the flag.                                                      *)
interrupt(c) ==
  /\ intf[c] = 1
  /\ at[c] \notin {"rel_locked", "rel_cpu"} \cup Panics
  /\ susp' = [susp EXCEPT ![c] = [at |-> at[c], lk |-> lk[c],
                                  eflags |-> eflags[c], held |-> held[c]]]
  /\ intf' = [intf EXCEPT ![c] = 0]
  /\ goto(c, "run")
  /\ lk' = [lk EXCEPT ![c] = 0]
  /\ eflags' = [eflags EXCEPT ![c] = 0]
  /\ held' = [held EXCEPT ![c] = {}]
  /\ UNCHANGED <<shared, ncli, intena>>

iret(c) ==
  /\ at[c] = "run" /\ held[c] = {}
  /\ susp[c] # NoFrame
  /\ at' = [at EXCEPT ![c] = susp[c].at]
  /\ lk' = [lk EXCEPT ![c] = susp[c].lk]
  /\ eflags' = [eflags EXCEPT ![c] = susp[c].eflags]
  /\ held' = [held EXCEPT ![c] = susp[c].held]
  /\ intf' = [intf EXCEPT ![c] = 1]
  /\ susp' = [susp EXCEPT ![c] = NoFrame]
  /\ UNCHANGED <<shared, ncli, intena>>

Next ==
  /\ UNCHANGED ordered
  /\ \E c \in CPUs :
       \/ \E l \in Locks : acquire(c, l) \/ release(c, l)
       \/ pushcli(c) \/ acquire_holding(c) \/ xchg(c) \/ setcpu(c)
       \/ release_holding(c) \/ clear(c) \/ unlock(c) \/ popcli(c)
       \/ interrupt(c) \/ iret(c)

Spec == Init /\ [][Next]_vars

-----------------------------------------------------------------------------

TypeOK ==
  /\ locked \in [Locks -> {0, 1}]
  /\ cpu \in [Locks -> CPUs \cup {0}]
  /\ intf \in [CPUs -> {0, 1}]
  /\ ncli \in [CPUs -> Nat]
  /\ intena \in [CPUs -> {0, 1}]
  /\ at \in [CPUs -> PCs]
  /\ lk \in [CPUs -> Locks \cup {0}]
  /\ eflags \in [CPUs -> {0, 1}]
  /\ held \in [CPUs -> SUBSET Locks]
  /\ susp \in [CPUs -> Frames \cup {NoFrame}]
  /\ ordered \in {0, 1}

(* Every lock this CPU has acquired, by the running and the suspended code. *)
Owned(c) == held[c] \cup susp[c].held

(* A lock that one CPU has acquired is not acquired by another, from the   *)
(* xchg that took it to the store that frees it.                           *)
MutualExclusion ==
  \A c, d \in CPUs : c # d =>
    /\ Owned(c) \cap Owned(d) = {}
    /\ at[c] = "setcpu" => lk[c] \notin Owned(d)

(* holding() tells the truth although locked and cpu are read one after    *)
(* the other while other CPUs store to them: acquire panics only when its  *)
(* CPU has the lock and never starts to spin on a lock of its own; release *)
(* goes on exactly when its CPU has the lock.                              *)
HoldingExact ==
  \A c \in CPUs :
    /\ at[c] = "acquire_panic" => lk[c] \in Owned(c)
    /\ at[c] = "xchg" => lk[c] \notin Owned(c)
    /\ at[c] = "release_panic" => lk[c] \notin Owned(c)
    /\ at[c] \in {"clear", "unlock"} => lk[c] \in Owned(c)

(* "Pushcli/popcli are like cli/sti except that they are matched: it takes *)
(* two popcli to undo two pushcli.  Also, if interrupts are off, then      *)
(* pushcli, popcli leaves them off" (spinlock.c:135): interrupts stay off  *)
(* from the first acquire to the last release and all through a handler,   *)
(* whatever the nesting, code that has released everything runs with the   *)
(* flag it started with, and popcli finds nothing to panic about.          *)
CliMatched ==
  \A c \in CPUs :
    /\ at[c] # "popcli_panic"
    /\ Owned(c) # {} => intf[c] = 0
    /\ at[c] = "run" /\ held[c] = {} =>
         ncli[c] = 0 /\ intf[c] = IF susp[c] = NoFrame THEN 1 ELSE 0

(* Callers that keep to one order never deadlock: no set of CPUs spins on  *)
(* locks that only members of the set could release.  This is what         *)
(* disabling interrupts is for ("disable interrupts to avoid deadlock",    *)
(* spinlock.c:32): a handler would otherwise spin on a lock its own CPU    *)
(* holds.                                                                  *)
NoDeadlock ==
  ordered = 1 => \A S \in SUBSET CPUs : S # {} =>
    ~\A c \in S : at[c] = "xchg" /\ \E d \in S : lk[c] \in Owned(d)

=============================================================================
