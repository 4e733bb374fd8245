------------------------------- MODULE Sync --------------------------------
(***************************************************************************)
(* Spinlocks, a sleep-lock and the clock, side by side: three parts that   *)
(* share no state, so that a behaviour of all three is one of each.        *)
(***************************************************************************)
EXTENDS Integers

CONSTANTS CPUs, Locks, Rank,         \* spinlocks
          Contenders,                \* sleep-lock
          Nappers, TicksW, Naps, TicksVictims

VARIABLES
  locked, cpu, intf, ncli, intena, at, lk, eflags, held, susp, ordered,
  slocked, spid, slk, sptable, sstate, spc,
  ticks, tlock, tstate, tkilled, tpc, tn, ticks0, ret, elapsed

spinVars == <<locked, cpu, intf, ncli, intena, at, lk, eflags, held, susp, ordered>>
sleepVars == <<slocked, spid, slk, sptable, sstate, spc>>
clockVars == <<ticks, tlock, tstate, tkilled, tpc, tn, ticks0, ret, elapsed>>

Spin == INSTANCE SpinLock
Sleep == INSTANCE SleepLock
  WITH Procs <- Contenders, locked <- slocked, pid <- spid, lk <- slk,
       ptable <- sptable, state <- sstate, pc <- spc
Clock == INSTANCE Ticks
  WITH Procs <- Nappers, W <- TicksW, Victims <- TicksVictims,
       lock <- tlock, state <- tstate, killed <- tkilled, pc <- tpc, n <- tn

ASSUME SpinLockAssumption == Spin!SpinLockConstants
ASSUME SleepLockAssumption == Sleep!SleepLockConstants
ASSUME TicksAssumption == Clock!TicksConstants

SyncSpec == Spin!Spec /\ Sleep!Spec /\ Clock!Spec

(* Locks (spinlock.c, sleeplock.c): acquire excludes, holding and          *)
(* holdingsleep are exact although they read one field after the other,    *)
(* and pushcli and popcli are matched through nesting and interrupts.      *)
(* sleep and wakeup (proc.c:521-598) as sleep-locks and the clock use      *)
(* them: nobody is asleep when what they wait for has come.                *)
SyncSound ==
  /\ Spin!TypeOK /\ Spin!MutualExclusion /\ Spin!HoldingExact /\ Spin!CliMatched
  /\ Sleep!TypeOK /\ Sleep!HoldingSleepExact /\ Sleep!NoMissedWakeup
  /\ Clock!TypeOK /\ Clock!SleeperIsEarly

(* Spinlocks: callers that keep to one order do not deadlock.  *)
NoDeadlock == Spin!NoDeadlock

(* Sleep-locks: acquiresleep and releasesleep are a mutex. *)
ImplementsMutex == Sleep!ImplementsMutex

(* The clock (sysproc.c:62-90): nobody returns 0 from sys_sleep too early, *)
(* also where ticks wraps.                                                 *)
SleptEnough == Clock!SleptEnough
=============================================================================
