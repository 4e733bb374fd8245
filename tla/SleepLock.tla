----------------------------- MODULE SleepLock ------------------------------
(***************************************************************************)
(* A sleep-lock (sleeplock.c) with sleep and wakeup (proc.c) cut at every  *)
(* acquire and release of the two spinlocks involved: lk->lk, which guards *)
(* the sleep-lock's fields, and ptable.lock, which guards the state of the *)
(* processes.  A process is put back to RUNNABLE by a wakeup or, at any    *)
(* time, by kill.                                                          *)
(*                                                                         *)
(* Who runs on which CPU is left out: a process that is not asleep takes   *)
(* its next step whenever it likes, and the scheduler's release of         *)
(* ptable.lock on behalf of a process that has gone to sleep is part of    *)
(* the step in which it switches away (module Proc has both).              *)
(***************************************************************************)

EXTENDS Integers

CONSTANT Procs

SleepLockConstants == 0 \notin Procs

VARIABLES
  locked,  \* lk->locked
  pid,     \* lk->pid: the owner, 0 for none
  lk,      \* holder of the spinlock lk->lk, 0 for none
  ptable,  \* holder of ptable.lock
  state,   \* "SLEEPING" on channel lk, or "RUNNABLE" (or running)
  pc

vars == <<locked, pid, lk, ptable, state, pc>>

PCs == {"out", "test", "sleep_acquire", "sleep_release", "sleep", "asleep",
        "relock", "in", "clear", "wakeup", "release"}

(* initsleeplock *)
Init ==
  /\ locked = 0
  /\ pid = 0
  /\ lk = 0
  /\ ptable = 0
  /\ state = [p \in Procs |-> "RUNNABLE"]
  /\ pc = [p \in Procs |-> "out"]

At(p, l) == pc[p] = l /\ state[p] = "RUNNABLE"
goto(p, l) == pc' = [pc EXCEPT ![p] = l]

-----------------------------------------------------------------------------

acquiresleep(p) ==
  /\ At(p, "out")
  /\ lk = 0 /\ lk' = p
  /\ goto(p, "test")
  /\ UNCHANGED <<locked, pid, ptable, state>>

mutant_test_taken_anyway(p) ==
  /\ At(p, "test")
  /\ locked' = locked + 1 /\ pid' = p /\ lk' = 0 /\ goto(p, "in")
  /\ UNCHANGED <<ptable, state>>

(* The while condition: sleep again, or take the lock. *)
test(p) ==
  /\ At(p, "test")
  /\ IF locked = 1
       THEN goto(p, "sleep_acquire") /\ UNCHANGED <<locked, pid, lk>>
       ELSE locked' = 1 /\ pid' = p /\ lk' = 0 /\ goto(p, "in")
  /\ UNCHANGED <<ptable, state>>

mutant_sleep_acquire_late(p) ==
  /\ At(p, "sleep_acquire")
  /\ lk' = 0
  /\ goto(p, "sleep_release")
  /\ UNCHANGED <<locked, pid, ptable, state>>

(* sleep(lk, &lk->lk): ptable.lock first, ... *)
sleep_acquire(p) ==
  /\ At(p, "sleep_acquire")
  /\ ptable = 0 /\ ptable' = p
  /\ goto(p, "sleep_release")
  /\ UNCHANGED <<locked, pid, lk, state>>

(* ... then let go of lk->lk, ... *)
sleep_release(p) ==
  /\ At(p, "sleep_release")
  /\ lk' = 0
  /\ goto(p, "sleep")
  /\ UNCHANGED <<locked, pid, ptable, state>>

(* ... and fall asleep; the scheduler releases ptable.lock. *)
sleep(p) ==
  /\ At(p, "sleep")
  /\ state' = [state EXCEPT ![p] = "SLEEPING"]
  /\ ptable' = 0
  /\ goto(p, "asleep")
  /\ UNCHANGED <<locked, pid, lk>>

(* The scheduler has chosen the process: chan = 0, release ptable.lock. *)
sleep_return(p) ==
  /\ At(p, "asleep")
  /\ ptable = 0
  /\ goto(p, "relock")
  /\ UNCHANGED <<locked, pid, lk, ptable, state>>

sleep_relock(p) ==
  /\ At(p, "relock")
  /\ lk = 0 /\ lk' = p
  /\ goto(p, "test")
  /\ UNCHANGED <<locked, pid, ptable, state>>

releasesleep(p) ==
  /\ At(p, "in")
  /\ lk = 0 /\ lk' = p
  /\ goto(p, "clear")
  /\ UNCHANGED <<locked, pid, ptable, state>>

clear(p) ==
  /\ At(p, "clear")
  /\ locked' = 0 /\ pid' = 0
  /\ goto(p, "wakeup")
  /\ UNCHANGED <<lk, ptable, state>>

wakeup(p) ==
  /\ At(p, "wakeup")
  /\ ptable = 0
  /\ state' = [q \in Procs |-> "RUNNABLE"]
  /\ goto(p, "release")
  /\ UNCHANGED <<locked, pid, lk, ptable>>

release(p) ==
  /\ At(p, "release")
  /\ lk' = 0
  /\ goto(p, "out")
  /\ UNCHANGED <<locked, pid, ptable, state>>

(* kill by another process: the sleeper runs, and will test locked again. *)
kill(p) ==
  /\ ptable = 0
  /\ state[p] = "SLEEPING"
  /\ state' = [state EXCEPT ![p] = "RUNNABLE"]
  /\ UNCHANGED <<locked, pid, lk, ptable, pc>>

Acquire(p) ==
  \/ acquiresleep(p) \/ test(p) \/ sleep_acquire(p) \/ sleep_release(p)
  \/ sleep(p) \/ sleep_return(p) \/ sleep_relock(p)
Release(p) == releasesleep(p) \/ clear(p) \/ wakeup(p) \/ release(p)

Next == \E p \in Procs : Acquire(p) \/ Release(p) \/ kill(p)

Spec == Init /\ [][Next]_vars

(* The steps that spin on a spinlock; strong fairness says that nobody     *)
(* loses every race for one.  A process that has the sleep-lock gives it   *)
(* back; nobody has to ask for it, and nobody has to be killed.            *)
Spin(p) == sleep_acquire(p) \/ sleep_return(p) \/ sleep_relock(p)
           \/ releasesleep(p) \/ wakeup(p)
Step(p) == test(p) \/ sleep_release(p) \/ sleep(p) \/ clear(p) \/ release(p)

-----------------------------------------------------------------------------

TypeOK ==
  /\ locked \in {0, 1}
  /\ pid \in Procs \cup {0}
  /\ lk \in Procs \cup {0}
  /\ ptable \in Procs \cup {0}
  /\ state \in [Procs -> {"RUNNABLE", "SLEEPING"}]
  /\ pc \in [Procs -> PCs]

(* acquiresleep and releasesleep implement a mutex whose owner is lk->pid: *)
(* one owner at a time, taken when free and given back by the owner.       *)
M == INSTANCE Mutex WITH owner <- pid
ImplementsMutex == M!Spec

holdingsleep(p) == locked = 1 /\ pid = p

(* holdingsleep is exact: true from the end of acquiresleep to the store   *)
(* that frees the lock, and for nobody else.                               *)
HoldingSleepExact ==
  \A p \in Procs : pc[p] \in {"in", "clear"} <=> holdingsleep(p)

(* "Once we hold ptable.lock, we can be guaranteed that we won't miss any  *)
(* wakeup" (proc.c:536): whoever sleeps on a lock that is free will be     *)
(* woken, because the process that freed it has yet to call wakeup.        *)
NoMissedWakeup ==
  \A p \in Procs : state[p] = "SLEEPING" /\ locked = 0 =>
    \E q \in Procs : pc[q] = "wakeup"

(* A process that sleeps on the lock is woken. *)
SleeperWoken == \A p \in Procs : state[p] = "SLEEPING" ~> state[p] = "RUNNABLE"

(* The lock is not left free while processes that asked for it sleep or    *)
(* run after it for ever: someone gets it.                                 *)
SomeoneEnters ==
  (\E p \in Procs : pc[p] \notin {"out", "in", "clear", "wakeup", "release"})
    ~> (\E p \in Procs : pc[p] = "in")
=============================================================================
