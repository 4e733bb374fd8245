------------------------------ MODULE MCWaits -------------------------------
(***************************************************************************)
(* The ways in which kernel code waits: spinlocks, sleep-locks, pipes, the *)
(* console, the clock and the disk.  The parts share no state, so a        *)
(* behaviour runs one of them, chosen in the initial state, and leaves the *)
(* others as they started.  The pipe and the console are in module Rings,  *)
(* the locks and the clock in module Sync, with what they have to keep.    *)
(***************************************************************************)
EXTENDS Sync, Rings, TLC

CONSTANTS Parts,                     \* the parts a run explores
          Users, Blocks, NBUF, Values, MaxPinned, DiskErrors,
          l1, l2

\* Two locks nested in one order, as log.lock and ptable.lock are.
LockOrder == l1 :> 1 @@ l2 :> 2
ShortNaps == {0, 1, -1, -2}
NoLocks == <<>>
TwoNaps == {1, -1}

VARIABLES part,
  blockno, valid, dirty, refcnt, bdata, block, lru, idequeue, disk, sent, bpc,
  blk, bp, latest

diskVars == <<blockno, valid, dirty, refcnt, bdata, block, lru, idequeue, disk,
              sent, bpc, blk, bp, latest>>
vars == <<part, spinVars, sleepVars, pipeVars, consVars, clockVars, diskVars>>

Disk == INSTANCE Bcache
  WITH Procs <- Users, data <- bdata, lock <- block, pc <- bpc

Init ==
  /\ part \in Parts
  /\ Spin!Init /\ Sleep!Init /\ Pipe!Init /\ Cons!Init /\ Clock!Init /\ Disk!Init
  /\ part # "spin" => ordered = 1

Next ==
  \/ /\ part = "spin" /\ Spin!Next
     /\ UNCHANGED <<part, sleepVars, pipeVars, consVars, clockVars, diskVars>>
  \/ /\ part = "sleep" /\ Sleep!Next
     /\ UNCHANGED <<part, spinVars, pipeVars, consVars, clockVars, diskVars>>
  \/ /\ part = "pipe" /\ Pipe!Next
     /\ UNCHANGED <<part, spinVars, sleepVars, consVars, clockVars, diskVars>>
  \/ /\ part = "console" /\ Cons!Next
     /\ UNCHANGED <<part, spinVars, sleepVars, pipeVars, clockVars, diskVars>>
  \/ /\ part = "clock" /\ Clock!Next
     /\ UNCHANGED <<part, spinVars, sleepVars, pipeVars, consVars, diskVars>>
  \/ /\ part = "disk" /\ Disk!Next
     /\ UNCHANGED <<part, spinVars, sleepVars, pipeVars, consVars, clockVars>>

Spec == Init /\ [][Next]_vars

(* What a process does of itself; where it spins on a spinlock, that it    *)
(* does not lose every race for it; and what it waits for: a lock holder   *)
(* that gives the lock back, a peer that closes its end of the pipe (exit  *)
(* does), someone who types lines, a clock that ticks, a disk that         *)
(* finishes its requests and a process that releases its buffer.           *)
Goes(p) ==
  \/ part = "sleep" /\ p \in Contenders /\ Sleep!Step(p)
  \/ part = "pipe" /\ p \in Pipers /\ Pipe!Sleeps(p)
  \/ part = "console" /\ p \in Typists /\ Cons!consoleread_sleep(p)
  \/ part = "clock" /\ p \in Nappers /\ Clock!sys_sleep_sleep(p)
  \/ part = "disk" /\ p \in Users
     /\ (Disk!iderw(p) \/ Disk!iderw_loop(p) \/ Disk!brelse_unref(p))

Spins(p) ==
  \/ part = "sleep" /\ p \in Contenders /\ Sleep!Spin(p)
  \/ part = "pipe" /\ p \in Pipers /\ Pipe!Calls(p)
  \/ part = "console" /\ p \in Typists
     /\ (Cons!consoleread_wait(p) \/ Cons!consoleread_copy(p))
  \/ part = "clock" /\ p \in Nappers /\ Clock!sys_sleep_loop(p)
  \/ part = "disk" /\ p \in Users /\ Disk!bread(p)

Event(p) ==
  \/ part = "pipe" /\ p \in Pipers /\ \E end \in BOOLEAN : Pipe!pipeclose(p, end)
  \/ part = "console" /\ p \in Typists /\ Cons!store("nl")
  \/ part = "clock" /\ p \in Nappers /\ Clock!tick
  \/ part = "disk" /\ p \in Users /\ Disk!brelse(p)

Transfer == part = "disk" /\ \E b \in 1..NBUF : Disk!ideintr(b, 1)

moving == <<sleepVars, pipeVars, consVars, clockVars, diskVars>>

Everybody == Contenders \cup Pipers \cup Typists \cup Nappers \cup Users

Others ==
  /\ part # "sleep" => UNCHANGED sleepVars
  /\ part # "pipe" => UNCHANGED pipeVars
  /\ part # "console" => UNCHANGED consVars
  /\ part # "clock" => UNCHANGED clockVars
  /\ part # "disk" => UNCHANGED diskVars

LiveSpec ==
  /\ Spec
  /\ WF_moving(Transfer /\ Others)
  /\ \A p \in Everybody : /\ WF_moving(Goes(p) /\ Others)
                           /\ SF_moving(Spins(p) /\ Others)
                           /\ SF_moving(Event(p) /\ Others)

-----------------------------------------------------------------------------
(* Whoever waits gets what they wait for: a sleeper on a sleep-lock is     *)
(* woken and a wanted sleep-lock taken (acquiresleep, releasesleep), reads *)
(* and writes of a pipe return (piperead, pipewrite), a read of the        *)
(* console returns while lines are typed (consoleread), a process killed   *)
(* in sys_sleep leaves it, and the disk's queue is worked off (iderw).     *)
EveryWaitEnds ==
  /\ Sleep!SleeperWoken /\ Sleep!SomeoneEnters
  /\ Pipe!CallsEnd
  /\ Cons!ReadsEnd
  /\ Clock!KilledLeaves
  /\ Disk!RequestsEnd
=============================================================================
