------------------------------- MODULE Bcache -------------------------------
(***************************************************************************)
(* The buffer cache (bio.c) on top of the disk driver (ide.c): processes   *)
(* get buffers, read, change, write and release them, while the disk works *)
(* through its queue and interrupts.                                       *)
(*                                                                         *)
(* A critical section of bcache.lock or idelock is one step (module        *)
(* SpinLock), and a buffer's sleep-lock is a mutex (module SleepLock).     *)
(*                                                                         *)
(* A member of Procs has one buffer at a time: a process that has two, as  *)
(* in install_trans, write_log and bmap, acts as two of them.              *)
(***************************************************************************)
EXTENDS Integers, Sequences, FiniteSets

CONSTANTS Procs,
          Blocks,      \* block numbers in use
          NBUF,
          Values,      \* what a block may contain
          MaxPinned,   \* bound: buffers that log_write keeps dirty
          DiskErrors   \* 1: a read of the disk may fail

ASSUME SizeAssumption == NBUF \in Nat \ {0} /\ MaxPinned \in Nat
ASSUME NameAssumption == 0 \notin Procs /\ 0 \notin Blocks /\ 0 \in Values
ASSUME ProcsAssumption == IsFiniteSet(Procs)

Bufs == 1..NBUF

VARIABLES
  blockno, valid, dirty, refcnt, data,   \* struct buf
  lock,       \* owner of the buffer's sleep-lock, 0 for none
  lru,        \* the list from head.next to head.prev
  idequeue,
  disk,       \* the contents of the disk
  sent,       \* the data of the write command the disk is working on
  pc, blk, bp,   \* a process: where it is, the block it wants, its buffer
  latest      \* what was last stored in the block through its buffer

bufs == <<blockno, valid, dirty, refcnt, data>>
procs == <<pc, blk, bp>>
vars == <<bufs, lock, lru, idequeue, disk, sent, procs, latest>>

-----------------------------------------------------------------------------

(* binit and ideinit *)
Init ==
  /\ blockno = [b \in Bufs |-> 0]
  /\ valid = [b \in Bufs |-> 0]
  /\ dirty = [b \in Bufs |-> 0]
  /\ refcnt = [b \in Bufs |-> 0]
  /\ data = [b \in Bufs |-> 0]
  /\ lock = [b \in Bufs |-> 0]
  /\ lru = [i \in 1..NBUF |-> NBUF + 1 - i]
  /\ idequeue = <<>>
  /\ disk = [k \in Blocks |-> 0]
  /\ sent = 0
  /\ pc = [p \in Procs |-> "idle"]
  /\ blk = [p \in Procs |-> 0]
  /\ bp = [p \in Procs |-> 0]
  /\ latest = disk

(* What the code calls panic for: no buffer left (bget), and a buffer that  *)
(* is not locked or needs no transfer (bwrite, brelse, iderw).             *)
NoBuffers == \E p \in Procs : pc[p] = "panic"

Misused ==
  \E p \in Procs :
    \/ pc[p] \in {"use", "iderw"} /\ lock[bp[p]] # p
    \/ pc[p] = "iderw" /\ valid[bp[p]] = 1 /\ dirty[bp[p]] = 0

Panicked == NoBuffers \/ Misused

(* Process p is at l, and no panic has stopped the machine. *)
at(p, l) == pc[p] = l /\ ~Panicked
goto(p, l) == pc' = [pc EXCEPT ![p] = l]

Cached(k) == {b \in Bufs : blockno[b] = k}

mutant_Recyclable_pinned(b) == refcnt[b] = 0

Recyclable(b) == refcnt[b] = 0 /\ dirty[b] = 0

(* bget up to acquiresleep: the block is cached ... *)
bget_cached(p, k) ==
  /\ at(p, "idle")
  /\ \E b \in Cached(k) :
       /\ refcnt' = [refcnt EXCEPT ![b] = @ + 1]
       /\ bp' = [bp EXCEPT ![p] = b]
  /\ blk' = [blk EXCEPT ![p] = k]
  /\ goto(p, "lock")
  /\ UNCHANGED <<blockno, valid, dirty, data, lock, lru, idequeue, disk, sent, latest>>

(* ... or the last recyclable buffer of the list takes it, or panic. *)
bget_recycle(p, k) ==
  /\ at(p, "idle") /\ Cached(k) = {}
  /\ blk' = [blk EXCEPT ![p] = k]
  /\ IF \A b \in Bufs : ~Recyclable(b)
       THEN goto(p, "panic") /\ UNCHANGED <<bufs, bp>>
       ELSE \E i \in 1..NBUF :
              LET b == lru[i] IN
              /\ Recyclable(b) /\ \A j \in i+1..NBUF : ~Recyclable(lru[j])
              /\ blockno' = [blockno EXCEPT ![b] = k]
              /\ valid' = [valid EXCEPT ![b] = 0]
              /\ dirty' = [dirty EXCEPT ![b] = 0]
              /\ refcnt' = [refcnt EXCEPT ![b] = 1]
              /\ bp' = [bp EXCEPT ![p] = b]
              /\ goto(p, "lock")
              /\ UNCHANGED data
  /\ UNCHANGED <<lock, lru, idequeue, disk, sent, latest>>

mutant_bread_ignores_lock(p) ==
  /\ at(p, "lock")
  /\ lock' = [lock EXCEPT ![bp[p]] = p]
  /\ goto(p, IF valid[bp[p]] = 1 THEN "use" ELSE "iderw")
  /\ UNCHANGED <<bufs, lru, idequeue, disk, sent, blk, bp, latest>>

(* The end of bget, and bread's test of B_VALID. *)
bread(p) ==
  /\ at(p, "lock")
  /\ lock[bp[p]] = 0
  /\ lock' = [lock EXCEPT ![bp[p]] = p]
  /\ goto(p, IF valid[bp[p]] = 1 THEN "use" ELSE "iderw")
  /\ UNCHANGED <<bufs, lru, idequeue, disk, sent, blk, bp, latest>>

(* The caller changes the data and sets B_DIRTY with log_write. *)
log_write(p, v) ==
  /\ at(p, "use")
  /\ dirty[bp[p]] = 1 \/ Cardinality({b \in Bufs : dirty[b] = 1}) < MaxPinned
  /\ data' = [data EXCEPT ![bp[p]] = v]
  /\ dirty' = [dirty EXCEPT ![bp[p]] = 1]
  /\ latest' = [latest EXCEPT ![blk[p]] = v]
  /\ UNCHANGED <<blockno, valid, refcnt, lock, lru, idequeue, disk, sent, procs>>

(* The caller changes the data, or not, and calls bwrite. *)
bwrite(p, v) ==
  /\ at(p, "use")
  /\ data' = [data EXCEPT ![bp[p]] = v]
  /\ dirty' = [dirty EXCEPT ![bp[p]] = 1]
  /\ latest' = [latest EXCEPT ![blk[p]] = v]
  /\ goto(p, "iderw")
  /\ UNCHANGED <<blockno, valid, refcnt, lock, lru, idequeue, disk, sent, blk, bp>>

(* idestart sends the data with a write command. *)
idestart(q) == sent' = IF q # <<>> /\ dirty'[Head(q)] = 1 THEN data'[Head(q)] ELSE 0

(* iderw: append to the queue, start the disk if it was idle, sleep. *)
iderw(p) ==
  /\ at(p, "iderw")
  /\ idequeue' = Append(idequeue, bp[p])
  /\ UNCHANGED bufs
  /\ IF idequeue = <<>> THEN idestart(idequeue') ELSE UNCHANGED sent
  /\ goto(p, "asleep")
  /\ UNCHANGED <<lock, lru, disk, blk, bp, latest>>

(* Woken up: the loop tests the flags again. *)
iderw_loop(p) ==
  /\ at(p, "woken")
  /\ goto(p, IF valid[bp[p]] = 1 /\ dirty[bp[p]] = 0 THEN "use" ELSE "asleep")
  /\ UNCHANGED <<bufs, lock, lru, idequeue, disk, sent, blk, bp, latest>>

(* The disk has finished the request at the head of the queue and          *)
(* interrupts.  ok = 0 when a read failed: idewait(1) returns -1.          *)
ideintr(b, ok) ==
  /\ ~Panicked /\ idequeue # <<>> /\ b = Head(idequeue)
  /\ idequeue' = Tail(idequeue)
  /\ IF dirty[b] = 1
       THEN disk' = [disk EXCEPT ![blockno[b]] = sent] /\ UNCHANGED data
       ELSE /\ data' = [data EXCEPT ![b] = IF ok = 1 THEN disk[blockno[b]] ELSE @]
            /\ UNCHANGED disk
  /\ valid' = [valid EXCEPT ![b] = 1]
  /\ dirty' = [dirty EXCEPT ![b] = 0]
  /\ UNCHANGED <<blockno, refcnt>>
  /\ pc' = [p \in Procs |-> IF pc[p] = "asleep" /\ bp[p] = b THEN "woken" ELSE pc[p]]
  /\ idestart(idequeue')
  /\ UNCHANGED <<lock, lru, blk, bp, latest>>

(* brelse up to its acquire of bcache.lock ... *)
brelse(p) ==
  /\ at(p, "use")
  /\ lock' = [lock EXCEPT ![bp[p]] = 0]
  /\ goto(p, "brelse")
  /\ UNCHANGED <<bufs, lru, idequeue, disk, sent, blk, bp, latest>>

(* The list with its i-th buffer in front. *)
ToFront(i) ==
  [j \in 1..NBUF |-> IF j = 1 THEN lru[i] ELSE IF j <= i THEN lru[j-1] ELSE lru[j]]

mutant_brelse_unref_forgets_waiters(p) ==
  /\ at(p, "brelse")
  /\ refcnt' = [refcnt EXCEPT ![bp[p]] = 0]
  /\ \E i \in 1..NBUF : lru[i] = bp[p] /\ lru' = ToFront(i)
  /\ pc' = [pc EXCEPT ![p] = "idle"]
  /\ blk' = [blk EXCEPT ![p] = 0]
  /\ bp' = [bp EXCEPT ![p] = 0]
  /\ UNCHANGED <<blockno, valid, dirty, data, lock, idequeue, disk, sent, latest>>

(* ... and after it: if nobody waits for it, it becomes the most recently *)
(* used buffer.                                                            *)
brelse_unref(p) ==
  /\ at(p, "brelse")
  /\ refcnt' = [refcnt EXCEPT ![bp[p]] = @ - 1]
  /\ \E i \in 1..NBUF :
       /\ lru[i] = bp[p]
       /\ lru' = IF refcnt'[bp[p]] = 0 THEN ToFront(i) ELSE lru
  /\ goto(p, "idle")
  /\ blk' = [blk EXCEPT ![p] = 0]
  /\ bp' = [bp EXCEPT ![p] = 0]
  /\ UNCHANGED <<blockno, valid, dirty, data, lock, idequeue, disk, sent, latest>>

(* panic stops every processor for good. *)
panic == Panicked /\ UNCHANGED vars

Next ==
  \/ \E p \in Procs :
       \/ \E k \in Blocks : bget_cached(p, k) \/ bget_recycle(p, k)
       \/ \E v \in Values : log_write(p, v) \/ bwrite(p, v)
       \/ bread(p) \/ iderw(p) \/ iderw_loop(p) \/ brelse(p) \/ brelse_unref(p)
  \/ \E b \in Bufs, ok \in {1, 1 - DiskErrors} : ideintr(b, ok)
  \/ panic

Spec == Init /\ [][Next]_vars

-----------------------------------------------------------------------------

TypeOK ==
  /\ blockno \in [Bufs -> Blocks \cup {0}]
  /\ valid \in [Bufs -> {0, 1}] /\ dirty \in [Bufs -> {0, 1}]
  /\ refcnt \in [Bufs -> 0..Cardinality(Procs)]
  /\ data \in [Bufs -> Values]
  /\ lock \in [Bufs -> Procs \cup {0}]
  /\ lru \in [1..NBUF -> Bufs] /\ \A b \in Bufs : \E i \in 1..NBUF : lru[i] = b
  /\ idequeue \in Seq(Bufs)
  /\ \A i, j \in 1..Len(idequeue) : idequeue[i] = idequeue[j] => i = j
  /\ disk \in [Blocks -> Values] /\ latest \in [Blocks -> Values]
  /\ sent \in Values
  /\ pc \in [Procs -> {"idle", "lock", "iderw", "asleep", "woken", "use", "brelse", "panic"}]
  /\ blk \in [Procs -> Blocks \cup {0}]
  /\ bp \in [Procs -> Bufs \cup {0}]

(* At most one buffer holds a copy of a block, although bget looks for the *)
(* block and recycles a buffer for it in two passes over the list ("a      *)
(* synchronization point for disk blocks", bio.c:6).                       *)
OneCopy == \A b, d \in Bufs : blockno[b] = blockno[d] /\ blockno[b] # 0 => b = d

(* From bget to brelse, also while it sleeps on the buffer's lock or on    *)
(* the disk, a process's buffer stays the buffer of the block it asked     *)
(* for, and the reference count is the number of such processes.           *)
BufferStays ==
  /\ \A p \in Procs : bp[p] # 0 => blockno[bp[p]] = blk[p]
  /\ \A b \in Bufs : refcnt[b] = Cardinality({p \in Procs : bp[p] = b})

(* Whoever uses a buffer is alone with it and sees what was stored in the  *)
(* block last, by whichever process, through whichever buffer, written to  *)
(* disk or only pinned.                                                    *)
Coherent ==
  \A p \in Procs : pc[p] = "use" =>
    /\ data[bp[p]] = latest[blk[p]]
    /\ \A q \in Procs : q # p /\ bp[q] = bp[p] => pc[q] \in {"lock", "brelse"}

(* A valid buffer that is not dirty holds what is on the disk.  "B_VALID:  *)
(* the buffer data has been read from the disk" (bio.c:17).                *)
ValidWasRead == \A b \in Bufs : valid[b] = 1 /\ dirty[b] = 0 => data[b] = disk[blockno[b]]

(* Moreover what is not in the cache is on the disk: recycling a buffer    *)
(* loses nothing, pinned blocks included.                                  *)
RecyclingLosesNothing ==
  ValidWasRead /\ \A k \in Blocks : Cached(k) = {} => disk[k] = latest[k]

(* "bget: no buffers" (bio.c:129) stops the machine only when the buffers   *)
(* the log keeps dirty and those that processes have at that moment, one   *)
(* each, are all there are: brelse, ideintr and a process that had to wait *)
(* lose none.                                                              *)
NoBufferLost ==
  NoBuffers => NBUF <= MaxPinned + Cardinality({p \in Procs : bp[p] # 0})

(* bget: one buffer per block, which stays that block's as long as anybody *)
(* has it, although bget and brelse work in several steps; no buffer is    *)
(* lost; and nobody writes or releases a buffer without its lock or asks   *)
(* the disk for nothing, the other panics (bio.c:81-192, ide.c:167-172).   *)
BuffersSound == TypeOK /\ OneCopy /\ BufferStays /\ NoBufferLost /\ ~Misused

(* bread and bwrite return: the disk works through its queue and wakes the *)
(* process up, and the buffer's lock comes free.                           *)
RequestsEnd == \A p \in Procs : pc[p] \in {"lock", "iderw", "asleep"} ~> pc[p] = "use"
=============================================================================
