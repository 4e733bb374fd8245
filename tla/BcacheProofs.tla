---------------------------- MODULE BcacheProofs ----------------------------
(***************************************************************************)
(* Proofs about module Bcache, for any finite set of processes, any blocks *)
(* and any number of buffers.                                              *)
(*                                                                         *)
(* OneCopy and BufferStays follow from an inductive invariant about the    *)
(* buffers, BufInv, which says who has a buffer's lock (LockInv), in which *)
(* order its flags change (FlagInv) and that the queue of the disk is that *)
(* of the processes that sleep on it (QueueInv).  Coherent and             *)
(* RecyclingLosesNothing follow from that and DataInv, which relates the   *)
(* buffers, the disk and what was stored last; it needs a disk whose reads *)
(* do not fail.  NoBufferLost follows from PinInv, which counts the        *)
(* buffers the log keeps dirty.                                            *)
(***************************************************************************)
EXTENDS Bcache, FiniteSetTheorems, TLAPS

(* The types of everything but the two lists. *)
Typed ==
  /\ blockno \in [Bufs -> Blocks \cup {0}]
  /\ valid \in [Bufs -> {0, 1}] /\ dirty \in [Bufs -> {0, 1}]
  /\ refcnt \in [Bufs -> Nat]
  /\ data \in [Bufs -> Values]
  /\ lock \in [Bufs -> Procs \cup {0}]
  /\ disk \in [Blocks -> Values] /\ latest \in [Blocks -> Values]
  /\ sent \in Values
  /\ pc \in [Procs -> {"idle", "lock", "iderw", "asleep", "woken", "use", "brelse", "panic"}]
  /\ blk \in [Procs -> Blocks \cup {0}]
  /\ bp \in [Procs -> Bufs \cup {0}]

(* Every buffer is on the list. *)
ListInv == lru \in [1..NBUF -> Bufs] /\ \A b \in Bufs : \E i \in 1..NBUF : lru[i] = b

(* A process has a buffer from bget to brelse, and its lock from bread to  *)
(* brelse.                                                                 *)
LockInv ==
  /\ \A p \in Procs : bp[p] = 0 <=> pc[p] \in {"idle", "panic"}
  /\ \A p \in Procs : bp[p] # 0 => blk[p] # 0 /\ blockno[bp[p]] = blk[p]
  /\ \A p \in Procs, b \in Bufs :
       lock[b] = p <=> bp[p] = b /\ pc[p] \in {"iderw", "asleep", "woken", "use"}

(* The processes that have the buffer. *)
Users(b) == {p \in Procs : bp[p] = b}
RefInv == \A b \in Bufs : refcnt[b] = Cardinality(Users(b))

(* A request is for something: a buffer is queued with B_VALID clear or    *)
(* B_DIRTY set, and is valid and clean when its process is woken.          *)
FlagInv ==
  /\ \A b \in Bufs : dirty[b] = 1 => valid[b] = 1
  /\ \A b \in Bufs : valid[b] = 1 => blockno[b] # 0
  /\ \A p \in Procs :
       /\ pc[p] \in {"iderw", "asleep"} => valid[bp[p]] = 0 \/ dirty[bp[p]] = 1
       /\ pc[p] = "woken" => valid[bp[p]] = 1 /\ dirty[bp[p]] = 0
       /\ pc[p] = "use" => valid[bp[p]] = 1

(* The queue holds the buffers of the processes that sleep on the disk,    *)
(* each once, and the disk was sent the data of the first.                 *)
QueueInv ==
  /\ idequeue \in Seq(Bufs)
  /\ \A i, j \in 1..Len(idequeue) : idequeue[i] = idequeue[j] => i = j
  /\ \A i \in 1..Len(idequeue) : LET p == lock[idequeue[i]] IN p # 0 /\ pc[p] = "asleep"
  /\ \A p \in Procs : pc[p] = "asleep" => \E i \in 1..Len(idequeue) : idequeue[i] = bp[p]
  /\ idequeue # <<>> =>
       sent = IF dirty[idequeue[1]] = 1 THEN data[idequeue[1]] ELSE 0

BufInv == Typed /\ ListInv /\ LockInv /\ OneCopy /\ RefInv /\ FlagInv /\ QueueInv

(* What a block's last store left: in its buffer if that is valid, and on  *)
(* the disk if there is no buffer, or one that is not valid or not dirty.  *)
DataInv ==
  /\ \A b \in Bufs : valid[b] = 1 => data[b] = latest[blockno[b]]
  /\ \A b \in Bufs : blockno[b] # 0 /\ dirty[b] = 0 => disk[blockno[b]] = latest[blockno[b]]
  /\ \A k \in Blocks : Cached(k) = {} => disk[k] = latest[k]

(* The buffers that are kept dirty by log_write, and not on their way to   *)
(* the disk.                                                               *)
Pinned ==
  {b \in Bufs : dirty[b] = 1 /\ \A p \in Procs : bp[p] = b => pc[p] \notin {"iderw", "asleep"}}
PinInv ==
  /\ Cardinality(Pinned) <= MaxPinned
  /\ NoBuffers => \A b \in Bufs : ~Recyclable(b)

-----------------------------------------------------------------------------

(* The buffers are treated as names. *)
LEMMA BufFacts == 0 \notin Bufs
BY DEF Bufs

(* A buffer nobody refers to is nobody's. *)
LEMMA NoUsers ==
  ASSUME RefInv, NEW b \in Bufs, refcnt[b] = 0, NEW p \in Procs
  PROVE  bp[p] # b
<1>1. IsFiniteSet(Users(b))
  BY Zenon, ProcsAssumption, FS_Subset DEF Users
<1>2. Users(b) = {}
  BY Zenon, <1>1, FS_EmptySet DEF RefInv
<1>3. QED
  BY Zenon, <1>2 DEF Users

(* One more process takes a reference, ... *)
LEMMA TakesRef ==
  ASSUME RefInv, NEW p \in Procs, NEW b \in Bufs, bp[p] = 0,
         bp' = [bp EXCEPT ![p] = b], bp \in [Procs -> Bufs \cup {0}]
  PROVE  /\ Cardinality(Users(b)') = Cardinality(Users(b)) + 1
         /\ \A d \in Bufs \ {b} : Users(d)' = Users(d)
<1>1. Users(b)' = Users(b) \cup {p} /\ p \notin Users(b)
  BY Zenon, BufFacts DEF Users
<1>2. IsFiniteSet(Users(b))
  BY Zenon, ProcsAssumption, FS_Subset DEF Users
<1>3. \A d \in Bufs \ {b} : Users(d)' = Users(d)
  BY Zenon, BufFacts DEF Users
<1>4. QED
  BY Zenon, <1>1, <1>2, <1>3, FS_AddElement

(* ... and gives it back. *)
LEMMA DropsRef ==
  ASSUME RefInv, NEW p \in Procs, NEW b \in Bufs, bp[p] = b,
         bp' = [bp EXCEPT ![p] = 0], bp \in [Procs -> Bufs \cup {0}]
  PROVE  /\ Cardinality(Users(b)') = Cardinality(Users(b)) - 1
         /\ Cardinality(Users(b)) \in Nat \ {0}
         /\ \A d \in Bufs \ {b} : Users(d)' = Users(d)
<1>1. Users(b)' = Users(b) \ {p} /\ p \in Users(b)
  BY Zenon, BufFacts DEF Users
<1>2. IsFiniteSet(Users(b))
  BY Zenon, ProcsAssumption, FS_Subset DEF Users
<1>3. \A d \in Bufs \ {b} : Users(d)' = Users(d)
  BY Zenon, BufFacts DEF Users
<1>4. Cardinality(Users(b)) \in Nat /\ (Cardinality(Users(b)) = 0 <=> Users(b) = {})
  BY Zenon, <1>2, FS_CardinalityType, FS_EmptySet
<1>5. Cardinality(Users(b)') = Cardinality(Users(b)) - 1
  BY Zenon, <1>1, <1>2, FS_RemoveElement
<1>6. QED
  BY Zenon, <1>1, <1>3, <1>4, <1>5

(* The queue after ideintr removes its first request. *)
LEMMA TailFacts ==
  ASSUME NEW S, NEW q \in Seq(S), q # <<>>
  PROVE  /\ Len(q) \in Nat \ {0} /\ Head(q) = q[1] /\ q[1] \in S
         /\ Tail(q) \in Seq(S) /\ Len(Tail(q)) = Len(q) - 1
         /\ \A i \in 1..Len(q)-1 : Tail(q)[i] = q[i+1]
OBVIOUS

(* The queue after iderw appends a request (ide.c, iderw). *)
LEMMA AppendFacts ==
  ASSUME NEW S, NEW q \in Seq(S), NEW x \in S
  PROVE  /\ Len(q) \in Nat
         /\ Append(q, x) \in Seq(S) /\ Len(Append(q, x)) = Len(q) + 1
         /\ \A i \in 1..Len(q) : Append(q, x)[i] = q[i]
         /\ Append(q, x)[Len(q) + 1] = x
OBVIOUS

USE NameAssumption, BufFacts
USE DEF at, goto, bufs, procs

-----------------------------------------------------------------------------
(* One lemma for each action: it keeps the invariant of the buffers. *)

(* bget finds the block in a buffer. *)
LEMMA bget_cached_step ==
  ASSUME BufInv, NEW p \in Procs, NEW k \in Blocks, bget_cached(p, k)
  PROVE  BufInv'
<1> Typed /\ ListInv /\ LockInv /\ OneCopy /\ RefInv /\ FlagInv /\ QueueInv
  BY Zenon DEF BufInv
<1>1. ASSUME NEW b \in Bufs,
            blockno[b] = k,
            at(p, "idle"),
            refcnt' = [refcnt EXCEPT ![b] = @ + 1],
            bp' = [bp EXCEPT ![p] = b],
            blk' = [blk EXCEPT ![p] = k],
            goto(p, "lock"),
            UNCHANGED <<blockno, valid, dirty, data, lock, lru, idequeue, disk, sent, latest>>
     PROVE  BufInv'
  <2> USE <1>1
  <2>1. Typed'
    BY DEF Typed
  <2>2. ListInv' /\ OneCopy'
    BY Zenon DEF ListInv, OneCopy
  <2>3. LockInv'
    BY DEF Typed, LockInv
  <2>4. RefInv'
    <3>1. bp[p] = 0
      BY Zenon DEF LockInv
    <3>2. /\ Cardinality(Users(b)') = Cardinality(Users(b)) + 1
          /\ \A d \in Bufs \ {b} : Users(d)' = Users(d)
      BY Zenon, <3>1, TakesRef DEF Typed
    <3>3. QED
      BY Zenon, <3>2 DEF Typed, RefInv
  <2>5. FlagInv'
    BY DEF Typed, LockInv, FlagInv
  <2>6. QueueInv'
    BY DEF Typed, LockInv, QueueInv
  <2>7. QED
    BY Zenon, <2>1, <2>2, <2>3, <2>4, <2>5, <2>6 DEF BufInv
<1>2. QED
  BY <1>1, Zenon DEF bget_cached, Cached

(* bget recycles a buffer, or panics. *)
LEMMA bget_recycle_step ==
  ASSUME BufInv, NEW p \in Procs, NEW k \in Blocks, bget_recycle(p, k)
  PROVE  BufInv'
<1> Typed /\ ListInv /\ LockInv /\ OneCopy /\ RefInv /\ FlagInv /\ QueueInv
  BY Zenon DEF BufInv
<1>1. ASSUME at(p, "idle"),
            blk' = [blk EXCEPT ![p] = k],
            goto(p, "panic"),
            UNCHANGED <<bufs, bp, lock, lru, idequeue, disk, sent, latest>>
     PROVE  BufInv'
  <2> USE <1>1
  <2>1. Typed'
    BY Zenon DEF Typed
  <2>2. ListInv' /\ OneCopy' /\ RefInv'
    BY Zenon DEF ListInv, OneCopy, RefInv, Users
  <2>3. LockInv'
    BY DEF Typed, LockInv
  <2>4. FlagInv'
    BY DEF Typed, LockInv, FlagInv
  <2>5. QueueInv'
    BY DEF Typed, LockInv, QueueInv
  <2>6. QED
    BY Zenon, <2>1, <2>2, <2>3, <2>4, <2>5 DEF BufInv
<1>2. ASSUME NEW b \in Bufs,
            at(p, "idle"),
            refcnt[b] = 0,
            dirty[b] = 0,
            \A d \in Bufs : blockno[d] # k,
            blockno' = [blockno EXCEPT ![b] = k],
            valid' = [valid EXCEPT ![b] = 0],
            dirty' = [dirty EXCEPT ![b] = 0],
            refcnt' = [refcnt EXCEPT ![b] = 1],
            bp' = [bp EXCEPT ![p] = b],
            blk' = [blk EXCEPT ![p] = k],
            goto(p, "lock"),
            UNCHANGED <<data, lock, lru, idequeue, disk, sent, latest>>
     PROVE  BufInv'
  <2> USE <1>2
  <2>1. Typed'
    BY Zenon DEF Typed
  <2>2. ListInv'
    BY Zenon DEF ListInv
  <2>3. LockInv'
    BY NoUsers DEF Typed, LockInv
  <2>4. OneCopy'
    BY Zenon DEF Typed, OneCopy
  <2>5. RefInv'
    <3>1. bp[p] = 0
      BY Zenon DEF LockInv
    <3>2. /\ Cardinality(Users(b)') = Cardinality(Users(b)) + 1
          /\ \A d \in Bufs \ {b} : Users(d)' = Users(d)
      BY Zenon, <3>1, TakesRef DEF Typed
    <3>3. QED
      BY <3>2 DEF Typed, RefInv
  <2>6. FlagInv'
    BY NoUsers DEF Typed, LockInv, FlagInv
  <2>7. QueueInv'
    <3>1. lock[b] = 0
      BY NoUsers DEF Typed, LockInv
    <3>2. \A i \in 1..Len(idequeue) : idequeue[i] # b
      BY <3>1 DEF QueueInv
    <3>3. (\A i \in 1..Len(idequeue) : LET q == lock[idequeue[i]] IN q # 0 /\ pc[q] = "asleep")'
      BY DEF Typed, QueueInv
    <3>4. (\A q \in Procs : pc[q] = "asleep" =>
             \E i \in 1..Len(idequeue) : idequeue[i] = bp[q])'
      BY Zenon DEF Typed, QueueInv
    <3>5. (idequeue # <<>> => sent = IF dirty[idequeue[1]] = 1 THEN data[idequeue[1]] ELSE 0)'
      BY <3>2, TailFacts DEF Typed, QueueInv
    <3>6. QED
      BY <3>3, <3>4, <3>5 DEF QueueInv
  <2>8. QED
    BY Zenon, <2>1, <2>2, <2>3, <2>4, <2>5, <2>6, <2>7 DEF BufInv
<1>3. QED
  BY <1>1, <1>2, Zenon DEF bget_recycle, Cached, Recyclable, ListInv

(* The end of bget, and bread's test of B_VALID. *)
LEMMA bread_step ==
  ASSUME BufInv, NEW p \in Procs, bread(p)
  PROVE  BufInv'
<1> Typed /\ ListInv /\ LockInv /\ OneCopy /\ RefInv /\ FlagInv /\ QueueInv
  BY Zenon DEF BufInv
<1> USE DEF bread
<1>1. Typed'
  BY Zenon DEF Typed
<1>2. ListInv' /\ OneCopy' /\ RefInv'
  BY DEF ListInv, OneCopy, RefInv, Users
<1>3. LockInv'
  BY DEF Typed, LockInv
<1>4. FlagInv'
  BY DEF Typed, LockInv, FlagInv
<1>5. QueueInv'
  BY DEF Typed, LockInv, QueueInv
<1>6. QED
  BY Zenon, <1>1, <1>2, <1>3, <1>4, <1>5 DEF BufInv

(* The caller stores in the buffer and pins it. *)
LEMMA log_write_step ==
  ASSUME BufInv, NEW p \in Procs, NEW v \in Values, log_write(p, v)
  PROVE  BufInv'
<1> Typed /\ ListInv /\ LockInv /\ OneCopy /\ RefInv /\ FlagInv /\ QueueInv
  BY Zenon DEF BufInv
<1> USE DEF log_write
<1>1. Typed'
  BY Zenon DEF Typed
<1>2. ListInv' /\ LockInv' /\ OneCopy' /\ RefInv'
  BY DEF ListInv, LockInv, OneCopy, RefInv, Users
<1>3. FlagInv'
  BY DEF Typed, LockInv, FlagInv
<1>4. QueueInv'
  BY DEF Typed, LockInv, QueueInv
<1>5. QED
  BY Zenon, <1>1, <1>2, <1>3, <1>4 DEF BufInv

(* The caller stores in the buffer and writes it. *)
LEMMA bwrite_step ==
  ASSUME BufInv, NEW p \in Procs, NEW v \in Values, bwrite(p, v)
  PROVE  BufInv'
<1> Typed /\ ListInv /\ LockInv /\ OneCopy /\ RefInv /\ FlagInv /\ QueueInv
  BY Zenon DEF BufInv
<1> USE DEF bwrite
<1>1. Typed'
  BY Zenon DEF Typed
<1>2. ListInv' /\ OneCopy' /\ RefInv'
  BY Zenon DEF ListInv, OneCopy, RefInv, Users
<1>3. LockInv'
  BY DEF Typed, LockInv
<1>4. FlagInv'
  BY DEF Typed, LockInv, FlagInv
<1>5. QueueInv'
  BY DEF Typed, LockInv, QueueInv
<1>6. QED
  BY Zenon, <1>1, <1>2, <1>3, <1>4, <1>5 DEF BufInv

(* The request is queued, and the disk is started if it was idle. *)
LEMMA iderw_step ==
  ASSUME BufInv, NEW p \in Procs, iderw(p)
  PROVE  BufInv'
<1> Typed /\ ListInv /\ LockInv /\ OneCopy /\ RefInv /\ FlagInv /\ QueueInv
  BY Zenon DEF BufInv
<1>0. bp[p] \in Bufs /\ lock[bp[p]] = p
  <2>1. pc[p] = "iderw"
    BY Zenon DEF iderw
  <2>2. bp[p] \in Bufs
    BY <2>1 DEF Typed, LockInv
  <2>3. QED
    BY Zenon, <2>1, <2>2 DEF LockInv
<1>1. PICK b \in Bufs : bp[p] = b /\ lock[b] = p
  BY Zenon, <1>0
<1>2. /\ pc[p] = "iderw" /\ pc' = [pc EXCEPT ![p] = "asleep"]
      /\ UNCHANGED <<bufs, lock, lru, disk, blk, bp, latest>>
  BY Zenon DEF iderw
<1>3. /\ Len(idequeue) \in Nat
      /\ idequeue' \in Seq(Bufs) /\ Len(idequeue') = Len(idequeue) + 1
      /\ \A i \in 1..Len(idequeue) : idequeue'[i] = idequeue[i]
      /\ idequeue'[Len(idequeue) + 1] = b
  BY <1>1, AppendFacts DEF iderw, QueueInv
<1>4. \A i \in 1..Len(idequeue) : idequeue[i] # b
  BY <1>1, <1>2 DEF QueueInv
<1>5. sent' \in Values /\
      (sent' = IF dirty[idequeue'[1]] = 1 THEN data[idequeue'[1]] ELSE 0)
  <2>1. CASE idequeue = <<>>
    <3>1. Head(idequeue') = b /\ idequeue'[1] = b /\ idequeue' # <<>>
      BY <1>1, <1>3, <2>1 DEF iderw
    <3>2. QED
      BY <1>2, <2>1, <3>1 DEF iderw, idestart, Typed
  <2>2. CASE idequeue # <<>>
    <3>1. idequeue'[1] = idequeue[1] /\ sent' = sent
      BY <1>3, <2>2, TailFacts DEF iderw, QueueInv
    <3>2. QED
      BY Zenon, <2>2, <3>1 DEF Typed, QueueInv
  <2>3. QED
    BY Zenon, <2>1, <2>2
<1>6. Typed'
  BY Zenon, <1>2, <1>5 DEF Typed
<1>7. ListInv' /\ LockInv' /\ OneCopy' /\ RefInv' /\ FlagInv'
  BY <1>2 DEF Typed, ListInv, LockInv, OneCopy, RefInv, Users, FlagInv
<1>8. QueueInv'
  <2>1. (\A i, j \in 1..Len(idequeue) : idequeue[i] = idequeue[j] => i = j)'
    BY <1>3, <1>4 DEF QueueInv
  <2>2. (\A i \in 1..Len(idequeue) : LET q == lock[idequeue[i]] IN q # 0 /\ pc[q] = "asleep")'
    <3>1. ASSUME NEW i \in 1..Len(idequeue')
          PROVE  lock[idequeue'[i]] \in Procs /\ pc'[lock[idequeue'[i]]] = "asleep"
      <4>1. CASE i = Len(idequeue) + 1
        BY <1>1, <1>2, <1>3, <4>1 DEF Typed
      <4>2. CASE i \in 1..Len(idequeue)
        <5>1. /\ idequeue'[i] = idequeue[i] /\ lock[idequeue[i]] \in Procs
              /\ pc[lock[idequeue[i]]] = "asleep"
          BY <1>3, <4>2 DEF Typed, QueueInv
        <5>2. QED
          BY Zenon, <1>2, <5>1 DEF Typed
      <4>3. QED
        BY <1>3, <4>1, <4>2
    <3>2. QED
      BY Zenon, <1>2, <3>1
  <2>3. (\A q \in Procs : pc[q] = "asleep" =>
           \E i \in 1..Len(idequeue) : idequeue[i] = bp[q])'
    BY <1>1, <1>2, <1>3, SMTT(40) DEF Typed, QueueInv
  <2>4. QED
    BY Zenon, <1>2, <1>3, <1>5, <2>1, <2>2, <2>3 DEF QueueInv
<1>9. QED
  BY Zenon, <1>6, <1>7, <1>8 DEF BufInv

(* The process is woken, and finds its request done. *)
LEMMA iderw_loop_step ==
  ASSUME BufInv, NEW p \in Procs, iderw_loop(p)
  PROVE  BufInv'
<1> Typed /\ ListInv /\ LockInv /\ OneCopy /\ RefInv /\ FlagInv /\ QueueInv
  BY Zenon DEF BufInv
<1>1. /\ pc[p] = "woken" /\ pc' = [pc EXCEPT ![p] = "use"]
      /\ UNCHANGED <<bufs, lock, lru, idequeue, disk, sent, blk, bp, latest>>
  BY Zenon DEF iderw_loop, FlagInv
<1>2. Typed' /\ ListInv' /\ OneCopy' /\ RefInv'
  <2>1. Typed'
    BY Zenon, <1>1 DEF Typed
  <2>2. ListInv' /\ OneCopy' /\ RefInv'
    BY Zenon, <1>1 DEF ListInv, OneCopy, RefInv, Users
  <2>3. QED
    BY Zenon, <2>1, <2>2
<1>3. LockInv'
  BY <1>1 DEF Typed, LockInv
<1>4. FlagInv'
  BY Zenon, <1>1 DEF Typed, FlagInv
<1>5. QueueInv'
  BY <1>1 DEF Typed, QueueInv
<1>6. QED
  BY Zenon, <1>2, <1>3, <1>4, <1>5 DEF BufInv

(* The first request and the process that waits for it. *)
LEMMA FirstRequest ==
  ASSUME BufInv, NEW b \in Bufs, NEW ok, ideintr(b, ok)
  PROVE  /\ idequeue # <<>> /\ b = idequeue[1] /\ blockno[b] \in Blocks
         /\ valid[b] = 0 \/ dirty[b] = 1
         /\ sent = IF dirty[b] = 1 THEN data[b] ELSE 0
         /\ \E p \in Procs :
              /\ lock[b] = p /\ bp[p] = b /\ pc[p] = "asleep"
              /\ pc' = [pc EXCEPT ![p] = "woken"]
<1> Typed /\ ListInv /\ LockInv /\ OneCopy /\ RefInv /\ FlagInv /\ QueueInv
  BY Zenon DEF BufInv
<1>1. idequeue # <<>> /\ b = idequeue[1] /\ 1 \in 1..Len(idequeue)
  BY TailFacts DEF ideintr, QueueInv
<1>2. PICK p \in Procs : lock[b] = p /\ bp[p] = b /\ pc[p] = "asleep"
  BY <1>1 DEF Typed, LockInv, QueueInv
<1>3. \A q \in Procs : pc[q] = "asleep" /\ bp[q] = b => q = p
  BY <1>2 DEF LockInv
<1>4. pc' = [pc EXCEPT ![p] = "woken"]
  BY Zenon, <1>2, <1>3 DEF ideintr, Typed
<1>5. blockno[b] \in Blocks /\ (valid[b] = 0 \/ dirty[b] = 1)
  BY <1>2 DEF Typed, LockInv, FlagInv
<1>6. sent = IF dirty[b] = 1 THEN data[b] ELSE 0
  BY Zenon, <1>1 DEF QueueInv
<1>7. QED
  BY Zenon, <1>1, <1>2, <1>4, <1>5, <1>6

(* The disk finishes the first request and starts the next. *)
LEMMA ideintr_step ==
  ASSUME BufInv, NEW b \in Bufs, NEW ok, ideintr(b, ok)
  PROVE  BufInv'
<1> Typed /\ ListInv /\ LockInv /\ OneCopy /\ RefInv /\ FlagInv /\ QueueInv
  BY Zenon DEF BufInv
<1>1. /\ idequeue # <<>> /\ b = idequeue[1] /\ blockno[b] \in Blocks
      /\ valid[b] = 0 \/ dirty[b] = 1
  BY Zenon, FirstRequest
<1>2. PICK p \in Procs :
        /\ lock[b] = p /\ bp[p] = b /\ pc[p] = "asleep"
        /\ pc' = [pc EXCEPT ![p] = "woken"]
  BY Zenon, FirstRequest
<1>3. /\ Len(idequeue) \in Nat \ {0}
      /\ idequeue' \in Seq(Bufs) /\ Len(idequeue') = Len(idequeue) - 1
      /\ \A i \in 1..Len(idequeue') : i + 1 \in 1..Len(idequeue) /\ idequeue'[i] = idequeue[i+1]
  BY <1>1, TailFacts DEF ideintr, QueueInv
<1>4. idequeue' # <<>> =>
        Head(idequeue') = idequeue'[1] /\ idequeue'[1] \in Bufs /\ 1 \in 1..Len(idequeue')
  BY <1>3, TailFacts
<1>5. /\ valid' = [valid EXCEPT ![b] = 1] /\ dirty' = [dirty EXCEPT ![b] = 0]
      /\ UNCHANGED <<blockno, refcnt, lock, lru, blk, bp, latest>>
  BY Zenon DEF ideintr
<1>6. /\ data' \in [Bufs -> Values] /\ \A d \in Bufs \ {b} : data'[d] = data[d]
      /\ disk' \in [Blocks -> Values]
  <2>1. CASE dirty[b] = 1
    <3>1. data' = data /\ disk' = [disk EXCEPT ![blockno[b]] = sent]
      BY Zenon, <2>1 DEF ideintr
    <3>2. QED
      BY Zenon, <1>1, <3>1 DEF Typed
  <2>2. CASE dirty[b] # 1
    <3>1. disk[blockno[b]] \in Values /\ data[b] \in Values
      BY Zenon, <1>1 DEF Typed
    <3>2. PICK v \in Values : data' = [data EXCEPT ![b] = v] /\ disk' = disk
      BY <2>2, <3>1, Zenon DEF ideintr
    <3>3. QED
      BY Zenon, <3>2 DEF Typed
  <2>3. QED
    BY Zenon, <2>1, <2>2
<1>7. sent' \in Values /\
      (idequeue' # <<>> =>
         sent' = IF dirty'[idequeue'[1]] = 1 THEN data'[idequeue'[1]] ELSE 0)
  BY Zenon, <1>4, <1>6 DEF ideintr, idestart
<1>8. Typed'
  BY Zenon, <1>2, <1>5, <1>6, <1>7 DEF Typed
<1>9. ListInv' /\ LockInv' /\ OneCopy' /\ RefInv'
  <2>1. ListInv' /\ OneCopy' /\ RefInv'
    BY <1>5 DEF ListInv, OneCopy, RefInv, Users
  <2>2. LockInv'
    BY <1>2, <1>5 DEF Typed, LockInv
  <2>3. QED
    BY Zenon, <2>1, <2>2
<1>10. FlagInv'
  BY <1>1, <1>2, <1>5 DEF Typed, LockInv, FlagInv
<1>11. QueueInv'
  <2>1. (\A i, j \in 1..Len(idequeue) : idequeue[i] = idequeue[j] => i = j)'
    BY <1>3 DEF QueueInv
  <2>2. \A i \in 1..Len(idequeue') : idequeue'[i] # b
    BY <1>1, <1>3 DEF QueueInv
  <2>3. (\A i \in 1..Len(idequeue) : LET q == lock[idequeue[i]] IN q # 0 /\ pc[q] = "asleep")'
    <3>1. ASSUME NEW i \in 1..Len(idequeue')
          PROVE  lock[idequeue'[i]] \in Procs /\ pc'[lock[idequeue'[i]]] = "asleep"
      <4>1. /\ idequeue'[i] \in Bufs /\ lock[idequeue'[i]] \in Procs
            /\ pc[lock[idequeue'[i]]] = "asleep"
        <5>1. PICK j \in 1..Len(idequeue) : idequeue'[i] = idequeue[j]
          BY Zenon, <1>3
        <5>2. QED
          BY <5>1 DEF Typed, QueueInv
      <4>2. lock[idequeue'[i]] # p
        BY <1>2, <2>2, <4>1 DEF LockInv
      <4>3. QED
        BY Zenon, <1>2, <4>1, <4>2 DEF Typed
    <3>2. QED
      BY Zenon, <1>5, <3>1
  <2>4. ASSUME NEW q \in Procs, pc'[q] = "asleep"
        PROVE  \E i \in 1..Len(idequeue') : idequeue'[i] = bp'[q]
    <3>1. pc[q] = "asleep" /\ bp[q] # b /\ bp'[q] = bp[q]
      BY <1>2, <1>5, <2>4 DEF Typed, LockInv
    <3>2. PICK i \in 1..Len(idequeue) : idequeue[i] = bp[q]
      BY Zenon, <3>1 DEF QueueInv
    <3>3. i # 1
      BY Zenon, <1>1, <3>1, <3>2
    <3>4. i - 1 \in 1..Len(idequeue') /\ idequeue'[i - 1] = bp[q]
      BY <1>3, <3>2, <3>3
    <3>5. QED
      BY Zenon, <3>1, <3>4
  <2>5. QED
    BY Zenon, <1>3, <1>7, <2>1, <2>3, <2>4 DEF QueueInv
<1>12. QED
  BY Zenon, <1>8, <1>9, <1>10, <1>11 DEF BufInv

(* The buffer's lock is released, ... *)
LEMMA brelse_step ==
  ASSUME BufInv, NEW p \in Procs, brelse(p)
  PROVE  BufInv'
<1> Typed /\ ListInv /\ LockInv /\ OneCopy /\ RefInv /\ FlagInv /\ QueueInv
  BY Zenon DEF BufInv
<1> USE DEF brelse
<1>1. Typed'
  BY Zenon DEF Typed
<1>2. ListInv' /\ OneCopy' /\ RefInv'
  BY Zenon DEF ListInv, OneCopy, RefInv, Users
<1>3. LockInv'
  BY DEF Typed, LockInv
<1>4. FlagInv'
  BY DEF Typed, LockInv, FlagInv
<1>5. QueueInv'
  BY DEF Typed, LockInv, QueueInv
<1>6. QED
  BY Zenon, <1>1, <1>2, <1>3, <1>4, <1>5 DEF BufInv

(* ... then the reference. *)
LEMMA brelse_unref_step ==
  ASSUME BufInv, NEW p \in Procs, brelse_unref(p)
  PROVE  BufInv'
<1> Typed /\ ListInv /\ LockInv /\ OneCopy /\ RefInv /\ FlagInv /\ QueueInv
  BY Zenon DEF BufInv
<1>1. ASSUME NEW i \in 1..NBUF, NEW b \in Bufs,
            bp[p] = b,
            at(p, "brelse"),
            lru[i] = b,
            refcnt' = [refcnt EXCEPT ![b] = @ - 1],
            lru' = ToFront(i) \/ lru' = lru,
            goto(p, "idle"),
            blk' = [blk EXCEPT ![p] = 0],
            bp' = [bp EXCEPT ![p] = 0],
            UNCHANGED <<blockno, valid, dirty, data, lock, idequeue, disk, sent, latest>>
     PROVE  BufInv'
  <2> USE <1>1
  <2>1. Typed'
    <3>1. refcnt[b] - 1 \in Nat
      <4>1. Cardinality(Users(b)) \in Nat \ {0}
        BY Zenon, DropsRef DEF Typed
      <4>2. QED
        BY <4>1 DEF RefInv
    <3>2. QED
      BY Zenon, <3>1 DEF Typed
  <2>2. OneCopy'
    BY Zenon DEF OneCopy
  <2>3. ListInv'
    <3>1. CASE lru' = lru
      BY Zenon, <3>1 DEF ListInv
    <3>2. CASE lru' = ToFront(i)
      <4>1. lru' \in [1..NBUF -> Bufs]
        BY <3>2, SizeAssumption DEF ListInv, ToFront
      <4>2. ASSUME NEW c \in Bufs PROVE \E j \in 1..NBUF : lru'[j] = c
        <5>1. PICK j \in 1..NBUF : lru[j] = c
          BY Zenon DEF ListInv
        <5>2. CASE j = i
          BY <3>2, <5>1, <5>2, SizeAssumption DEF ToFront
        <5>3. CASE j < i
          <6>1. j + 1 \in 1..NBUF /\ lru'[j + 1] = c
            BY <3>2, <5>1, <5>3, SizeAssumption DEF ToFront
          <6>2. QED
            BY Zenon, <6>1
        <5>4. CASE j > i
          BY <3>2, <5>1, <5>4, SizeAssumption DEF ToFront
        <5>5. QED
          BY <5>2, <5>3, <5>4, SizeAssumption
      <4>3. QED
        BY Zenon, <4>1, <4>2 DEF ListInv
    <3>3. QED
      BY Zenon, <3>1, <3>2
  <2>4. LockInv'
    BY DEF Typed, LockInv
  <2>5. RefInv'
    <3>1. /\ Cardinality(Users(b)') = Cardinality(Users(b)) - 1
          /\ \A d \in Bufs \ {b} : Users(d)' = Users(d)
      BY Zenon, DropsRef DEF Typed
    <3>2. QED
      BY Zenon, <3>1 DEF Typed, RefInv
  <2>6. FlagInv'
    BY DEF Typed, LockInv, FlagInv
  <2>7. QueueInv'
    <3>1. ASSUME NEW j \in 1..Len(idequeue)
          PROVE  lock[idequeue[j]] # 0 /\ pc'[lock[idequeue[j]]] = "asleep"
      <4>1. /\ lock[idequeue[j]] # 0 /\ lock[idequeue[j]] \in Procs
            /\ pc[lock[idequeue[j]]] = "asleep"
        BY DEF Typed, QueueInv
      <4>2. QED
        BY Zenon, <4>1 DEF Typed
    <3>2. ASSUME NEW q \in Procs, pc'[q] = "asleep"
          PROVE  \E j \in 1..Len(idequeue) : idequeue[j] = bp'[q]
      <4>1. pc[q] = "asleep" /\ bp'[q] = bp[q]
        BY Zenon, <3>2 DEF Typed
      <4>2. QED
        BY <4>1 DEF QueueInv
    <3>3. QED
      BY <3>1, <3>2 DEF QueueInv
  <2>8. QED
    BY Zenon, <2>1, <2>2, <2>3, <2>4, <2>5, <2>6, <2>7 DEF BufInv
<1>2. bp[p] \in Bufs
  BY DEF Typed, LockInv, brelse_unref
<1>3. QED
  BY <1>1, <1>2, Zenon DEF brelse_unref

-----------------------------------------------------------------------------
(* binit leaves all buffers free and on the list. *)
LEMMA BufInit == Init => BufInv
<1> SUFFICES ASSUME Init PROVE BufInv
  BY Zenon
<1>1. Typed
  BY Zenon DEF Init, Typed
<1>2. ListInv
  <2>1. lru \in [1..NBUF -> Bufs]
    BY SizeAssumption DEF Init, Bufs
  <2>2. ASSUME NEW b \in Bufs PROVE \E i \in 1..NBUF : lru[i] = b
    <3>1. NBUF + 1 - b \in 1..NBUF /\ lru[NBUF + 1 - b] = b
      BY SizeAssumption DEF Init, Bufs
    <3>2. QED
      BY Zenon, <3>1
  <2>3. QED
    BY Zenon, <2>1, <2>2 DEF ListInv
<1>3. LockInv /\ OneCopy /\ FlagInv
  BY DEF Init, LockInv, OneCopy, FlagInv
<1>4. RefInv
  <2>1. ASSUME NEW b \in Bufs PROVE Users(b) = {} /\ refcnt[b] = 0
    BY Zenon DEF Init, Users
  <2>2. QED
    BY Zenon, <2>1, FS_EmptySet DEF RefInv
<1>5. QueueInv
  BY DEF Init, QueueInv
<1>6. QED
  BY Zenon, <1>1, <1>2, <1>3, <1>4, <1>5 DEF BufInv

(* A step that changes nothing of the cache keeps the invariant. *)
LEMMA BufUnchanged == BufInv /\ UNCHANGED vars => BufInv'
<1> SUFFICES ASSUME BufInv, UNCHANGED vars PROVE BufInv'
  BY Zenon
<1> Typed /\ ListInv /\ LockInv /\ OneCopy /\ RefInv /\ FlagInv /\ QueueInv
  BY Zenon DEF BufInv
<1> USE DEF vars
<1>1. Typed'
  BY Zenon DEF Typed
<1>2. ListInv' /\ OneCopy' /\ RefInv'
  BY DEF ListInv, OneCopy, RefInv, Users
<1>3. LockInv' /\ FlagInv'
  BY DEF LockInv, FlagInv
<1>4. QueueInv'
  BY Zenon DEF QueueInv
<1>5. QED
  BY Zenon, <1>1, <1>2, <1>3, <1>4 DEF BufInv

(* Every step of bio.c and ide.c keeps the invariant. *)
LEMMA BufStep == BufInv /\ [Next]_vars => BufInv'
<1> SUFFICES ASSUME BufInv, [Next]_vars PROVE BufInv'
  BY Zenon
<1>1. CASE UNCHANGED vars
  BY Zenon, <1>1, BufUnchanged
<1>2. ASSUME NEW p \in Procs, NEW k \in Blocks, bget_cached(p, k) \/ bget_recycle(p, k)
      PROVE  BufInv'
  BY Zenon, <1>2, bget_cached_step, bget_recycle_step
<1>3. ASSUME NEW p \in Procs, NEW v \in Values, log_write(p, v) \/ bwrite(p, v)
      PROVE  BufInv'
  BY Zenon, <1>3, log_write_step, bwrite_step
<1>4. ASSUME NEW p \in Procs, bread(p) \/ iderw(p) \/ iderw_loop(p) \/ brelse(p) \/ brelse_unref(p)
      PROVE  BufInv'
  BY Zenon, <1>4, bread_step, iderw_step, iderw_loop_step, brelse_step, brelse_unref_step
<1>5. ASSUME NEW b \in Bufs, NEW ok \in {1, 1 - DiskErrors}, ideintr(b, ok)
      PROVE  BufInv'
  BY Zenon, <1>5, ideintr_step
<1>6. QED
  BY <1>1, <1>2, <1>3, <1>4, <1>5, Zenon DEF Next, panic

(* The invariant of the buffers, for any number of processes and buffers.  *)
THEOREM BufferInvariant == Spec => []BufInv
<1>1. QED
  BY BufInit, BufStep, PTL DEF Spec

(* bget's two passes leave at most one buffer for a block (bio.c:81-130),  *)
(* whether or not the disk fails or the log pins too much.                 *)
THEOREM OneBufferPerBlock == Spec => []OneCopy
<1>1. BufInv => OneCopy
  BY Zenon DEF BufInv
<1>2. QED
  BY <1>1, BufferInvariant, PTL

(* A buffer stays its block's while a process has it, and refcnt counts    *)
(* those processes (bio.c:95, 119, 179).                                   *)
THEOREM BuffersStay == Spec => []BufferStays
<1>1. BufInv => BufferStays
  BY Zenon DEF BufInv, LockInv, RefInv, Users, BufferStays
<1>2. QED
  BY <1>1, BufferInvariant, PTL

-----------------------------------------------------------------------------
(* The contents, while the disk does not fail. *)

(* What DataInv speaks of does not change. *)
LEMMA DataUnchanged ==
  ASSUME DataInv, UNCHANGED <<blockno, valid, dirty, data, disk, latest>>
  PROVE  DataInv'
BY Zenon DEF DataInv, Cached

(* A buffer without users is recycled only if the disk has its data. *)
LEMMA RecycleData ==
  ASSUME BufInv, DataInv, NEW b \in Bufs, NEW k \in Blocks,
         Cached(k) = {}, dirty[b] = 0,
         blockno' = [blockno EXCEPT ![b] = k], valid' = [valid EXCEPT ![b] = 0],
         dirty' = [dirty EXCEPT ![b] = 0], UNCHANGED <<data, disk, latest>>
  PROVE  DataInv'
<1> Typed
  BY Zenon DEF BufInv
<1>1. (\A d \in Bufs : valid[d] = 1 => data[d] = latest[blockno[d]])'
  BY DEF Typed, DataInv
<1>2. (\A d \in Bufs : blockno[d] # 0 /\ dirty[d] = 0 => disk[blockno[d]] = latest[blockno[d]])'
  BY Zenon DEF Typed, DataInv
<1>3. ASSUME NEW m \in Blocks, Cached(m)' = {} PROVE disk'[m] = latest'[m]
  <2>1. \A d \in Bufs \ {b} : blockno[d] # m
    BY Zenon, <1>3 DEF Typed, Cached
  <2>2. CASE blockno[b] = m
    BY Zenon, <2>2 DEF Typed, DataInv
  <2>3. CASE blockno[b] # m
    <3>1. Cached(m) = {}
      BY Zenon, <2>1, <2>3 DEF Cached
    <3>2. QED
      BY Zenon, <3>1 DEF DataInv
  <2>4. QED
    BY Zenon, <2>2, <2>3
<1>4. QED
  BY Zenon, <1>1, <1>2, <1>3 DEF DataInv

(* A store makes the buffer dirty, the only one of its block. *)
LEMMA StoreData ==
  ASSUME BufInv, DataInv, NEW p \in Procs, NEW v \in Values, pc[p] = "use",
         data' = [data EXCEPT ![bp[p]] = v], dirty' = [dirty EXCEPT ![bp[p]] = 1],
         latest' = [latest EXCEPT ![blk[p]] = v], UNCHANGED <<blockno, valid, disk>>
  PROVE  DataInv'
<1> Typed
  BY Zenon DEF BufInv
<1>1. PICK b \in Bufs : b = bp[p] /\ blockno[b] = blk[p] /\ blk[p] \in Blocks
  BY DEF BufInv, Typed, LockInv
<1>2. \A d \in Bufs \ {b} : blockno[d] # blk[p]
  BY Zenon, <1>1 DEF BufInv, OneCopy
<1>3. (\A d \in Bufs : valid[d] = 1 => data[d] = latest[blockno[d]])'
  BY <1>1, <1>2 DEF BufInv, FlagInv, Typed, DataInv
<1>4. (\A d \in Bufs : blockno[d] # 0 /\ dirty[d] = 0 => disk[blockno[d]] = latest[blockno[d]])'
  BY <1>1, <1>2 DEF Typed, DataInv
<1>5. (\A m \in Blocks : Cached(m) = {} => disk[m] = latest[m])'
  BY <1>1 DEF Typed, DataInv, Cached
<1>6. QED
  BY Zenon, <1>3, <1>4, <1>5 DEF DataInv

(* The disk has or gives what was stored last. *)
LEMMA TransferData ==
  ASSUME BufInv, DataInv, NEW b \in Bufs, ideintr(b, 1)
  PROVE  DataInv'
<1> Typed
  BY Zenon DEF BufInv
<1>1. PICK k \in Blocks : blockno[b] = k
  BY Zenon, FirstRequest
<1>2. \A d \in Bufs \ {b} : blockno[d] # k
  BY Zenon, <1>1 DEF BufInv, OneCopy
<1>3. /\ valid' = [valid EXCEPT ![b] = 1] /\ dirty' = [dirty EXCEPT ![b] = 0]
      /\ UNCHANGED <<blockno, latest>>
  BY Zenon DEF ideintr
<1>4. CASE dirty[b] = 1
  <2>1. sent = latest[k]
    BY <1>1, <1>4, FirstRequest DEF BufInv, FlagInv, DataInv
  <2>2. disk' = [disk EXCEPT ![k] = latest[k]] /\ data' = data
    BY Zenon, <1>1, <1>4, <2>1 DEF ideintr
  <2>3. valid[b] = 1
    BY Zenon, <1>4 DEF BufInv, FlagInv
  <2>4. QED
    BY <1>1, <1>2, <1>3, <2>2, <2>3 DEF Typed, DataInv, Cached
<1>5. CASE dirty[b] = 0
  <2>1. data' = [data EXCEPT ![b] = latest[k]] /\ disk' = disk
    BY <1>1, <1>5 DEF ideintr, DataInv
  <2>2. QED
    BY <1>1, <1>2, <1>3, <1>5, <2>1 DEF Typed, DataInv, Cached
<1>6. QED
  BY Zenon, <1>4, <1>5 DEF Typed

(* Every step of bio.c and ide.c keeps DataInv, if reads succeed. *)
LEMMA DataStep ==
  ASSUME DiskErrors = 0, BufInv, DataInv, [Next]_vars
  PROVE  DataInv'
<1>1. CASE UNCHANGED vars
  BY Zenon, <1>1, DataUnchanged DEF vars
<1>2. ASSUME NEW p \in Procs, NEW k \in Blocks, bget_cached(p, k)
      PROVE  DataInv'
  BY Zenon, <1>2, DataUnchanged DEF bget_cached
<1>3. ASSUME NEW p \in Procs, NEW k \in Blocks, bget_recycle(p, k)
      PROVE  DataInv'
  <2>1. CASE \A b \in Bufs : ~Recyclable(b)
    BY Zenon, <1>3, <2>1, DataUnchanged DEF bget_recycle
  <2>2. CASE ~\A b \in Bufs : ~Recyclable(b)
    <3>1. PICK i \in 1..NBUF :
            /\ Recyclable(lru[i])
            /\ blockno' = [blockno EXCEPT ![lru[i]] = k]
            /\ valid' = [valid EXCEPT ![lru[i]] = 0]
            /\ dirty' = [dirty EXCEPT ![lru[i]] = 0]
            /\ UNCHANGED <<data, disk, latest>>
      BY <1>3, <2>2, Zenon DEF bget_recycle
    <3>2. PICK b \in Bufs : b = lru[i]
      BY Zenon DEF BufInv, ListInv
    <3>3. QED
      BY Zenon, <1>3, <3>1, <3>2, RecycleData DEF Recyclable, bget_recycle
  <2>3. QED
    BY Zenon, <2>1, <2>2
<1>4. ASSUME NEW p \in Procs, NEW v \in Values, log_write(p, v) \/ bwrite(p, v)
      PROVE  DataInv'
  BY Zenon, <1>4, StoreData DEF log_write, bwrite
<1>5. ASSUME NEW p \in Procs, bread(p) \/ iderw(p) \/ iderw_loop(p) \/ brelse(p) \/ brelse_unref(p)
      PROVE  DataInv'
  BY Zenon, <1>5, DataUnchanged DEF bread, iderw, iderw_loop, brelse, brelse_unref
<1>6. ASSUME NEW b \in Bufs, NEW ok \in {1, 1 - DiskErrors}, ideintr(b, ok)
      PROVE  DataInv'
  <2>1. ok = 1
    OBVIOUS
  <2>2. QED
    BY Zenon, <1>6, <2>1, TransferData
<1>7. QED
  BY <1>1, <1>2, <1>3, <1>4, <1>5, <1>6, Zenon DEF Next, panic

(* Before the first bread every block is on the disk only. *)
LEMMA DataInit == Init => DataInv
BY DEF Init, DataInv, Cached

(* Where the last store of a block is, at every step of bread, bwrite,     *)
(* log_write and ideintr, if the disk does not fail.                       *)
THEOREM DataInvariant ==
  ASSUME DiskErrors = 0
  PROVE  Spec => []DataInv
<1>1. BufInv /\ DataInv /\ [Next]_vars => DataInv'
  BY Zenon, DataStep
<1>2. QED
  BY <1>1, DataInit, BufferInvariant, PTL DEF Spec

(* bread returns the buffer locked, with what was stored in the block last *)
(* (bio.c:136-148), if the disk does not fail.                             *)
THEOREM ReadersSeeTheLastStore ==
  ASSUME DiskErrors = 0
  PROVE  Spec => []Coherent
<1>1. BufInv /\ DataInv => Coherent
  <2> SUFFICES ASSUME BufInv, DataInv, NEW p \in Procs, pc[p] = "use"
               PROVE  /\ data[bp[p]] = latest[blk[p]]
                      /\ \A q \in Procs : q # p /\ bp[q] = bp[p] => pc[q] \in {"lock", "brelse"}
    BY Zenon DEF Coherent
  <2>1. PICK b \in Bufs : b = bp[p] /\ blockno[b] = blk[p] /\ valid[b] = 1 /\ lock[b] = p
    <3>1. bp[p] \in Bufs
      BY DEF BufInv, Typed, LockInv
    <3>2. QED
      BY <3>1 DEF BufInv, LockInv, FlagInv
  <2>2. data[b] = latest[blk[p]]
    BY Zenon, <2>1 DEF DataInv
  <2>3. ASSUME NEW q \in Procs, q # p, bp[q] = b PROVE pc[q] \in {"lock", "brelse"}
    BY <2>1, <2>3 DEF BufInv, Typed, LockInv
  <2>4. QED
    BY Zenon, <2>1, <2>2, <2>3
<1>2. QED
  BY <1>1, BufferInvariant, DataInvariant, PTL

(* Recycling the least recently used buffer loses nothing, because bget    *)
(* passes over dirty buffers (bio.c:110-126).                              *)
THEOREM RecyclingIsSafe ==
  ASSUME DiskErrors = 0
  PROVE  Spec => []RecyclingLosesNothing
<1>1. BufInv /\ DataInv => RecyclingLosesNothing
  BY Zenon DEF BufInv, FlagInv, DataInv, RecyclingLosesNothing, ValidWasRead
<1>2. QED
  BY <1>1, BufferInvariant, DataInvariant, PTL

-----------------------------------------------------------------------------
(* Enough buffers. *)

(* There are NBUF buffers. *)
LEMMA PinnedFinite ==
  /\ IsFiniteSet(Bufs) /\ Cardinality(Bufs) = NBUF
  /\ \A S \in SUBSET Bufs : IsFiniteSet(S) /\ Cardinality(S) \in Nat
<1>1. IsFiniteSet(Bufs) /\ Cardinality(Bufs) = NBUF
  BY FS_Interval, SizeAssumption DEF Bufs
<1>2. QED
  BY Zenon, <1>1, FS_Subset, FS_CardinalityType

(* If no buffer is recyclable, every one that is not pinned has a user, of *)
(* its own.                                                                *)
LEMMA AllTaken ==
  ASSUME BufInv, PinInv, \A b \in Bufs : ~Recyclable(b)
  PROVE  NBUF <= MaxPinned + Cardinality({q \in Procs : bp[q] # 0})
<1> DEFINE Having == {q \in Procs : bp[q] # 0}
           Rest == Bufs \ Pinned
           user == [b \in Rest |-> CHOOSE q \in Procs : bp[q] = b]
<1>1. ASSUME NEW b \in Rest PROVE \E q \in Procs : bp[q] = b
  <2>1. CASE dirty[b] = 1
    BY Zenon, <2>1 DEF Pinned
  <2>2. CASE dirty[b] = 0
    <3>1. refcnt[b] # 0
      BY Zenon, <2>2 DEF Recyclable
    <3>2. Users(b) # {}
      BY Zenon, <3>1, FS_EmptySet DEF BufInv, RefInv
    <3>3. QED
      BY Zenon, <3>2 DEF Users
  <2>3. QED
    BY Zenon, <2>1, <2>2 DEF BufInv, Typed
<1>2. \A b \in Rest : user[b] \in Procs /\ bp[user[b]] = b
  BY Zenon, <1>1
<1>3. \A b \in Rest : user[b] \in Having
  <2> HIDE DEF user
  <2>1. QED
    BY Zenon, <1>2, BufFacts
<1>4. user \in Injection(Rest, Having)
  <2>1. user \in [Rest -> Having]
    <3> HIDE DEF Having
    <3>1. QED
      BY Zenon, <1>3
  <2>2. \A b, d \in Rest : user[b] = user[d] => b = d
    <3> HIDE DEF user
    <3>1. QED
      BY Zenon, <1>2
  <2>3. QED
    BY Zenon, <2>1, <2>2 DEF Injection, IsInjective
<1>5. IsFiniteSet(Having) /\ Cardinality(Having) \in Nat
  BY Zenon, ProcsAssumption, FS_Subset, FS_CardinalityType
<1>6. Cardinality(Rest) <= Cardinality(Having)
  <2> HIDE DEF Rest, user, Having
  <2>1. QED
    BY <1>4, <1>5, FS_Injection
<1>7. Cardinality(Bufs) = Cardinality(Pinned) + Cardinality(Rest)
  <2>1. Pinned \in SUBSET Bufs /\ Rest \in SUBSET Bufs
    BY Zenon DEF Pinned
  <2>2. Pinned \cup Rest = Bufs /\ Pinned \cap Rest = {}
    BY Zenon, <2>1
  <2>3. IsFiniteSet(Pinned) /\ IsFiniteSet(Rest)
        /\ Cardinality(Pinned) \in Nat /\ Cardinality(Rest) \in Nat
    BY Zenon, <2>1, PinnedFinite
  <2> HIDE DEF Rest
  <2>4. Cardinality(Pinned \cup Rest) = Cardinality(Pinned) + Cardinality(Rest)
    <3>1. Cardinality(Pinned \cap Rest) = 0
      BY Zenon, <2>2, FS_EmptySet
    <3>2. Cardinality(Pinned \cup Rest)
            = Cardinality(Pinned) + Cardinality(Rest) - Cardinality(Pinned \cap Rest)
      BY <2>3, FS_Union, Zenon
    <3>3. QED
      BY <2>3, <3>1, <3>2
  <2>5. QED
    BY Zenon, <2>2, <2>4
<1>8. Cardinality(Rest) \in Nat /\ Cardinality(Pinned) \in Nat
  BY Zenon, PinnedFinite DEF Pinned
<1>9. Cardinality(Pinned) <= MaxPinned
  BY Zenon DEF PinInv
<1>10. QED
  <2> HIDE DEF Rest, Having
  <2>1. NBUF <= MaxPinned + Cardinality(Having)
    BY <1>5, <1>6, <1>7, <1>8, <1>9, PinnedFinite, SizeAssumption
  <2>2. QED
    BY Zenon, <2>1 DEF Having

(* Fewer buffers are pinned, and nobody panics. *)
LEMMA PinFewer ==
  ASSUME PinInv, Pinned' \subseteq Pinned, \A q \in Procs : pc'[q] # "panic"
  PROVE  PinInv'
<1>1. IsFiniteSet(Pinned) /\ Cardinality(Pinned) \in Nat
  BY Zenon, PinnedFinite DEF Pinned
<1>2. Cardinality(Pinned') \in Nat /\ Cardinality(Pinned') <= Cardinality(Pinned)
  BY Zenon, <1>1, FS_Subset, FS_CardinalityType
<1>3. Cardinality(Pinned') <= MaxPinned
  BY <1>1, <1>2, SizeAssumption DEF PinInv
<1>4. QED
  BY Zenon, <1>3 DEF PinInv, NoBuffers

(* Every step pins few enough buffers, and bget finds one if there is one  *)
(* (bio.c:110-129).                                                        *)
LEMMA PinStep ==
  ASSUME BufInv, PinInv, [Next]_vars
  PROVE  PinInv'
<1> Typed /\ LockInv /\ FlagInv
  BY Zenon DEF BufInv
<1>1. CASE UNCHANGED vars
  BY Zenon, <1>1 DEF vars, bufs, procs, PinInv, Pinned, NoBuffers, Recyclable
<1> DEFINE Runs == \A q \in Procs : pc[q] # "panic"
<1>2. ASSUME NEW p \in Procs, NEW k \in Blocks, bget_cached(p, k)
      PROVE  PinInv'
  <2>0. Runs
    BY Zenon, <1>2 DEF bget_cached, Panicked, NoBuffers
  <2>1. PICK b \in Bufs :
          /\ pc[p] = "idle" /\ pc' = [pc EXCEPT ![p] = "lock"]
          /\ bp' = [bp EXCEPT ![p] = b] /\ dirty' = dirty
    BY <1>2, Zenon DEF bget_cached, Cached
  <2>2. \A q \in Procs : pc'[q] # "panic"
    BY Zenon, <2>0, <2>1 DEF Typed
  <2>3. bp[p] = 0
    BY Zenon, <2>1 DEF LockInv
  <2>4. Pinned' \subseteq Pinned
    BY Zenon, <2>1, <2>3 DEF Pinned, Typed
  <2>5. QED
    BY Zenon, <2>2, <2>4, PinFewer
<1>3. ASSUME NEW p \in Procs, NEW k \in Blocks, bget_recycle(p, k)
      PROVE  PinInv'
  <2>1. pc[p] = "idle" /\ bp[p] = 0 /\ Runs
    BY Zenon, <1>3 DEF bget_recycle, Panicked, NoBuffers, LockInv
  <2>2. CASE \A b \in Bufs : ~Recyclable(b)
    <3>1. UNCHANGED <<dirty, refcnt, bp>> /\ pc' = [pc EXCEPT ![p] = "panic"]
      BY <1>3, <2>2, Zenon DEF bget_recycle, bufs, goto
    <3>2. \A b \in Bufs : ~Recyclable(b)'
      BY Zenon, <2>2, <3>1 DEF Recyclable
    <3>3. Pinned' = Pinned
      BY Zenon, <2>1, <3>1 DEF Pinned, Typed
    <3>4. QED
      BY Zenon, <3>2, <3>3 DEF PinInv
  <2>3. CASE ~\A b \in Bufs : ~Recyclable(b)
    <3>1. PICK i \in 1..NBUF :
            /\ dirty' = [dirty EXCEPT ![lru[i]] = 0]
            /\ bp' = [bp EXCEPT ![p] = lru[i]]
            /\ pc' = [pc EXCEPT ![p] = "lock"]
      BY <1>3, <2>3, Zenon DEF bget_recycle, goto
    <3>2. PICK b \in Bufs : b = lru[i]
      BY Zenon DEF BufInv, ListInv
    <3>3. \A q \in Procs : pc'[q] # "panic"
      BY Zenon, <2>1, <3>1 DEF Typed
    <3>4. Pinned' \subseteq Pinned
      BY <2>1, <3>1, <3>2 DEF Pinned, Typed
    <3>5. QED
      BY Zenon, <3>3, <3>4, PinFewer
  <2>4. QED
    BY Zenon, <2>2, <2>3
<1>4. ASSUME NEW p \in Procs, NEW v \in Values, log_write(p, v)
      PROVE  PinInv'
  <2>0. Runs
    BY Zenon, <1>4 DEF log_write, Panicked, NoBuffers
  <2>1. PICK b \in Bufs : b = bp[p]
    BY <1>4 DEF log_write, Typed, LockInv
  <2>2. /\ dirty[b] = 1 \/ Cardinality({d \in Bufs : dirty[d] = 1}) < MaxPinned
        /\ dirty' = [dirty EXCEPT ![b] = 1] /\ UNCHANGED <<pc, bp>>
    BY Zenon, <1>4, <2>1 DEF log_write
  <2>3. CASE dirty[b] = 1
    <3>1. Pinned' \subseteq Pinned
      BY Zenon, <2>2, <2>3 DEF Pinned, Typed
    <3>2. QED
      BY Zenon, <2>0, <2>2, <3>1, PinFewer
  <2>4. CASE dirty[b] # 1
    <3> DEFINE D == {d \in Bufs : dirty[d] = 1}
    <3>1. Pinned' \subseteq D \cup {b} /\ D \subseteq Bufs /\ D \cup {b} \subseteq Bufs
      BY Zenon, <2>2 DEF Pinned, Typed
    <3>2. Cardinality(D) < MaxPinned
      BY Zenon, <2>2, <2>4
    <3> HIDE DEF D
    <3>3. Cardinality(D \cup {b}) <= Cardinality(D) + 1
      BY <3>1, PinnedFinite, FS_AddElement
    <3>4. Cardinality(Pinned') <= Cardinality(D \cup {b})
      BY Zenon, <3>1, PinnedFinite, FS_Subset
    <3>5. /\ Cardinality(D) \in Nat /\ Cardinality(D \cup {b}) \in Nat
          /\ Cardinality(Pinned') \in Nat
      BY Zenon, <3>1, PinnedFinite
    <3>6. Cardinality(Pinned') <= MaxPinned
      BY <3>2, <3>3, <3>4, <3>5, SizeAssumption
    <3>7. QED
      BY Zenon, <2>0, <2>2, <3>6 DEF PinInv, NoBuffers
  <2>5. QED
    BY Zenon, <2>2, <2>3, <2>4
<1>5. ASSUME NEW p \in Procs, NEW v \in Values, bwrite(p, v)
      PROVE  PinInv'
  <2>0. Runs
    BY Zenon, <1>5 DEF bwrite, Panicked, NoBuffers
  <2>1. PICK b \in Bufs : b = bp[p]
    BY <1>5 DEF bwrite, Typed, LockInv
  <2>2. /\ dirty' = [dirty EXCEPT ![b] = 1] /\ pc' = [pc EXCEPT ![p] = "iderw"] /\ bp' = bp
    BY Zenon, <1>5, <2>1 DEF bwrite
  <2>3. Pinned' \subseteq Pinned
    BY Zenon, <2>1, <2>2 DEF Pinned, Typed
  <2>4. QED
    BY Zenon, <2>0, <2>2, <2>3, PinFewer DEF Typed
<1>6. ASSUME NEW p \in Procs, bread(p)
      PROVE  PinInv'
  <2>0. Runs
    BY Zenon, <1>6 DEF bread, Panicked, NoBuffers
  <2>1. PICK b \in Bufs : b = bp[p]
    BY <1>6 DEF bread, Typed, LockInv
  <2>2. /\ pc[p] = "lock" /\ dirty' = dirty /\ bp' = bp
        /\ pc' = [pc EXCEPT ![p] = IF valid[b] = 1 THEN "use" ELSE "iderw"]
    BY Zenon, <1>6, <2>1 DEF bread
  <2>3. Pinned' \subseteq Pinned
    BY Zenon, <2>2 DEF Pinned, Typed
  <2>4. QED
    BY Zenon, <2>0, <2>2, <2>3, PinFewer DEF Typed
<1>7. ASSUME NEW p \in Procs, iderw(p) \/ iderw_loop(p) \/ brelse(p)
      PROVE  PinInv'
  <2>0. Runs
    BY Zenon, <1>7 DEF iderw, iderw_loop, brelse, Panicked, NoBuffers
  <2>1. /\ UNCHANGED <<dirty, bp>>
        /\ \/ pc[p] = "iderw" /\ pc' = [pc EXCEPT ![p] = "asleep"]
           \/ pc[p] = "woken" /\ pc' = [pc EXCEPT ![p] = "use"]
           \/ pc[p] = "use" /\ pc' = [pc EXCEPT ![p] = "brelse"]
    BY Zenon, <1>7 DEF iderw, iderw_loop, brelse, FlagInv
  <2>2. Pinned' \subseteq Pinned
    BY Zenon, <2>1 DEF Pinned, Typed
  <2>3. QED
    BY Zenon, <2>0, <2>1, <2>2, PinFewer DEF Typed
<1>8. ASSUME NEW p \in Procs, brelse_unref(p)
      PROVE  PinInv'
  <2>0. Runs
    BY Zenon, <1>8 DEF brelse_unref, Panicked, NoBuffers
  <2>1. /\ dirty' = dirty /\ bp' = [bp EXCEPT ![p] = 0]
        /\ pc[p] = "brelse" /\ pc' = [pc EXCEPT ![p] = "idle"]
    BY Zenon, <1>8 DEF brelse_unref
  <2>2. Pinned' \subseteq Pinned
    BY Zenon, <2>1 DEF Pinned, Typed
  <2>3. QED
    BY Zenon, <2>0, <2>1, <2>2, PinFewer DEF Typed
<1>9. ASSUME NEW b \in Bufs, NEW ok \in {1, 1 - DiskErrors}, ideintr(b, ok)
      PROVE  PinInv'
  <2>0. Runs
    BY Zenon, <1>9 DEF ideintr, Panicked, NoBuffers
  <2>1. PICK p \in Procs :
          /\ lock[b] = p /\ bp[p] = b /\ pc[p] = "asleep"
          /\ pc' = [pc EXCEPT ![p] = "woken"]
    BY Zenon, <1>9, FirstRequest
  <2>2. dirty' = [dirty EXCEPT ![b] = 0] /\ bp' = bp
    BY Zenon, <1>9 DEF ideintr
  <2>3. Pinned' \subseteq Pinned
    BY <2>1, <2>2 DEF Pinned, Typed
  <2>4. QED
    BY Zenon, <2>0, <2>1, <2>3, PinFewer DEF Typed
<1>10. QED
  BY <1>1, <1>2, <1>3, <1>4, <1>5, <1>6, <1>7, <1>8, <1>9, Zenon DEF Next, panic

(* Initially nothing is pinned. *)
LEMMA PinInit == Init => PinInv
<1> SUFFICES ASSUME Init PROVE PinInv
  BY Zenon
<1>1. Pinned = {} /\ ~NoBuffers
  BY DEF Init, Pinned, NoBuffers
<1>2. QED
  BY <1>1, FS_EmptySet, SizeAssumption DEF PinInv

(* Whoever uses a buffer or asks the disk for it has it locked, and asks   *)
(* for something.                                                          *)
LEMMA NeverMisused == BufInv => ~Misused
<1> SUFFICES ASSUME BufInv, NEW p \in Procs
             PROVE  /\ pc[p] \in {"use", "iderw"} => lock[bp[p]] = p
                    /\ pc[p] = "iderw" => valid[bp[p]] # 1 \/ dirty[bp[p]] # 0
  BY Zenon DEF Misused
<1>1. pc[p] \in {"use", "iderw"} => bp[p] \in Bufs
  BY DEF BufInv, Typed, LockInv
<1>2. QED
  BY <1>1 DEF BufInv, LockInv, FlagInv

(* The cache is sound, and bget gives up (bio.c:129) only when the buffers *)
(* the log pins and those that processes have are all there are, for any   *)
(* number of each.                                                         *)
THEOREM CacheIsSound == Spec => []BuffersSound
<1>1. BufInv /\ PinInv /\ [Next]_vars => PinInv'
  BY Zenon, PinStep
<1>2. BufInv => TypeOK
  <2> SUFFICES ASSUME BufInv PROVE TypeOK
    BY Zenon
  <2>1. ASSUME NEW b \in Bufs PROVE refcnt[b] \in 0..Cardinality(Procs)
    <3>1. /\ Cardinality(Users(b)) \in Nat /\ Cardinality(Procs) \in Nat
          /\ Cardinality(Users(b)) <= Cardinality(Procs)
      BY Zenon, ProcsAssumption, FS_Subset, FS_CardinalityType DEF Users
    <3>2. QED
      BY <3>1 DEF BufInv, RefInv
  <2>2. refcnt \in [Bufs -> 0..Cardinality(Procs)]
    BY Zenon, <2>1 DEF BufInv, Typed
  <2>3. QED
    BY Zenon, <2>2 DEF BufInv, Typed, ListInv, QueueInv, TypeOK
<1>3. BufInv => OneCopy /\ BufferStays
  BY Zenon DEF BufInv, LockInv, RefInv, Users, BufferStays
<1>4. BufInv /\ PinInv => BuffersSound
  BY Zenon, <1>2, <1>3, NeverMisused, AllTaken DEF BuffersSound, NoBufferLost, PinInv
<1>5. QED
  BY <1>1, <1>4, PinInit, BufferInvariant, PTL DEF Spec
=============================================================================
