----------------------------- MODULE LogAtomProofs --------------------------
(***************************************************************************)
(* The data invariant of LogInv: how buffers, log blocks, home blocks and  *)
(* the two headers relate through a commit or a recovery.  From it, crash  *)
(* atomicity and durability of the log, and that it implements AtomicDisk. *)
(***************************************************************************)
EXTENDS LogProofs

-----------------------------------------------------------------------------
(* Headers, buffers and copies.                                            *)

\* Both headers list each block once, and agree from the commit point on.
LEMMA HeadStep ==
  ASSUME ControlInv, DataInv, Next
  PROVE  HeadInv'
<1> TypeOK /\ CallInv /\ PhaseInv /\ HeadInv /\ CleanInv /\ CopyInv
  BY Zenon DEF ControlInv, DataInv
<1> USE LogConstants DEF TypeOK, DiskType, MemType, ProcType, disk, bufs, memlog, proc,
                         history, HeadInv, Injective, Installing
<1>1. ASSUME NEW p \in Procs, begin_op(p) PROVE HeadInv'
  BY <1>1 DEF begin_op, enter
<1>2. ASSUME NEW p \in Procs, NEW b \in Blocks, log_write(p, b) PROVE HeadInv'
  BY <1>2 DEF log_write
<1>3. ASSUME NEW p \in Procs, end_op(p) PROVE HeadInv'
  <2>1. \A q \in Procs : \/ pc'[q] = pc[q]
                         \/ pc'[q] \in {"idle", "woken", "commit"}
                              /\ pc[q] \in {"sleep", "op"}
    <3> HIDE DEF HeadInv
    <3> QED BY Zenon, <1>3 DEF end_op, wakeup
  <2>2. Installing' <=> Installing
    BY Zenon, <2>1
  <2>3. UNCHANGED <<lh, dhead>> /\ sys = "up" /\ sys' \in {"up", "panic"}
    BY Zenon, <1>3 DEF end_op
  <2> HIDE DEF Installing
  <2> QED
    BY <2>2, <2>3
<1>4. ASSUME NEW p \in Procs, begin_op_again(p) PROVE HeadInv'
  BY <1>4 DEF begin_op_again, enter
<1>5. ASSUME NEW p \in Procs, log_write_locked(p) PROVE HeadInv'
  <2>1. ~Installing /\ sys = "up" /\ blk[p] \in Blocks
    BY Zenon, <1>5 DEF log_write_locked, PhaseInv, BootInv, CommitInv, LoopInv, InOp, Commits, Writes, CallInv
  <2>2. ~Installing'
    BY Zenon, <1>5, <2>1 DEF log_write_locked
  <2>3. sys' = "up" /\ dhead' = dhead /\ lh' = absorb(blk[p])
    BY Zenon, <1>5 DEF log_write_locked
  <2>4. Injective(lh')
    BY <2>1, <2>3 DEF absorb, Logged
  <2> QED
    BY <2>1, <2>2, <2>3, <2>4
<1>6. ASSUME NEW p \in Procs, commit(p) PROVE HeadInv'
  BY <1>6 DEF commit
<1>7. ASSUME NEW p \in Procs, write_log(p) PROVE HeadInv'
  BY <1>7 DEF write_log
<1>8. ASSUME NEW p \in Procs, write_head(p) PROVE HeadInv'
  BY <1>8 DEF write_head
<1>9. ASSUME NEW p \in Procs, commit_install(p) PROVE HeadInv'
  BY <1>9 DEF commit_install, install_trans
<1>10. ASSUME NEW p \in Procs, commit_erase(p) PROVE HeadInv'
  BY <1>10 DEF commit_erase, erase_log
<1>11. ASSUME NEW p \in Procs, end_op_finish(p) PROVE HeadInv'
  <2>1. \A q \in Procs : \/ pc'[q] = pc[q]
                         \/ pc'[q] \in {"idle", "woken"}
                              /\ pc[q] \in {"sleep", "finish"}
    <3> HIDE DEF HeadInv
    <3> QED BY Zenon, <1>11 DEF end_op_finish, wakeup
  <2>2. Installing' <=> Installing
    BY Zenon, <2>1
  <2>3. UNCHANGED <<lh, dhead, sys>>
    BY Zenon, <1>11 DEF end_op_finish
  <2> HIDE DEF Installing
  <2> QED
    BY <2>2, <2>3
<1>12. ASSUME NEW b \in Blocks, bget_recycle(b) PROVE HeadInv'
  BY <1>12 DEF bget_recycle, Recyclable
<1>13. CASE read_head
  BY <1>13 DEF read_head
<1>14. CASE recover_install
  BY <1>14 DEF recover_install, install_trans
<1>15. CASE recover_erase
  BY <1>15 DEF recover_erase, erase_log
<1>16. CASE crash
  BY <1>16 DEF crash
<1>17. CASE Quiesced
  BY <1>17 DEF Quiesced, vars
<1> QED
  BY <1>1, <1>2, <1>3, <1>4, <1>5, <1>6, <1>7, <1>8, <1>9, <1>10, <1>11,
     <1>12, <1>13, <1>14, <1>15, <1>16, <1>17 DEF Next, Step, Recover

\* A buffer that differs from its home block stays held or pinned.
LEMMA CleanStep ==
  ASSUME ControlInv, DataInv, EnoughLog, Next
  PROVE  CleanInv'
<1> TypeOK /\ CallInv /\ PhaseInv /\ HeadInv /\ CleanInv /\ CopyInv
  BY Zenon DEF ControlInv, DataInv
<1> USE LogConstants DEF TypeOK, DiskType, MemType, ProcType, disk, bufs, memlog, proc,
                         history, CleanInv, Clean, Held, Logged
<1>1. ASSUME NEW p \in Procs, begin_op(p) PROVE CleanInv'
  BY <1>1 DEF begin_op, enter
<1>2. ASSUME NEW p \in Procs, NEW b \in Blocks, log_write(p, b) PROVE CleanInv'
  <2>1. sys = "up" /\ dblk' = dblk /\ lh' = lh /\ dirty' = dirty
        /\ cache' = [cache EXCEPT ![b] = bread(b) \cup {op[p]}]
        /\ valid' = valid \cup {b}
    BY Zenon, <1>2 DEF log_write
  <2>2. sys' = "up" /\ blk' = [blk EXCEPT ![p] = b] /\ blk[p] = NoBlock
    <3> InOp(p)
      BY Zenon, <1>2 DEF log_write, InOp
    <3>1. ~(TooBig \/ outstanding < 1)
      <4>1. Len(lh) < LOGSIZE /\ Len(lh) < NLOG - 1
        BY Zenon, RoomForWrite DEF ControlInv
      <4>2. outstanding \in Nat \ {0}
        BY Zenon, ActiveCount DEF ControlInv
      <4> HIDE DEF CleanInv, Clean, Held, DiskType, ProcType
      <4> QED
        BY <4>1, <4>2 DEF TooBig
    <3>2. pc[p] = "op" /\ sys' = "up" /\ blk' = [blk EXCEPT ![p] = b]
      BY Zenon, <1>2, <3>1 DEF log_write
    <3> QED
      BY Zenon, <3>2 DEF CallInv
  <2>3. \A c \in Blocks : c # b => (Held(c) => Held(c)') /\ (Clean(c) => Clean(c)')
    BY Zenon, <2>1, <2>2
  <2>4. Held(b)'
    BY Zenon, <2>2
  <2> QED
    BY <2>1, <2>2, <2>3, <2>4
<1>3. ASSUME NEW p \in Procs, end_op(p) PROVE CleanInv'
  <2>1. UNCHANGED <<disk, bufs, lh, blk>> /\ sys = "up" /\ sys' = "up"
    BY Zenon, <1>3 DEF end_op, PhaseInv, BootInv, CommitInv, LoopInv, InOp, Commits
  <2> QED
    BY <2>1
<1>4. ASSUME NEW p \in Procs, begin_op_again(p) PROVE CleanInv'
  BY <1>4 DEF begin_op_again, enter
<1>5. ASSUME NEW p \in Procs, log_write_locked(p) PROVE CleanInv'
  <2>1. /\ sys = "up" /\ sys' = "up" /\ UNCHANGED <<dblk, cache, valid>>
        /\ blk[p] \in Blocks /\ blk[p] \in valid
        /\ lh' = absorb(blk[p]) /\ dirty' = dirty \cup {blk[p]}
        /\ blk' = [blk EXCEPT ![p] = NoBlock]
    BY Zenon, <1>5 DEF log_write_locked, CallInv, pin
  <2>2. Logged' = Logged \cup {blk[p]}
    <3>1. CASE blk[p] \in Logged
      BY <2>1, <3>1 DEF absorb
    <3>2. CASE blk[p] \notin Logged
      BY <2>1, <3>2 DEF absorb
    <3> QED BY Zenon, <3>1, <3>2
  <2>3. \A b \in Blocks : b # blk[p] /\ Held(b) => Held(b)'
    BY Zenon, <2>1
  <2> QED
    BY Zenon, <2>1, <2>2, <2>3
<1>6. ASSUME NEW p \in Procs, commit(p) PROVE CleanInv'
  BY <1>6 DEF commit
<1>7. ASSUME NEW p \in Procs, write_log(p) PROVE CleanInv'
  <2>1. sys = "up" /\ sys' = "up" /\ UNCHANGED <<dblk, lh, dirty, blk>>
        /\ lh[tail] \in Blocks
        /\ cache' = [cache EXCEPT ![lh[tail]] = bread(lh[tail])]
        /\ valid' = valid \cup {lh[tail]}
    BY <1>7 DEF write_log, PhaseInv, BootInv, CommitInv, LoopInv
  <2>2. \A b \in Blocks : Clean(b) => Clean(b)'
    BY Zenon, <2>1 DEF bread
  <2> QED
    BY <2>1, <2>2
<1>8. ASSUME NEW p \in Procs, write_head(p) PROVE CleanInv'
  BY <1>8 DEF write_head
<1>9. ASSUME NEW p \in Procs, commit_install(p) PROVE CleanInv'
  BY <1>9 DEF commit_install, install_trans
<1>10. ASSUME NEW p \in Procs, commit_erase(p) PROVE CleanInv'
  <2>1. sys = "up" /\ sys' = "up" /\ UNCHANGED <<dblk, bufs, blk>>
    BY Zenon, <1>10 DEF commit_erase, erase_log
  <2>2. \A b \in Blocks : ~Held(b)
    BY <1>10 DEF commit_erase, PhaseInv, BootInv, CommitInv, LoopInv, Commits, Writes, CallInv, InOp
  <2>3. \A b \in Blocks : Clean(b)
    <3>1. \A i \in 1..Len(lh) : bread(lh[i]) = dblk[lh[i]]
      BY Zenon, <1>10 DEF commit_erase, CopyInv
    <3> QED
      BY <2>2, <3>1 DEF bread
  <2> QED
    BY Zenon, <2>1, <2>3
<1>11. ASSUME NEW p \in Procs, end_op_finish(p) PROVE CleanInv'
  BY <1>11 DEF end_op_finish, wakeup
<1>12. ASSUME NEW b \in Blocks, bget_recycle(b) PROVE CleanInv'
  BY <1>12 DEF bget_recycle, Recyclable
<1>13. CASE read_head
  BY Zenon, <1>13 DEF read_head
<1>14. CASE recover_install
  BY Zenon, <1>14 DEF recover_install, install_trans
<1>15. CASE recover_erase
  BY Zenon, <1>15 DEF recover_erase, erase_log
<1>16. CASE crash
  BY Zenon, <1>16 DEF crash
<1>17. CASE Quiesced
  BY <1>17 DEF Quiesced, vars
<1> QED
  BY Zenon, <1>1, <1>2, <1>3, <1>4, <1>5, <1>6, <1>7, <1>8, <1>9, <1>10, <1>11,
     <1>12, <1>13, <1>14, <1>15, <1>16, <1>17 DEF Next, Step, Recover

\* With no commit writing to disk and no recovery there is nothing to copy.
LEMMA CopyIdle ==
  ASSUME sys' \notin {"install", "erase"}, \A q \in Procs : ~Writes(q)'
  PROVE  CopyInv'
  BY Zenon DEF CopyInv, Writes

\* Steps that change neither disk, headers nor what is read copy nothing.
LEMMA CopySame ==
  ASSUME ControlInv, CopyInv, sys' = sys, UNCHANGED <<disk, lh, tail>>,
         \A b \in Blocks : bread(b)' = bread(b),
         \A q \in Procs : Writes(q)' => pc'[q] = pc[q]
  PROVE  CopyInv'
<1> USE DEF ControlInv, TypeOK, MemType, CopyInv, Writes, disk, PhaseInv, BootInv, CommitInv, LoopInv
<1> HIDE DEF bread
<1>1. \A i \in 1..Len(lh) : lh[i] \in Blocks
  OBVIOUS
<1>2. CASE sys \in {"install", "erase"}
  BY Zenon, <1>1, <1>2
<1>3. ASSUME NEW q \in Procs, Writes(q)'
      PROVE  pc'[q] = pc[q] /\ (pc[q] = "write_log" => tail - 1 \in 0..Len(lh))
  BY <1>3
<1> QED
  BY <1>1, <1>2, <1>3

\* The copies are those of the one process p that writes, if any does.
LEMMA CopyOne ==
  ASSUME NEW p \in Procs, sys' = "up", \A q \in Procs : q # p => ~Writes(q)',
         pc'[p] = "write_log" => \A i \in 1..tail' - 1 : bread(lh[i])' = dlog'[i],
         pc'[p] \in {"write_head", "install", "erase"} =>
           \A i \in 1..Len(lh') : bread(lh[i])' = dlog'[i],
         pc'[p] = "install" => \A i \in 1..tail' - 1 : dblk'[lh'[i]] = dlog'[i],
         pc'[p] = "erase" => \A i \in 1..Len(lh') : dblk'[lh'[i]] = dlog'[i]
  PROVE  CopyInv'
<1>1. ASSUME NEW q \in Procs, q # p
      PROVE  pc'[q] \notin {"write_log", "write_head", "install", "erase"}
  BY Zenon, <1>1 DEF Writes
<1> HIDE DEF bread, Writes
<1> QED
  BY Zenon, <1>1 DEF CopyInv

\* Copies of a block, once made, stay equal.
LEMMA CopyStep ==
  ASSUME ControlInv, DataInv, Next
  PROVE  CopyInv'
<1> TypeOK /\ CallInv /\ PhaseInv /\ HeadInv /\ CleanInv /\ CopyInv
  BY Zenon DEF ControlInv, DataInv
<1> USE LogConstants DEF TypeOK, DiskType, MemType, ProcType, disk, bufs, memlog, proc,
                         history, CopyInv
<1>1. ASSUME NEW p \in Procs, begin_op(p) PROVE CopyInv'
  <2>1. sys' = sys /\ UNCHANGED <<disk, lh, tail, bufs>>
    BY Zenon, <1>1 DEF begin_op
  <2>2. \A q \in Procs : Writes(q)' => pc'[q] = pc[q]
    BY <1>1 DEF begin_op, enter, Writes
  <2>3. \A b \in Blocks : bread(b)' = bread(b)
    BY Zenon, <2>1 DEF bread
  <2> QED
    BY Zenon, <2>1, <2>2, <2>3, CopySame
<1>2. ASSUME NEW p \in Procs, NEW b \in Blocks, log_write(p, b) PROVE CopyInv'
  <2>1. sys = "up" /\ sys' \in {"up", "panic"} /\ \A q \in Procs : ~Writes(q)
    BY <1>2 DEF log_write, PhaseInv, BootInv, CommitInv, LoopInv, InOp, Commits, Writes
  <2>2. \A q \in Procs : ~Writes(q)'
    BY <1>2, <2>1 DEF log_write, Writes, wakeup
  <2> QED
    BY Zenon, <2>1, <2>2, CopyIdle
<1>3. ASSUME NEW p \in Procs, end_op(p) PROVE CopyInv'
  <2>1. sys = "up" /\ sys' \in {"up", "panic"} /\ \A q \in Procs : ~Writes(q)
    BY Zenon, <1>3 DEF end_op, PhaseInv, BootInv, CommitInv, LoopInv, InOp, Commits, Writes
  <2>2. \A q \in Procs : ~Writes(q)'
    <3>1. CASE pc' = [wakeup(pc) EXCEPT ![p] = "idle"]
      BY <2>1, <3>1 DEF Writes, wakeup
    <3>2. CASE pc' = [pc EXCEPT ![p] = "commit"] \/ pc' = pc
      BY Zenon, <2>1, <3>2 DEF Writes
    <3> QED
      BY Zenon, <1>3, <3>1, <3>2 DEF end_op
  <2> QED
    BY Zenon, <2>1, <2>2, CopyIdle
<1>4. ASSUME NEW p \in Procs, begin_op_again(p) PROVE CopyInv'
  <2>1. sys' = sys /\ UNCHANGED <<disk, lh, tail, bufs>>
    BY Zenon, <1>4 DEF begin_op_again
  <2>2. \A q \in Procs : Writes(q)' => pc'[q] = pc[q]
    BY <1>4 DEF begin_op_again, enter, Writes
  <2>3. \A b \in Blocks : bread(b)' = bread(b)
    BY Zenon, <2>1 DEF bread
  <2> QED
    BY Zenon, <2>1, <2>2, <2>3, CopySame
<1>5. ASSUME NEW p \in Procs, log_write_locked(p) PROVE CopyInv'
  <2>1. sys = "up" /\ sys' \in {"up", "panic"} /\ \A q \in Procs : ~Writes(q)
    BY Zenon, <1>5 DEF log_write_locked, PhaseInv, BootInv, CommitInv, LoopInv, InOp, Commits, Writes
  <2>2. \A q \in Procs : ~Writes(q)'
    BY Zenon, <1>5, <2>1 DEF log_write_locked, Writes, wakeup
  <2> QED
    BY Zenon, <2>1, <2>2, CopyIdle
<1>6. ASSUME NEW p \in Procs, commit(p) PROVE CopyInv'
  <2>1. sys = "up" /\ sys' = "up" /\ tail' = 1
        /\ \A q \in Procs : pc'[q] = pc[q] \/ pc'[q] \in {"finish", "write_log"}
    BY Zenon, <1>6 DEF commit
  <2>2. \A q \in Procs : q # p => ~Writes(q)
    BY Zenon, <1>6 DEF commit, PhaseInv, BootInv, CommitInv, LoopInv, Commits
  <2>3. \A q \in Procs : q # p => ~Writes(q)'
    BY <1>6, <2>2 DEF commit, Writes
  <2>4. pc'[p] \in {"finish", "write_log"} /\ 1..tail' - 1 = {}
    BY <1>6, <2>1 DEF commit
  <2> HIDE DEF CopyInv
  <2> QED
    BY <2>1, <2>3, <2>4, CopyOne
<1>7. ASSUME NEW p \in Procs, write_log(p) PROVE CopyInv'
  <2>1. /\ sys = "up" /\ sys' = "up" /\ lh' = lh /\ dblk' = dblk
        /\ tail \in 1..Len(lh) /\ tail' = tail + 1
        /\ dlog' = [dlog EXCEPT ![tail] = bread(lh[tail])]
        /\ pc' = [pc EXCEPT ![p] = IF tail = Len(lh) THEN "write_head" ELSE @]
    BY Zenon, <1>7 DEF write_log, PhaseInv, BootInv, CommitInv, LoopInv
  <2>2. \A b \in Blocks : bread(b)' = bread(b)
    BY <1>7, <2>1 DEF write_log, bread
  <2>3. \A q \in Procs : q # p => ~Writes(q)'
    BY <1>7, <2>1 DEF write_log, PhaseInv, BootInv, CommitInv, LoopInv, Commits, Writes
  <2>4. \A i \in 1..tail : bread(lh[i])' = dlog'[i]
    <3>1. \A i \in 1..tail - 1 : bread(lh[i]) = dlog[i]
      BY Zenon, <1>7 DEF write_log
    <3>2. \A i \in 1..tail : dlog'[i] = bread(lh[i])
      <4> HIDE DEF CopyInv
      <4> QED BY <2>1, <3>1
    <3> QED
      <4> HIDE DEF CopyInv
      <4> QED BY <2>1, <2>2, <3>2
  <2>5. pc'[p] \in {"write_log", "write_head"} /\ (pc'[p] = "write_head" => tail = Len(lh))
    BY Zenon, <1>7, <2>1 DEF write_log
  <2>6. pc'[p] = "write_log" => \A i \in 1..tail' - 1 : bread(lh[i])' = dlog'[i]
    <3> HIDE DEF CopyInv
    <3> QED BY <2>1, <2>4
  <2>7. pc'[p] = "write_head" => \A i \in 1..Len(lh') : bread(lh[i])' = dlog'[i]
    <3> HIDE DEF CopyInv
    <3> QED BY Zenon, <2>1, <2>4, <2>5
  <2> HIDE DEF CopyInv
  <2> QED
    BY Zenon, <2>1, <2>3, <2>5, <2>6, <2>7, CopyOne
<1>8. ASSUME NEW p \in Procs, write_head(p) PROVE CopyInv'
  <2>1. /\ sys = "up" /\ sys' = "up" /\ UNCHANGED <<lh, dblk, dlog, bufs>>
        /\ tail' = 1 /\ pc[p] = "write_head" /\ pc' = [pc EXCEPT ![p] = "install"]
    BY Zenon, <1>8 DEF write_head
  <2>2. \A q \in Procs : q # p => ~Writes(q)'
    BY Zenon, <1>8, <2>1 DEF PhaseInv, BootInv, CommitInv, LoopInv, Commits, Writes
  <2>3. \A i \in 1..Len(lh) : bread(lh[i]) = dlog[i]
    BY <2>1
  <2>4. \A i \in 1..Len(lh') : bread(lh[i])' = dlog'[i]
    BY Zenon, <2>1, <2>3 DEF bread
  <2>5. pc'[p] = "install" /\ 1..tail' - 1 = {}
    BY <2>1
  <2> HIDE DEF CopyInv
  <2> QED
    BY Zenon, <2>1, <2>2, <2>4, <2>5, CopyOne
<1>9. ASSUME NEW p \in Procs, commit_install(p) PROVE CopyInv'
  <2>1. /\ tail \in 1..Len(lh) /\ tail' = tail + 1 /\ lh' = lh /\ dlog' = dlog
        /\ dblk' = [dblk EXCEPT ![lh[tail]] = dlog[tail]]
        /\ cache' = [cache EXCEPT ![lh[tail]] = dlog[tail]]
        /\ valid' = valid \cup {lh[tail]}
    BY Zenon, <1>9 DEF commit_install, install_trans, PhaseInv, BootInv, CommitInv, LoopInv
  <2>2. \A i \in 1..tail - 1 : dblk[lh[i]] = dlog[i]
    BY Zenon, <1>9 DEF commit_install
  <2>3. \A i \in 1..tail : dblk'[lh'[i]] = dlog'[i]
    <3> HIDE DEF CopyInv
    <3>1. \A i \in 1..Len(lh) : lh[i] \in Blocks /\ (lh[i] = lh[tail] => i = tail)
      BY <2>1 DEF HeadInv, Injective
    <3>2. dblk'[lh[tail]] = dlog[tail]
      BY Zenon, <2>1, <3>1
    <3>3. \A i \in 1..tail - 1 : i \in 1..Len(lh) /\ dblk'[lh[i]] = dblk[lh[i]]
      <4>1. tail \in 1..Len(lh) BY Zenon, <2>1
      <4>2. \A i \in 1..tail - 1 : i \in 1..Len(lh) /\ i # tail BY <4>1
      <4> QED BY Zenon, <2>1, <3>1, <4>2
    <3> QED
      BY <2>1, <2>2, <3>2, <3>3
  <2>4. \A i \in 1..Len(lh) : bread(lh[i]) = dlog[i]
    BY Zenon, <1>9 DEF commit_install
  <2>5. \A i \in 1..Len(lh) : bread(lh[i])' = dlog'[i]
    <3> HIDE DEF CopyInv
    <3>1. \A i \in 1..Len(lh) : lh[i] \in Blocks /\ (lh[i] = lh[tail] => i = tail)
      BY <2>1 DEF HeadInv, Injective
    <3> QED
      BY Zenon, <2>1, <2>4, <3>1 DEF bread
  <2>6. /\ sys' = "up" /\ pc'[p] \in {"install", "erase"}
        /\ pc'[p] = "erase" => tail = Len(lh)
        /\ \A q \in Procs : q # p => ~Writes(q)'
    BY <1>9 DEF commit_install, PhaseInv, BootInv, CommitInv, LoopInv, Commits, Writes
  <2>7. pc'[p] = "install" => \A i \in 1..tail' - 1 : dblk'[lh'[i]] = dlog'[i]
    <3> HIDE DEF CopyInv
    <3> QED BY <2>1, <2>3
  <2>8. pc'[p] = "erase" => \A i \in 1..Len(lh') : dblk'[lh'[i]] = dlog'[i]
    <3> HIDE DEF CopyInv
    <3> QED BY Zenon, <2>1, <2>3, <2>6
  <2>9. \A i \in 1..Len(lh') : bread(lh[i])' = dlog'[i]
    <3> HIDE DEF CopyInv
    <3> QED BY <2>1, <2>5
  <2> HIDE DEF CopyInv
  <2> QED
    BY Zenon, <2>6, <2>7, <2>8, <2>9, CopyOne
<1>10. ASSUME NEW p \in Procs, commit_erase(p) PROVE CopyInv'
  <2>1. sys' = "up" /\ \A q \in Procs : ~Writes(q)'
    BY <1>10 DEF commit_erase, PhaseInv, BootInv, CommitInv, LoopInv, Commits, Writes
  <2> QED
    BY Zenon, <2>1, CopyIdle
<1>11. ASSUME NEW p \in Procs, end_op_finish(p) PROVE CopyInv'
  <2>1. sys' = "up" /\ \A q \in Procs : ~Writes(q)
    BY Zenon, <1>11 DEF end_op_finish, PhaseInv, BootInv, CommitInv, LoopInv, Commits, Writes
  <2>2. \A q \in Procs : ~Writes(q)'
    BY <1>11, <2>1 DEF end_op_finish, Writes, wakeup
  <2> QED
    BY Zenon, <2>1, <2>2, CopyIdle
<1>12. ASSUME NEW b \in Blocks, bget_recycle(b) PROVE CopyInv'
  <2>1. sys' = sys /\ UNCHANGED <<disk, lh, tail, pc>>
    BY Zenon, <1>12 DEF bget_recycle
  <2>2. \A c \in Blocks : bread(c)' = bread(c)
    BY <1>12 DEF bget_recycle, Recyclable, bread, CleanInv, Clean, Held
  <2> QED
    BY Zenon, <2>1, <2>2, CopySame
<1>13. CASE read_head
  <2>1. \A q \in Procs : pc'[q] = "idle"
    BY Zenon, <1>13 DEF read_head, PhaseInv, BootInv, CommitInv, LoopInv
  <2>2. dblk' = dblk /\ dlog' = dlog /\ lh' = dhead /\ tail' = 1
        /\ sys' = IF dhead = <<>> THEN "erase" ELSE "install"
    BY <1>13 DEF read_head
  <2>3. sys' = "install" => \A i \in 1..tail' - 1 : dblk'[lh'[i]] = dlog'[i]
    BY <2>2
  <2>4. sys' = "erase" => \A i \in 1..Len(lh') : dblk'[lh'[i]] = dlog'[i]
    BY <2>2
  <2> QED
    BY Zenon, <2>1, <2>3, <2>4
<1>14. CASE recover_install
  <2>1. /\ tail \in 1..Len(lh) /\ tail' = tail + 1 /\ lh' = lh /\ dlog' = dlog
        /\ dblk' = [dblk EXCEPT ![lh[tail]] = dlog[tail]]
        /\ cache' = [cache EXCEPT ![lh[tail]] = dlog[tail]]
        /\ valid' = valid \cup {lh[tail]}
    BY Zenon, <1>14 DEF recover_install, install_trans, PhaseInv, BootInv, CommitInv, LoopInv
  <2>2. \A i \in 1..tail - 1 : dblk[lh[i]] = dlog[i]
    BY Zenon, <1>14 DEF recover_install
  <2>3. \A i \in 1..tail : dblk'[lh'[i]] = dlog'[i]
    <3> HIDE DEF CopyInv
    <3>1. \A i \in 1..Len(lh) : lh[i] \in Blocks /\ (lh[i] = lh[tail] => i = tail)
      BY <2>1 DEF HeadInv, Injective
    <3>2. dblk'[lh[tail]] = dlog[tail]
      BY Zenon, <2>1, <3>1
    <3>3. \A i \in 1..tail - 1 : i \in 1..Len(lh) /\ dblk'[lh[i]] = dblk[lh[i]]
      <4>1. tail \in 1..Len(lh) BY Zenon, <2>1
      <4>2. \A i \in 1..tail - 1 : i \in 1..Len(lh) /\ i # tail BY <4>1
      <4> QED BY Zenon, <2>1, <3>1, <4>2
    <3> QED
      BY <2>1, <2>2, <3>2, <3>3
  <2>4. /\ sys' \in {"install", "erase"} /\ (sys' = "erase" => tail = Len(lh))
        /\ \A q \in Procs : pc'[q] = "idle"
    BY Zenon, <1>14 DEF recover_install, PhaseInv, BootInv, CommitInv, LoopInv
  <2>5. sys' = "install" => \A i \in 1..tail' - 1 : dblk'[lh'[i]] = dlog'[i]
    <3> HIDE DEF CopyInv
    <3> QED BY <2>1, <2>3
  <2>6. sys' = "erase" => \A i \in 1..Len(lh') : dblk'[lh'[i]] = dlog'[i]
    <3> HIDE DEF CopyInv
    <3> QED BY Zenon, <2>1, <2>3, <2>4
  <2> QED
    BY Zenon, <2>4, <2>5, <2>6
<1>15. CASE recover_erase
  <2>1. sys' = "up" /\ \A q \in Procs : ~Writes(q)'
    BY Zenon, <1>15 DEF recover_erase, PhaseInv, BootInv, CommitInv, LoopInv, Writes
  <2> QED
    BY Zenon, <2>1, CopyIdle
<1>16. CASE crash
  BY Zenon, <1>16 DEF crash
<1>17. CASE Quiesced
  BY Zenon, <1>17 DEF Quiesced, vars
<1> QED
  BY <1>1, <1>2, <1>3, <1>4, <1>5, <1>6, <1>7, <1>8, <1>9, <1>10, <1>11,
     <1>12, <1>13, <1>14, <1>15, <1>16, <1>17 DEF Next, Step, Recover

-----------------------------------------------------------------------------
(* What each step does to the blocks the system shows and to those a       *)
(* reboot would find.                                                      *)

\* Nothing a reader or a reboot sees changes.
Untouched ==
    \A b \in Blocks : View(b)' = View(b) /\ Recovered(b)' = Recovered(b)

\* Call o writes block c, for readers only.
Modified(o, c) ==
    \A b \in Blocks :
      /\ View(b)' = IF b = c THEN View(b) \cup {o} ELSE View(b)
      /\ Recovered(b)' = Recovered(b)

\* Everything shown becomes durable.
Flushed == \A b \in Blocks : View(b)' = View(b) /\ Recovered(b)' = View(b)

\* Everything not durable is lost.
Dropped ==
    \A b \in Blocks : View(b)' = Recovered(b) /\ Recovered(b)' = Recovered(b)

\* A header that lists each block once replays its i-th log block to its
\* i-th entry.
LEMMA ReplayListed ==
  ASSUME NEW head \in Seq(Blocks), NEW log, NEW home, Injective(head),
         NEW i \in 1..Len(head)
  PROVE  Replay(head, log, home, head[i]) = log[i]
<1> DEFINE P(k) == /\ head[k] = head[i]
                   /\ \A j \in k + 1..Len(head) : head[j] # head[i]
<1>1. P(i) /\ \A k \in 1..Len(head) : P(k) => k = i
  BY DEF Injective
<1>2. (CHOOSE k \in 1..Len(head) : P(k)) = i
  BY Zenon, <1>1
<1> QED
  BY Zenon, <1>2 DEF Replay

\* A block the header does not list keeps its home contents.
LEMMA ReplayUnlisted ==
  ASSUME NEW head, NEW log, NEW home, NEW b,
         \A i \in 1..Len(head) : head[i] # b
  PROVE  Replay(head, log, home, b) = home[b]
BY Zenon DEF Replay

\* Replaying a log that is already installed changes nothing.
LEMMA ReplayInstalled ==
  ASSUME NEW head \in Seq(Blocks), NEW log, NEW home, Injective(head),
         \A i \in 1..Len(head) : home[head[i]] = log[i], NEW b
  PROVE  Replay(head, log, home, b) = home[b]
<1>1. CASE \A i \in 1..Len(head) : head[i] # b
  BY <1>1, ReplayUnlisted
<1>2. ASSUME NEW i \in 1..Len(head), head[i] = b
      PROVE  Replay(head, log, home, b) = home[b]
  BY <1>2, ReplayListed
<1> QED
  BY Zenon, <1>1, <1>2

\* Steps outside the disk and the buffers leave both views alone.
LEMMA UntouchedSame ==
  ASSUME UNCHANGED <<disk, bufs>>,
         sys' = sys \/ (sys \in {"up", "panic"} /\ sys' \in {"up", "panic"})
  PROVE  Untouched
BY Zenon DEF Untouched, View, Recovered, bread, disk, bufs

\* install_trans changes home blocks only to what a reboot would find there.
LEMMA InstallRecovered ==
  ASSUME TypeOK, HeadInv, lh = dhead, tail \in 1..Len(lh), install_trans
  PROVE  \A b \in Blocks : Recovered(b)' = Recovered(b)
<1> USE DEF TypeOK, DiskType, MemType
<1> SUFFICES ASSUME NEW b \in Blocks PROVE Recovered(b)' = Recovered(b)
  BY Zenon
<1>1. /\ dhead' = dhead /\ dlog' = dlog
      /\ dblk' = [dblk EXCEPT ![lh[tail]] = dlog[tail]]
  BY Zenon DEF install_trans
<1>2. CASE \E i \in 1..Len(dhead) : dhead[i] = b
  BY <1>1, <1>2 DEF Recovered, Replay
<1>3. CASE \A i \in 1..Len(dhead) : dhead[i] # b
  <2>1. Recovered(b) = dblk[b]
    BY <1>3, ReplayUnlisted DEF Recovered
  <2>2. Recovered(b)' = dblk'[b]
    BY Zenon, <1>1, <1>3 DEF Recovered, Replay
  <2> QED
    BY Zenon, <1>1, <1>3, <2>1, <2>2
<1> QED
  BY Zenon, <1>2, <1>3

\* Once every block is installed, erasing the header loses nothing.
LEMMA EraseRecovered ==
  ASSUME TypeOK, HeadInv, lh = dhead, erase_log,
         \A i \in 1..Len(lh) : dblk[lh[i]] = dlog[i]
  PROVE  \A b \in Blocks : Recovered(b) = dblk[b] /\ Recovered(b)' = dblk[b]
<1> USE DEF TypeOK, DiskType, MemType
<1> SUFFICES ASSUME NEW b \in Blocks
             PROVE  Recovered(b) = dblk[b] /\ Recovered(b)' = dblk[b]
  BY Zenon
<1>1. dhead' = <<>> /\ dblk' = dblk
  BY Zenon DEF erase_log
<1>2. Recovered(b)' = dblk[b]
  BY <1>1 DEF Recovered, Replay
<1>3. Recovered(b) = dblk[b]
  <2> HIDE DEF TypeOK, DiskType, MemType
  <2>1. dhead \in Seq(Blocks) /\ Injective(dhead)
    BY Zenon DEF HeadInv, TypeOK, DiskType
  <2>2. \A i \in 1..Len(dhead) : dblk[dhead[i]] = dlog[i]
    BY Zenon
  <2>3. \A head \in Seq(Blocks) : \A log, home :
          Injective(head) /\ (\A i \in 1..Len(head) : home[head[i]] = log[i])
            => Replay(head, log, home, b) = home[b]
    BY ReplayInstalled
  <2>4. Replay(dhead, dlog, dblk, b) = dblk[b]
    BY <2>1, <2>2, <2>3
  <2> QED
    BY Zenon, <2>4 DEF Recovered
<1> QED
  BY Zenon, <1>2, <1>3

\* Outside the installing phase a reboot finds the home blocks.
LEMMA HomeRecovered ==
  ASSUME HeadInv, sys = "up", ~Installing, NEW b \in Blocks
  PROVE  Recovered(b) = dblk[b] /\ dhead = <<>>
BY DEF HeadInv, Recovered, Replay

\* log_write changes what is shown of its one block, and nothing durable.
LEMMA LogWriteEffect ==
  ASSUME ControlInv, DataInv, EnoughLog, NEW p \in Procs, NEW b \in Blocks,
         log_write(p, b)
  PROVE  Modified(op[p], b)
<1>1. TypeOK /\ CallInv /\ CountInv /\ SpaceInv
  BY Zenon DEF ControlInv
<1>2. \A c \in Blocks : Recovered(c)' = Recovered(c)
  BY Zenon DEF log_write, Recovered, disk
<1>3. sys = "up" /\ sys' \in {"up", "panic"} /\ dblk' = dblk
      /\ cache' = [cache EXCEPT ![b] = bread(b) \cup {op[p]}]
      /\ valid' = valid \cup {b}
  BY Zenon DEF log_write, disk
<1>4. \A c \in Blocks : bread(c)' = IF c = b THEN bread(c) \cup {op[p]} ELSE bread(c)
  BY Zenon, <1>1, <1>3 DEF bread, TypeOK, MemType
<1> QED
  BY Zenon, <1>2, <1>3, <1>4 DEF Modified, View

\* write_head is the commit point: what is shown becomes what a reboot finds.
LEMMA WriteHeadEffect ==
  ASSUME ControlInv, DataInv, NEW p \in Procs, write_head(p)
  PROVE  Flushed /\ Active = {}
<1> TypeOK /\ CallInv /\ PhaseInv /\ HeadInv /\ CleanInv /\ CopyInv
  BY Zenon DEF ControlInv, DataInv
<1>1. sys = "up" /\ sys' = "up" /\ UNCHANGED <<dblk, dlog, bufs>> /\ dhead' = lh
      /\ pc[p] = "write_head"
  BY Zenon DEF write_head
<1>2. Active = {} /\ \A b \in Blocks : ~Held(b)
  <2>1. \A q \in Procs : ~InOp(q)
    BY <1>1 DEF PhaseInv, BootInv, CommitInv, LoopInv, Commits, Writes
  <2>2. \A q \in Procs : blk[q] = NoBlock
    BY Zenon, <2>1 DEF CallInv, InOp
  <2> QED
    BY Zenon, <2>1, <2>2, LogConstants DEF Active, Held
<1>3. \A b \in Blocks : View(b)' = bread(b) /\ View(b) = bread(b)
  BY Zenon, <1>1 DEF View, bread, bufs
<1>4. ASSUME NEW b \in Blocks PROVE Recovered(b)' = bread(b)
  <2>1. Recovered(b)' = Replay(lh, dlog, dblk, b)
    BY Zenon, <1>1 DEF Recovered
  <2>2. CASE \A i \in 1..Len(lh) : lh[i] # b
    <3>1. Clean(b)
      BY Zenon, <1>2, <2>2 DEF CleanInv, Logged
    <3> QED
      BY <2>1, <2>2, <3>1, ReplayUnlisted DEF Clean, bread
  <2>3. ASSUME NEW i \in 1..Len(lh), lh[i] = b PROVE Recovered(b)' = bread(b)
    <3>1. Replay(lh, dlog, dblk, b) = dlog[i]
      BY Zenon, <2>3, ReplayListed DEF HeadInv, TypeOK, MemType
    <3>2. bread(b) = dlog[i]
      BY Zenon, <1>1, <2>3 DEF CopyInv
    <3> QED
      BY Zenon, <2>1, <3>1, <3>2
  <2> QED
    BY Zenon, <2>2, <2>3
<1> QED
  BY Zenon, <1>2, <1>3, <1>4 DEF Flushed

\* A power failure loses what is not durable.
LEMMA CrashEffect ==
  ASSUME crash
  PROVE  Dropped
BY Zenon DEF crash, Dropped, View, Recovered, disk

\* No other step of the system changes what is shown or what is durable.
LEMMA QuietEffect ==
  ASSUME ControlInv, DataInv, Next,
         ~\E p \in Procs, b \in Blocks : log_write(p, b),
         ~\E p \in Procs : write_head(p),
         ~crash
  PROVE  Untouched
<1> TypeOK /\ CallInv /\ PhaseInv /\ HeadInv /\ CleanInv /\ CopyInv
  BY Zenon DEF ControlInv, DataInv
<1> USE LogConstants DEF TypeOK, DiskType, MemType, ProcType, disk, bufs, memlog, proc,
                         history
<1>1. ASSUME NEW p \in Procs, begin_op(p) PROVE Untouched
  BY Zenon, <1>1, UntouchedSame DEF begin_op
<1>2. ASSUME NEW p \in Procs, NEW b \in Blocks, log_write(p, b) PROVE Untouched
  BY Zenon, <1>2
<1>3. ASSUME NEW p \in Procs, end_op(p) PROVE Untouched
  BY Zenon, <1>3, UntouchedSame DEF end_op
<1>4. ASSUME NEW p \in Procs, begin_op_again(p) PROVE Untouched
  BY Zenon, <1>4, UntouchedSame DEF begin_op_again
<1>5. ASSUME NEW p \in Procs, log_write_locked(p) PROVE Untouched
  BY Zenon, <1>5 DEF log_write_locked, Untouched, View, Recovered, bread
<1>6. ASSUME NEW p \in Procs, commit(p) PROVE Untouched
  BY Zenon, <1>6, UntouchedSame DEF commit
<1>7. ASSUME NEW p \in Procs, write_log(p) PROVE Untouched
  <2>1. sys = "up" /\ sys' = "up" /\ UNCHANGED <<dblk, dhead>>
        /\ tail \in 1..Len(lh) /\ pc[p] = "write_log"
    BY Zenon, <1>7 DEF write_log, PhaseInv, BootInv, CommitInv, LoopInv
  <2>2. \A b \in Blocks : bread(b)' = bread(b)
    BY Zenon, <1>7, <2>1 DEF write_log, bread
  <2>3. ~Installing
    BY Zenon, <2>1 DEF Installing, PhaseInv, BootInv, CommitInv, LoopInv, Commits, Writes
  <2>4. dhead = <<>>
    BY Zenon, <2>1, <2>3 DEF HeadInv
  <2>5. \A b \in Blocks : Recovered(b) = dblk[b] /\ Recovered(b)' = dblk[b]
    BY <2>1, <2>4, ReplayUnlisted, SMTT(40) DEF Recovered
  <2> QED
    BY Zenon, <2>1, <2>2, <2>5 DEF Untouched, View
<1>8. ASSUME NEW p \in Procs, write_head(p) PROVE Untouched
  BY Zenon, <1>8
<1>9. ASSUME NEW p \in Procs, commit_install(p) PROVE Untouched
  <2>1. sys = "up" /\ sys' = "up" /\ install_trans /\ tail \in 1..Len(lh)
        /\ pc[p] = "install"
    BY Zenon, <1>9 DEF commit_install, PhaseInv, BootInv, CommitInv, LoopInv
  <2>2. lh = dhead
    BY Zenon, <2>1 DEF HeadInv, Installing
  <2>3. \A b \in Blocks : Recovered(b)' = Recovered(b)
    BY Zenon, <2>1, <2>2, InstallRecovered
  <2>4. bread(lh[tail]) = dlog[tail]
    BY Zenon, <2>1 DEF CopyInv
  <2>5. \A b \in Blocks : bread(b)' = bread(b)
    <3>1. /\ dblk' = [dblk EXCEPT ![lh[tail]] = dlog[tail]]
          /\ cache' = [cache EXCEPT ![lh[tail]] = dlog[tail]]
          /\ valid' = valid \cup {lh[tail]}
      BY Zenon, <2>1 DEF install_trans
    <3> QED
      BY Zenon, <2>1, <2>4, <3>1 DEF bread
  <2> QED
    BY Zenon, <2>1, <2>3, <2>5 DEF Untouched, View
<1>10. ASSUME NEW p \in Procs, commit_erase(p) PROVE Untouched
  <2>1. sys = "up" /\ sys' = "up" /\ erase_log /\ pc[p] = "erase"
        /\ UNCHANGED <<dblk, bufs>>
    BY Zenon, <1>10 DEF commit_erase, erase_log
  <2>2. lh = dhead /\ \A i \in 1..Len(lh) : dblk[lh[i]] = dlog[i]
    BY Zenon, <2>1 DEF HeadInv, Installing, CopyInv
  <2>3. \A b \in Blocks : Recovered(b)' = Recovered(b)
    BY Zenon, <2>1, <2>2, EraseRecovered
  <2> QED
    BY Zenon, <2>1, <2>3 DEF Untouched, View, bread
<1>11. ASSUME NEW p \in Procs, end_op_finish(p) PROVE Untouched
  BY Zenon, <1>11, UntouchedSame DEF end_op_finish
<1>12. ASSUME NEW b \in Blocks, bget_recycle(b) PROVE Untouched
  <2>1. sys' = sys /\ UNCHANGED disk
    BY Zenon, <1>12 DEF bget_recycle
  <2>2. \A c \in Blocks : bread(c)' = bread(c)
    BY Zenon, <1>12 DEF bget_recycle, Recyclable, bread, CleanInv, Clean, Held
  <2> QED
    BY Zenon, <2>1, <2>2 DEF Untouched, View, Recovered
<1>13. CASE read_head
  <2>1. sys = "head" /\ sys' \in {"install", "erase"} /\ UNCHANGED disk
    BY Zenon, <1>13 DEF read_head
  <2> QED
    BY Zenon, <2>1 DEF Untouched, View, Recovered
<1>14. CASE recover_install
  <2>1. sys = "install" /\ sys' \in {"install", "erase"} /\ install_trans
        /\ tail \in 1..Len(lh)
    BY <1>14 DEF recover_install, PhaseInv, BootInv, CommitInv, LoopInv
  <2>2. lh = dhead
    BY Zenon, <2>1 DEF HeadInv
  <2>3. \A b \in Blocks : Recovered(b)' = Recovered(b)
    BY Zenon, <2>1, <2>2, InstallRecovered
  <2> QED
    BY Zenon, <2>1, <2>3 DEF Untouched, View
<1>15. CASE recover_erase
  <2>1. sys = "erase" /\ sys' = "up" /\ erase_log /\ UNCHANGED <<dblk, bufs>>
    BY Zenon, <1>15 DEF recover_erase, erase_log
  <2>2. lh = dhead /\ \A i \in 1..Len(lh) : dblk[lh[i]] = dlog[i]
    BY Zenon, <2>1 DEF HeadInv, CopyInv
  <2>3. \A b \in Blocks : Recovered(b) = dblk[b] /\ Recovered(b)' = dblk[b]
    BY <2>1, <2>2, EraseRecovered
  <2>4. \A b \in Blocks : bread(b)' = dblk[b]
    BY Zenon, <2>1 DEF CleanInv, Clean, bread
  <2> QED
    BY <2>1, <2>3, <2>4 DEF Untouched, View
<1>16. CASE crash
  BY Zenon, <1>16
<1>17. CASE Quiesced
  BY <1>17, UntouchedSame DEF Quiesced, vars
<1> QED
  BY Zenon, <1>1, <1>2, <1>3, <1>4, <1>5, <1>6, <1>7, <1>8, <1>9, <1>10, <1>11,
     <1>12, <1>13, <1>14, <1>15, <1>16, <1>17 DEF Next, Step, Recover

-----------------------------------------------------------------------------
(* Crash atomicity and durability.                                         *)

\* Only log_write modifies blocks, and a call starts having written none.
LEMMA CallsGrow ==
  ASSUME ControlInv, Next, ~\E p \in Procs, b \in Blocks : log_write(p, b)
  PROVE  /\ wrote' = wrote
         /\ \A q \in Procs : InOp(q)' => \/ InOp(q) /\ op'[q] = op[q]
                                         \/ wrote[op'[q]] = {}
<1> DEFINE G == /\ wrote' = wrote
                /\ \A q \in Procs : InOp(q)' => \/ InOp(q) /\ op'[q] = op[q]
                                                \/ wrote[op'[q]] = {}
<1> SUFFICES G
  BY Zenon
<1> TypeOK /\ CallInv /\ PhaseInv
  BY Zenon DEF ControlInv
<1> USE LogConstants DEF TypeOK, MemType, ProcType, disk, bufs, memlog, proc,
                         history, InOp
<1>1. ASSUME NEW p \in Procs, begin_op(p) PROVE G
  <2>1. wrote[nextop] = {}
    BY <1>1, SMTT(40) DEF begin_op, CallInv, OpIds
  <2> QED
    BY Zenon, <1>1, <2>1 DEF begin_op, enter
<1>2. ASSUME NEW p \in Procs, NEW b \in Blocks, log_write(p, b) PROVE G
  BY Zenon, <1>2
<1>3. ASSUME NEW p \in Procs, end_op(p) PROVE G
  <2>1. wrote' = wrote /\ op' = op
    BY Zenon, <1>3 DEF end_op
  <2>2. \A q \in Procs : pc'[q] = pc[q] \/ pc'[q] \in {"idle", "woken", "commit"}
    <3>1. CASE pc' = [wakeup(pc) EXCEPT ![p] = "idle"]
      BY Zenon, <3>1 DEF wakeup
    <3>2. CASE pc' = [pc EXCEPT ![p] = "commit"] \/ pc' = pc
      BY Zenon, <3>2
    <3> QED
      BY Zenon, <1>3, <3>1, <3>2 DEF end_op
  <2> QED
    BY Zenon, <2>1, <2>2
<1>4. ASSUME NEW p \in Procs, begin_op_again(p) PROVE G
  <2>1. wrote[op[p]] = {}
    BY Zenon, <1>4 DEF begin_op_again, CallInv
  <2> QED
    BY Zenon, <1>4, <2>1 DEF begin_op_again, enter
<1>5. ASSUME NEW p \in Procs, log_write_locked(p) PROVE G
  BY Zenon, <1>5 DEF log_write_locked
<1>6. ASSUME NEW p \in Procs, commit(p) PROVE G
  BY Zenon, <1>6 DEF commit
<1>7. ASSUME NEW p \in Procs, write_log(p) PROVE G
  BY Zenon, <1>7 DEF write_log
<1>8. ASSUME NEW p \in Procs, write_head(p) PROVE G
  BY Zenon, <1>8 DEF write_head
<1>9. ASSUME NEW p \in Procs, commit_install(p) PROVE G
  BY Zenon, <1>9 DEF commit_install, install_trans
<1>10. ASSUME NEW p \in Procs, commit_erase(p) PROVE G
  BY Zenon, <1>10 DEF commit_erase, erase_log
<1>11. ASSUME NEW p \in Procs, end_op_finish(p) PROVE G
  BY Zenon, <1>11 DEF end_op_finish, wakeup
<1>12. ASSUME NEW b \in Blocks, bget_recycle(b) PROVE G
  BY Zenon, <1>12 DEF bget_recycle, Recyclable
<1>13. CASE read_head
  BY Zenon, <1>13 DEF read_head
<1>14. CASE recover_install
  BY Zenon, <1>14 DEF recover_install, install_trans
<1>15. CASE recover_erase
  BY Zenon, <1>15 DEF recover_erase, erase_log
<1>16. CASE crash
  BY Zenon, <1>16 DEF crash
<1>17. CASE Quiesced
  BY Zenon, <1>17 DEF Quiesced, vars
<1> QED
  BY <1>1, <1>2, <1>3, <1>4, <1>5, <1>6, <1>7, <1>8, <1>9, <1>10, <1>11,
     <1>12, <1>13, <1>14, <1>15, <1>16, <1>17 DEF Next, Step, Recover

\* A call stays all or nothing, for readers and for a reboot.
LEMMA AtomStep ==
  ASSUME IInv, EnoughLog, Next
  PROVE  AtomInv'
<1> ControlInv /\ DataInv /\ AtomInv /\ TypeOK
  BY Zenon DEF IInv, ControlInv
<1> HIDE DEF View, Recovered
<1>1. ASSUME NEW p \in Procs, NEW b \in Blocks, log_write(p, b) PROVE AtomInv'
  <2>1. Modified(op[p], b)
    BY Zenon, <1>1, LogWriteEffect
  <2>2. /\ op[p] \in OpIds /\ op' = op /\ InOp(p)
        /\ wrote' = [wrote EXCEPT ![op[p]] = @ \cup {b}]
    BY Zenon, <1>1 DEF log_write, CallInv, ControlInv, InOp
  <2>3. \A q \in Procs : InOp(q)' => InOp(q)
    BY Zenon, <1>1 DEF log_write, InOp, TypeOK, ProcType
  <2>4. \A o \in OpIds : wrote'[o] = IF o = op[p] THEN wrote[o] \cup {b} ELSE wrote[o]
    BY Zenon, <2>2 DEF TypeOK, ProcType
  <2>5. \A o \in OpIds : wrote[o] \in SUBSET Blocks
    BY Zenon DEF TypeOK, ProcType
  <2> SUFFICES ASSUME NEW o \in OpIds PROVE AtomOf(o)'
    BY Zenon DEF AtomInv
  <2>6. CASE o = op[p]
    <3>1. (\A c \in wrote[o] : o \in View(c)) /\ (\A c \in Blocks : o \notin Recovered(c))
      BY Zenon, <2>2, <2>6 DEF AtomInv, AtomOf
    <3>2. wrote'[o] = wrote[o] \cup {b} /\ wrote[o] \subseteq Blocks
      BY Zenon, <2>4, <2>5, <2>6
    <3>3. \A c \in Blocks : /\ c = b => o \in View(c)'
                            /\ c # b => View(c)' = View(c)
                            /\ Recovered(c)' = Recovered(c)
      <4> HIDE DEF AtomInv, AtomOf
      <4> QED BY Zenon, <2>1, <2>6 DEF Modified
    <3>4. \A c \in wrote'[o] : o \in View(c)'
      BY Zenon, <3>1, <3>2, <3>3
    <3>5. \A c \in Blocks : o \notin Recovered(c)'
      BY Zenon, <3>1, <3>3
    <3>6. \A c \in Blocks : o \in View(c)' => c \in wrote'[o]
      <4>1. \A c \in Blocks : o \in View(c) => c \in wrote[o]
        BY Zenon DEF AtomInv, AtomOf
      <4> QED
        BY Zenon, <3>2, <3>3, <4>1
    <3> QED
      BY Zenon, <3>4, <3>5, <3>6 DEF AtomOf
  <2>7. CASE o # op[p]
    <3>1. wrote'[o] = wrote[o]
      BY Zenon, <2>4, <2>7
    <3>2. \A c \in Blocks : (o \in View(c)' <=> o \in View(c)) /\ Recovered(c)' = Recovered(c)
      BY Zenon, <2>1, <2>7 DEF Modified
    <3> QED
      BY <2>2, <2>3, <2>5, <3>1, <3>2, SMTT(40) DEF AtomInv, AtomOf
  <2> QED
    BY Zenon, <2>6, <2>7
<1>2. ASSUME ~\E p \in Procs, b \in Blocks : log_write(p, b) PROVE AtomInv'
  <2> SUFFICES ASSUME NEW o \in OpIds PROVE AtomOf(o)'
    BY Zenon DEF AtomInv
  <2>0. AtomOf(o)
    BY Zenon DEF AtomInv
  <2>1. /\ wrote'[o] = wrote[o] /\ wrote[o] \subseteq Blocks
        /\ \A q \in Procs : InOp(q)' /\ op'[q] = o =>
              \/ InOp(q) /\ op[q] = o
              \/ wrote[o] = {}
    BY Zenon, <1>2, CallsGrow DEF TypeOK, ProcType
  <2>2. CASE Untouched
    <3>1. \A b \in Blocks : View(b)' = View(b) /\ Recovered(b)' = Recovered(b)
      BY Zenon, <2>2 DEF Untouched
    <3>2. \A q \in Procs : InOp(q)' /\ op'[q] = o =>
            (\A b \in wrote[o] : o \in View(b)) /\ (\A b \in Blocks : o \notin Recovered(b))
      BY Zenon, <2>0, <2>1 DEF AtomOf
    <3> QED
      BY Zenon, <2>0, <2>1, <3>1, <3>2 DEF AtomOf
  <2>3. ASSUME NEW p \in Procs, write_head(p) PROVE AtomOf(o)'
    <3>1. Flushed /\ Active = {}
      BY Zenon, <2>3, WriteHeadEffect
    <3>2. \A q \in Procs : ~InOp(q)'
      BY Zenon, <2>3, <3>1 DEF write_head, InOp, Active, TypeOK, ProcType
    <3>3. \A b \in Blocks : View(b)' = View(b) /\ Recovered(b)' = View(b)
      BY Zenon, <3>1 DEF Flushed
    <3> QED
      BY Zenon, <2>0, <2>1, <3>2, <3>3 DEF AtomOf
  <2>4. CASE crash
    <3>1. \A q \in Procs : ~InOp(q)'
      BY Zenon, <2>4 DEF crash, InOp
    <3>2. \A b \in Blocks : View(b)' = Recovered(b) /\ Recovered(b)' = Recovered(b)
      BY Zenon, <2>4, CrashEffect DEF Dropped
    <3> QED
      BY Zenon, <2>0, <2>1, <3>1, <3>2 DEF AtomOf
  <2> QED
    BY Zenon, <1>2, <2>2, <2>3, <2>4, QuietEffect
<1> QED
  BY Zenon, <1>1, <1>2

\* The whole inductive invariant.
LEMMA IInvStep ==
  ASSUME IInv, EnoughLog, [Next]_vars
  PROVE  IInv'
<1>1. CASE Next
  <2>1. ControlInv' /\ HeadInv' /\ CleanInv' /\ CopyInv' /\ AtomInv'
    BY Zenon, <1>1, ControlStep, HeadStep, CleanStep, CopyStep, AtomStep DEF IInv
  <2> QED
    BY <2>1 DEF IInv, DataInv
<1>2. CASE UNCHANGED vars
  <2>1. ControlInv'
    BY Zenon, ControlStep DEF IInv
  <2>2. HeadInv' /\ CleanInv' /\ CopyInv'
    <3> USE <1>2 DEF vars, disk, bufs, memlog, proc
    <3>1. HeadInv'
      BY DEF IInv, DataInv, HeadInv, Installing, Injective
    <3>2. CleanInv'
      BY Zenon DEF IInv, DataInv, CleanInv, Clean, Held, Logged
    <3>3. CopyInv'
      BY Zenon DEF IInv, DataInv, CopyInv, bread
    <3> QED
      BY Zenon, <3>1, <3>2, <3>3
  <2>3. AtomInv'
    BY <1>2 DEF IInv, AtomInv, AtomOf, View, Recovered, bread, InOp, vars, disk, bufs,
       proc, history
  <2> QED
    BY Zenon, <2>1, <2>2, <2>3 DEF IInv, DataInv
<1> QED
  BY Zenon, <1>1, <1>2

\* A newly made file system satisfies it.
LEMMA InitIInv == Init => IInv
<1> SUFFICES ASSUME Init PROVE IInv
  BY Zenon
<1>1. ControlInv
  BY Zenon, InitControl
<1>2. DataInv
  BY DEF Init, DataInv, HeadInv, CleanInv, CopyInv, Clean, Installing, Injective
<1>3. \A b \in Blocks : View(b) = {} /\ Recovered(b) = {}
  BY DEF Init, View, Recovered, Replay
<1>4. AtomInv
  BY Zenon, <1>3 DEF Init, AtomInv, AtomOf, InOp
<1> QED
  BY Zenon, <1>1, <1>2, <1>4 DEF IInv

\* The invariant of LogInv holds in every reachable state (log.c:53-233).
THEOREM LogInvariant ==
  ASSUME EnoughLog
  PROVE  Spec => []IInv
<1>1. IInv /\ [Next]_vars => IInv'
  BY Zenon, IInvStep
<1> QED
  BY InitIInv, <1>1, PTL DEF Spec

\* Crash atomicity: a power failure at any point of any interleaving of
\* calls, commits and recoveries leaves each call wholly on disk or wholly
\* absent from it (log.c:9-15, 115-122, 192-202).
THEOREM LogCrashAtomic ==
  ASSUME EnoughLog
  PROVE  Spec => []CrashAtomic
<1>1. IInv => CrashAtomic
  BY Zenon DEF IInv, ControlInv, TypeOK, ProcType, AtomInv, AtomOf, CrashAtomic
<1> QED
  BY <1>1, LogInvariant, PTL

\* Once end_op has returned with no other call in progress, nothing is left
\* only in memory (log.c:143-174).
THEOREM LogQuietIsDurable ==
  ASSUME EnoughLog
  PROVE  Spec => []QuietIsDurable
<1>1. IInv => QuietIsDurable
  <2> SUFFICES ASSUME IInv, sys = "up", outstanding = 0, committing = 0,
                      NEW b \in Blocks
               PROVE  bread(b) = Recovered(b)
    BY Zenon DEF QuietIsDurable
  <2> TypeOK /\ CallInv /\ CountInv /\ PhaseInv /\ HeadInv /\ CleanInv
    BY Zenon DEF IInv, ControlInv, DataInv
  <2>1. Active = {}
    BY Zenon, ActiveCount DEF Active
  <2>2. lh = <<>> /\ ~Installing /\ ~Held(b)
    <3>1. \A q \in Procs : blk[q] = NoBlock
      BY Zenon, <2>1 DEF CallInv, Active, InOp
    <3>2. ~Installing
      BY DEF Installing, PhaseInv, BootInv, CommitInv, LoopInv, Commits, Writes
    <3> QED
      BY Zenon, <2>1, <3>1, <3>2, LogConstants DEF PhaseInv, BootInv, CommitInv, LoopInv, Held
  <2>3. Clean(b)
    BY <2>2 DEF CleanInv, Logged
  <2>4. Recovered(b) = dblk[b]
    BY Zenon, <2>2, HomeRecovered
  <2> QED
    BY Zenon, <2>3, <2>4 DEF Clean, bread
<1> QED
  BY <1>1, LogInvariant, PTL

\* What is durable stays durable: no later call, commit, recycled buffer,
\* power failure or recovery takes a committed call back (log.c:98-100).
THEOREM LogCommittedStays ==
  ASSUME EnoughLog
  PROVE  Spec => CommittedStays
<1> DEFINE Keeps == \A o \in OpIds :
                      wrote[o] # {} /\ Committed(o) => Committed(o)'
<1>1. IInv /\ [Next]_vars => [Keeps]_vars
  <2> SUFFICES ASSUME IInv, Next, NEW o \in OpIds, wrote[o] # {}, Committed(o)
               PROVE  Committed(o)'
    BY Zenon
  <2> ControlInv /\ DataInv /\ AtomInv /\ TypeOK
    BY Zenon DEF IInv, ControlInv
  <2> HIDE DEF View, Recovered
  <2>0. wrote[o] \in SUBSET Blocks
    BY Zenon DEF TypeOK, ProcType
  <2>1. ASSUME NEW p \in Procs, NEW b \in Blocks, log_write(p, b)
        PROVE  Committed(o)'
    <3>1. Modified(op[p], b)
      BY Zenon, <2>1, LogWriteEffect
    <3>2. InOp(p) /\ op[p] \in OpIds
      BY <2>1 DEF log_write, InOp, CallInv, ControlInv
    <3>3. o # op[p]
      BY Zenon, <2>0, <3>2 DEF AtomInv, AtomOf, Committed
    <3>4. wrote'[o] = wrote[o]
      BY Zenon, <2>1, <3>2, <3>3 DEF log_write, TypeOK, ProcType
    <3> QED
      BY Zenon, <2>0, <3>1, <3>4 DEF Modified, Committed
  <2>2. ASSUME ~\E p \in Procs, b \in Blocks : log_write(p, b)
        PROVE  Committed(o)'
    <3>1. wrote' = wrote
      BY Zenon, <2>2, CallsGrow
    <3>2. CASE Untouched \/ Dropped
      BY Zenon, <2>0, <3>1, <3>2 DEF Untouched, Dropped, Committed
    <3>3. CASE Flushed
      BY <2>0, <3>1, <3>3 DEF Flushed, Committed, AtomInv, AtomOf
    <3> QED
      BY <2>2, <3>2, <3>3, QuietEffect, WriteHeadEffect, CrashEffect
  <2> QED
    BY Zenon, <2>1, <2>2
<1> QED
  BY <1>1, LogInvariant, PTL DEF CommittedStays, Spec

-----------------------------------------------------------------------------
(* Log implements AtomicDisk.                                              *)

\* Both views are functions from blocks to sets of calls.
LEMMA ViewType ==
  ASSUME IInv, NEW b \in Blocks
  PROVE  View(b) \in SUBSET OpIds /\ Recovered(b) \in SUBSET OpIds
<1> TypeOK /\ HeadInv
  BY Zenon DEF IInv, ControlInv, DataInv
<1> USE DEF TypeOK, DiskType, MemType
<1>1. Recovered(b) \in SUBSET OpIds
  <2>1. CASE \A i \in 1..Len(dhead) : dhead[i] # b
    BY <2>1, ReplayUnlisted DEF Recovered
  <2>2. ASSUME NEW i \in 1..Len(dhead), dhead[i] = b
        PROVE  Recovered(b) \in SUBSET OpIds
    <3>1. Replay(dhead, dlog, dblk, b) = dlog[i]
      BY <2>2, ReplayListed DEF HeadInv
    <3> QED
      BY <2>2, <3>1, LogConstants DEF Recovered
  <2> QED
    BY Zenon, <2>1, <2>2
<1> QED
  BY Zenon, <1>1 DEF View, bread

\* Every step of the log is a step of the abstract disk, or invisible to it.
LEMMA AtomicStep ==
  ASSUME IInv, EnoughLog, Next
  PROVE  [Atomic!Next]_(Atomic!vars)
<1> ControlInv /\ DataInv /\ TypeOK /\ CountInv /\ PhaseInv
  BY Zenon DEF IInv, ControlInv
<1> HIDE DEF View, Recovered
<1> DEFINE view == [b \in Blocks |-> View(b)]
           durable == [b \in Blocks |-> Recovered(b)]
<1>1. ASSUME NEW p \in Procs, NEW c \in Blocks, log_write(p, c)
      PROVE  Atomic!Write(c)
  <2>1. InOp(p) /\ op[p] \in OpIds /\ outstanding' = outstanding
    BY Zenon, <1>1 DEF log_write, InOp, CallInv, ControlInv, memlog
  <2>2. outstanding > 0
    BY <2>1, ActiveCount
  <2>3. Modified(op[p], c)
    BY Zenon, <1>1, LogWriteEffect
  <2>4. durable' = durable
    BY Zenon, <2>3 DEF Modified
  <2>5. view' = [view EXCEPT ![c] = View(c) \cup {op[p]}]
    BY Zenon, <2>3 DEF Modified
  <2>6. View(c) \cup {op[p]} \in SUBSET OpIds
    BY Zenon, <2>1, ViewType
  <2> QED
    BY Zenon, <2>1, <2>2, <2>4, <2>5, <2>6 DEF Atomic!Write
<1>2. ASSUME NEW p \in Procs, write_head(p) PROVE Atomic!Commit
  <2>1. Flushed /\ Active = {}
    BY Zenon, <1>2, WriteHeadEffect
  <2>2. outstanding = 0 /\ outstanding' = outstanding
    BY Zenon, <1>2, <2>1, FS_EmptySet DEF write_head, CountInv
  <2>3. durable' = view /\ view' = view
    BY Zenon, <2>1 DEF Flushed
  <2> QED
    BY Zenon, <2>2, <2>3 DEF Atomic!Commit
<1>3. CASE crash
  <2>1. Dropped /\ outstanding' = 0
    BY Zenon, <1>3, CrashEffect DEF crash
  <2>2. view' = durable /\ durable' = durable
    BY <2>1 DEF Dropped
  <2> QED
    BY Zenon, <2>1, <2>2 DEF Atomic!Crash, Atomic!Next
<1>4. CASE /\ ~crash
           /\ ~\E p \in Procs : write_head(p)
           /\ ~\E p \in Procs, b \in Blocks : log_write(p, b)
  <2>1. view' = view /\ durable' = durable
    BY Zenon, <1>4, QuietEffect DEF Untouched
  <2>2. \/ outstanding' = outstanding
        \/ outstanding' = outstanding + 1
        \/ outstanding' = outstanding - 1 /\ outstanding > 0
    <3>1. ASSUME NEW p \in Procs, end_op(p)
          PROVE  outstanding' = outstanding - 1 /\ outstanding > 0
      <4>1. outstanding' = outstanding - 1 /\ InOp(p)
        BY Zenon, <3>1 DEF end_op, InOp
      <4> QED
        BY <4>1, ActiveCount
    <3> QED
      BY <1>4, <3>1 DEF Next, Step, Recover, begin_op, begin_op_again, enter,
         log_write_locked, commit, write_log, commit_install, install_trans,
         commit_erase, erase_log, end_op_finish, bget_recycle, read_head,
         recover_install, recover_erase, Quiesced, vars, memlog
  <2> QED
    BY Zenon, <2>1, <2>2 DEF Atomic!Next, Atomic!Begin, Atomic!End, Atomic!vars
<1> QED
  BY Zenon, <1>1, <1>2, <1>3, <1>4 DEF Atomic!Next

\* The log implements a disk whose updates become durable all at once and
\* only while no call is in progress, across any number of power failures:
\* the promise log.c:9-15 makes to the file system above it.
THEOREM LogImplementsAtomicDisk ==
  ASSUME EnoughLog
  PROVE  Spec => ImplementsAtomicDisk
<1>1. Init => Atomic!Init
  <2> SUFFICES ASSUME Init PROVE Atomic!Init
    BY Zenon
  <2>1. \A b \in Blocks : View(b) = {} /\ Recovered(b) = {}
    BY DEF Init, View, Recovered, Replay
  <2> QED
    BY Zenon, <2>1 DEF Init, Atomic!Init
<1>2. IInv /\ [Next]_vars => [Atomic!Next]_(Atomic!vars)
  <2>1. ASSUME UNCHANGED vars PROVE UNCHANGED Atomic!vars
    BY Zenon, <2>1 DEF vars, Atomic!vars, View, Recovered, bread, disk, bufs, memlog
  <2> QED
    BY Zenon, <2>1, AtomicStep
<1> QED
  BY <1>1, <1>2, LogInvariant, PTL DEF Spec, ImplementsAtomicDisk, Atomic!Spec
=============================================================================
