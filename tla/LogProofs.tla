----------------------------- MODULE LogProofs ------------------------------
(***************************************************************************)
(* The control invariant of LogInv is inductive, for every set of          *)
(* processes and blocks and every size of log; what it implies.  First,    *)
(* what each step of Log keeps of the types, of the calls in progress and  *)
(* of the log space promised to them.                                      *)
(***************************************************************************)
EXTENDS LogInv, FiniteSetTheorems, TLAPS

(* The writes an operation may make are finitely many. *)
LEMMA OpIsFinite == IsFiniteSet(1..MAXOPBLOCKS)
<1>1. 1 \in Int /\ MAXOPBLOCKS \in Int
  BY LogConstants
<1>2. QED
  BY Zenon, <1>1, FS_Interval

USE DEF PCs

-----------------------------------------------------------------------------
(* The control invariant.                                                  *)

\* While a process is inside a call, log.outstanding is positive.
LEMMA ActiveCount ==
  ASSUME TypeOK, CountInv, NEW p \in Procs, InOp(p)
  PROVE  outstanding \in Nat \ {0}
<1> Active \in SUBSET Procs /\ p \in Active
  BY Zenon DEF Active
<1> QED
  BY Zenon, FS_Subset, FS_EmptySet, FS_CardinalityType, LogConstants
  DEF CountInv

\* Every initial state satisfies the control invariant.
LEMMA InitControl == Init => ControlInv
<1> SUFFICES ASSUME Init PROVE ControlInv
  BY Zenon
<1> USE LogConstants DEF Init, OpIds
<1>1. DiskType
  BY DEF DiskType
<1>2. MemType
  BY DEF MemType
<1>3. ProcType
  BY DEF ProcType
<1>4. Active = {} /\ Tokens = {}
  BY Zenon DEF Active, Tokens, InOp
<1>5. CallInv
  BY FS_EmptySet DEF CallInv
<1>6. PhaseInv
  BY DEF PhaseInv, BootInv, CommitInv, LoopInv, Commits, Writes
<1>8. CountInv
  BY Zenon, <1>4, FS_EmptySet DEF CountInv
<1>7. SpaceInv
  BY <1>4, FS_EmptySet DEF SpaceInv
<1> QED
  BY Zenon, <1>1, <1>2, <1>3, <1>5, <1>6, <1>7, <1>8 DEF ControlInv, TypeOK

\* Every step keeps the types, given that the log's space is not exceeded.
LEMMA TypeStep ==
  ASSUME ControlInv, Next, SpaceInv'
  PROVE  TypeOK'
<1> DEFINE Goal == DiskType' /\ MemType' /\ ProcType'
<1> TypeOK /\ CallInv /\ CountInv /\ PhaseInv
  BY Zenon DEF ControlInv
<1> USE LogConstants DEF TypeOK, DiskType, MemType, ProcType, disk, bufs,
                         memlog, proc, history, OpIds
<1>1. ASSUME NEW p \in Procs, begin_op(p) PROVE Goal
  <2>1. DiskType' BY Zenon, <1>1 DEF begin_op
  <2>2. MemType' BY <1>1 DEF begin_op, enter
  <2>3. ProcType'
    <3>1. pc' \in [Procs -> PCs] BY <1>1 DEF begin_op, enter
    <3>2. op' \in [Procs -> OpIds \cup {0}] BY Zenon, <1>1 DEF begin_op
    <3>3. nextop' \in 1..MaxOps + 1 BY <1>1 DEF begin_op
    <3> QED BY Zenon, <1>1, <3>1, <3>2, <3>3 DEF begin_op
  <2> QED BY Zenon, <2>1, <2>2, <2>3
<1>2. ASSUME NEW p \in Procs, NEW b \in Blocks, log_write(p, b) PROVE Goal
  <2>0. op[p] \in OpIds BY Zenon, <1>2 DEF log_write, CallInv
  <2>1. DiskType' BY Zenon, <1>2 DEF log_write
  <2>2. MemType'
    <3>1. bread(b) \cup {op[p]} \in SUBSET OpIds BY Zenon, <2>0 DEF bread
    <3>2. cache' \in [Blocks -> SUBSET OpIds] BY Zenon, <1>2, <3>1 DEF log_write
    <3>3. valid' \subseteq Blocks /\ dirty' = dirty BY Zenon, <1>2 DEF log_write
    <3>4. sys' \in {"head", "install", "erase", "up", "panic"} BY Zenon, <1>2 DEF log_write
    <3>5. UNCHANGED <<lh, outstanding, committing, tail>> BY Zenon, <1>2 DEF log_write
    <3> QED BY Zenon, <3>2, <3>3, <3>4, <3>5
  <2>3. ProcType'
    <3>0. pc' = pc \/ pc' = [pc EXCEPT ![p] = "locked"] BY ONLY Zenon, <1>2 DEF log_write
    <3>1. pc' \in [Procs -> PCs] BY Zenon, <3>0
    <3>2. blk' \in [Procs -> Blocks \cup {NoBlock}] BY Zenon, <1>2 DEF log_write
    <3>3. wrote' \in [OpIds -> SUBSET Blocks] BY Zenon, <1>2, <2>0 DEF log_write
    <3> QED BY Zenon, <1>2, <3>1, <3>2, <3>3 DEF log_write
  <2> QED BY Zenon, <2>1, <2>2, <2>3
<1>3. ASSUME NEW p \in Procs, end_op(p) PROVE Goal
  <2>0. outstanding \in Nat \ {0} BY Zenon, <1>3, ActiveCount DEF end_op, InOp
  <2>1. DiskType' BY Zenon, <1>3 DEF end_op
  <2>2. MemType'
    <3>1. outstanding' \in Nat BY <1>3, <2>0 DEF end_op
    <3>2. sys' \in {"up", "panic"} /\ committing' \in {0, 1} BY Zenon, <1>3 DEF end_op
    <3>3. UNCHANGED <<valid, dirty, cache, lh, tail>> BY Zenon, <1>3 DEF end_op
    <3> QED BY Zenon, <3>1, <3>2, <3>3
  <2>3. ProcType'
    <3>0. \/ pc' = pc \/ pc' = [pc EXCEPT ![p] = "commit"]
          \/ pc' = [wakeup(pc) EXCEPT ![p] = "idle"]
      BY ONLY Zenon, <1>3 DEF end_op
    <3>1. pc' \in [Procs -> PCs] BY <3>0 DEF wakeup
    <3> QED BY Zenon, <1>3, <3>1 DEF end_op
  <2> QED BY Zenon, <2>1, <2>2, <2>3
<1>4. ASSUME NEW p \in Procs, begin_op_again(p) PROVE Goal
  <2>1. DiskType' BY Zenon, <1>4 DEF begin_op_again
  <2>2. MemType' BY <1>4 DEF begin_op_again, enter
  <2>3. ProcType' BY Zenon, <1>4 DEF begin_op_again, enter
  <2> QED BY Zenon, <2>1, <2>2, <2>3
<1>5. ASSUME NEW p \in Procs, log_write_locked(p) PROVE Goal
  <2>0. blk[p] \in Blocks BY Zenon, <1>5 DEF log_write_locked, CallInv
  <2>1. DiskType' BY Zenon, <1>5 DEF log_write_locked
  <2>2. lh' \in Seq(Blocks) BY <1>5, <2>0 DEF log_write_locked, absorb
  <2>3. Tokens' \in SUBSET (Procs \X (1..MAXOPBLOCKS)) BY Zenon DEF Tokens
  <2>4. Cardinality(Tokens') \in Nat
    <3>1. IsFiniteSet(1..MAXOPBLOCKS) BY Zenon, OpIsFinite
    <3>2. IsFiniteSet(Procs \X (1..MAXOPBLOCKS)) BY Zenon, <3>1, FS_Product
    <3>3. IsFiniteSet(Tokens') BY Zenon, <2>3, <3>2, FS_Subset
    <3> QED BY Zenon, <3>3, FS_CardinalityType
  <2>5. Len(lh') <= LOGSIZE
    BY <2>2, <2>4 DEF SpaceInv
  <2>6. MemType' BY Zenon, <1>5, <2>0, <2>2, <2>5 DEF log_write_locked, pin
  <2>7. ProcType' BY Zenon, <1>5 DEF log_write_locked
  <2> QED BY Zenon, <2>1, <2>6, <2>7
<1>6. ASSUME NEW p \in Procs, commit(p) PROVE Goal
  BY <1>6 DEF commit
<1>7. ASSUME NEW p \in Procs, write_log(p) PROVE Goal
  <2>0. tail \in 1..Len(lh) BY Zenon, <1>7 DEF write_log, PhaseInv, BootInv, CommitInv, LoopInv
  <2>1. DiskType' BY <1>7, <2>0 DEF write_log, bread
  <2>2. MemType' BY <1>7, <2>0 DEF write_log, bread
  <2>3. ProcType' BY Zenon, <1>7 DEF write_log
  <2> QED BY Zenon, <2>1, <2>2, <2>3
<1>8. ASSUME NEW p \in Procs, write_head(p) PROVE Goal
  BY <1>8 DEF write_head
<1>9. ASSUME NEW p \in Procs, commit_install(p) PROVE Goal
  <2>0. tail \in 1..LOGSIZE /\ lh[tail] \in Blocks
    BY <1>9 DEF commit_install, PhaseInv, BootInv, CommitInv, LoopInv
  <2>00. dlog[tail] \in SUBSET OpIds BY Zenon, <2>0
  <2>1. DiskType' BY Zenon, <1>9, <2>0, <2>00 DEF commit_install, install_trans
  <2>2. MemType' BY <1>9, <2>0, <2>00 DEF commit_install, install_trans
  <2>3. ProcType' BY Zenon, <1>9 DEF commit_install, install_trans
  <2> QED BY Zenon, <2>1, <2>2, <2>3
<1>10. ASSUME NEW p \in Procs, commit_erase(p) PROVE Goal
  BY <1>10 DEF commit_erase, erase_log
<1>11. ASSUME NEW p \in Procs, end_op_finish(p) PROVE Goal
  BY Zenon, <1>11 DEF end_op_finish, wakeup
<1>12. ASSUME NEW b \in Blocks, bget_recycle(b) PROVE Goal
  BY Zenon, <1>12 DEF bget_recycle
<1>13. CASE read_head
  BY <1>13 DEF read_head
<1>14. CASE recover_install
  <2>0. tail \in 1..LOGSIZE /\ lh[tail] \in Blocks
    BY <1>14 DEF recover_install, PhaseInv, BootInv, CommitInv, LoopInv
  <2>00. dlog[tail] \in SUBSET OpIds BY Zenon, <2>0
  <2>1. DiskType' BY Zenon, <1>14, <2>0, <2>00 DEF recover_install, install_trans
  <2>2. MemType' BY <1>14, <2>0, <2>00 DEF recover_install, install_trans
  <2>3. ProcType' BY Zenon, <1>14 DEF recover_install, install_trans
  <2> QED BY Zenon, <2>1, <2>2, <2>3
<1>15. CASE recover_erase
  BY <1>15 DEF recover_erase, erase_log
<1>16. CASE crash
  <2>1. DiskType' BY Zenon, <1>16 DEF crash
  <2>2. MemType' BY <1>16 DEF crash
  <2>3. ProcType' BY <1>16 DEF crash
  <2> QED BY Zenon, <2>1, <2>2, <2>3
<1>17. CASE Quiesced
  BY Zenon, <1>17 DEF Quiesced, vars
<1> QED
  BY Zenon, <1>1, <1>2, <1>3, <1>4, <1>5, <1>6, <1>7, <1>8, <1>9, <1>10, <1>11,
     <1>12, <1>13, <1>14, <1>15, <1>16, <1>17 DEF Next, Step, Recover

\* Every step keeps each process's call, buffer and written blocks in order.
LEMMA CallStep ==
  ASSUME ControlInv, Next
  PROVE  CallInv'
<1> TypeOK /\ CallInv
  BY Zenon DEF ControlInv
<1> USE LogConstants DEF TypeOK, MemType, ProcType, CallInv, disk, bufs,
                         memlog, proc, history, OpIds
<1>1. ASSUME NEW p \in Procs, begin_op(p) PROVE CallInv'
  BY <1>1 DEF begin_op, enter
<1>2. ASSUME NEW p \in Procs, NEW b \in Blocks, log_write(p, b) PROVE CallInv'
  <2>1. op[p] \in OpIds /\ op[p] < nextop /\ blk[p] = NoBlock
    BY Zenon, <1>2 DEF log_write
  <2>2. /\ op' = op /\ nextop' = nextop /\ valid' = valid \cup {b}
        /\ wrote' = [wrote EXCEPT ![op[p]] = @ \cup {b}]
        /\ \A q \in Procs : blk[q] # b
        /\ \/ pc' = pc /\ blk' = blk
           \/ /\ pc' = [pc EXCEPT ![p] = "locked"]
              /\ blk' = [blk EXCEPT ![p] = b]
    BY Zenon, <1>2 DEF log_write
  <2>3. \A q \in Procs :
          /\ pc'[q] # "idle" => op'[q] \in OpIds /\ op'[q] < nextop'
          /\ (pc'[q] = "locked") <=> (blk'[q] # NoBlock)
          /\ blk'[q] # NoBlock => blk'[q] \in wrote'[op'[q]] /\ blk'[q] \in valid'
          /\ pc'[q] \in {"sleep", "woken"} => wrote'[op'[q]] = {}
    BY <1>2, <2>1, <2>2 DEF log_write
  <2>4. \A q, r \in Procs :
          q # r => /\ pc'[q] # "idle" /\ pc'[r] # "idle" => op'[q] # op'[r]
                   /\ blk'[q] # NoBlock => blk'[q] # blk'[r]
    BY <1>2, <2>1, <2>2 DEF log_write
  <2>5. Cardinality(wrote[op[p]] \cup {b}) <= OpBlocks
    <3>1. IsFiniteSet(wrote[op[p]])
      BY Zenon, <2>1, FS_Subset
    <3>2. Cardinality(wrote[op[p]]) \in Nat
      BY Zenon, <3>1, FS_CardinalityType
    <3>3. Cardinality(wrote[op[p]] \cup {b}) =
            IF b \in wrote[op[p]] THEN Cardinality(wrote[op[p]])
                                  ELSE Cardinality(wrote[op[p]]) + 1
      BY Zenon, <3>1, FS_AddElement
    <3>4. b \in wrote[op[p]] \/ Cardinality(wrote[op[p]]) < OpBlocks
      BY Zenon, <1>2 DEF log_write
    <3> QED
      BY <2>1, <3>2, <3>3, <3>4
  <2>6. \A o \in OpIds : /\ Cardinality(wrote'[o]) <= OpBlocks
                         /\ o >= nextop' => wrote'[o] = {}
    BY <2>1, <2>2, <2>5
  <2> QED
    BY Zenon, <2>3, <2>4, <2>6
<1>3. ASSUME NEW p \in Procs, end_op(p) PROVE CallInv'
  <2>1. \A q \in Procs :
          \/ pc'[q] = pc[q]
          \/ pc[q] = "sleep" /\ pc'[q] = "woken"
          \/ q = p /\ pc'[q] \in {"idle", "commit"}
    <3> HIDE DEF CallInv
    <3> QED BY Zenon, <1>3 DEF end_op, wakeup
  <2>2. pc[p] = "op" /\ op' = op /\ blk' = blk /\ wrote' = wrote
        /\ nextop' = nextop /\ valid' = valid
    BY Zenon, <1>3 DEF end_op
  <2> QED
    BY <2>1, <2>2
<1>4. ASSUME NEW p \in Procs, begin_op_again(p) PROVE CallInv'
  BY <1>4 DEF begin_op_again, enter
<1>5. ASSUME NEW p \in Procs, log_write_locked(p) PROVE CallInv'
  BY <1>5 DEF log_write_locked
<1>6. ASSUME NEW p \in Procs, commit(p) PROVE CallInv'
  BY <1>6 DEF commit
<1>7. ASSUME NEW p \in Procs, write_log(p) PROVE CallInv'
  BY <1>7 DEF write_log
<1>8. ASSUME NEW p \in Procs, write_head(p) PROVE CallInv'
  BY <1>8 DEF write_head
<1>9. ASSUME NEW p \in Procs, commit_install(p) PROVE CallInv'
  BY <1>9 DEF commit_install, install_trans
<1>10. ASSUME NEW p \in Procs, commit_erase(p) PROVE CallInv'
  BY <1>10 DEF commit_erase, erase_log
<1>11. ASSUME NEW p \in Procs, end_op_finish(p) PROVE CallInv'
  BY <1>11 DEF end_op_finish, wakeup
<1>12. ASSUME NEW b \in Blocks, bget_recycle(b) PROVE CallInv'
  BY Zenon, <1>12 DEF bget_recycle, Recyclable
<1>13. CASE read_head
  BY Zenon, <1>13 DEF read_head
<1>14. CASE recover_install
  BY Zenon, <1>14 DEF recover_install, install_trans
<1>15. CASE recover_erase
  BY Zenon, <1>15 DEF recover_erase, erase_log
<1>16. CASE crash
  BY Zenon, <1>16 DEF crash
<1>17. CASE Quiesced
  BY Zenon, <1>17 DEF Quiesced, vars
<1> QED
  BY Zenon, <1>1, <1>2, <1>3, <1>4, <1>5, <1>6, <1>7, <1>8, <1>9, <1>10, <1>11,
     <1>12, <1>13, <1>14, <1>15, <1>16, <1>17 DEF Next, Step, Recover

\* There are finitely many tokens.
LEMMA TokensFinite ==
  ASSUME TypeOK
  PROVE  IsFiniteSet(Tokens) /\ Cardinality(Tokens) \in Nat
<1>1. IsFiniteSet(1..MAXOPBLOCKS)
  BY LogConstants, FS_Interval
<1>2. IsFiniteSet(Procs \X (1..MAXOPBLOCKS))
  BY Zenon, <1>1, LogConstants, FS_Product
<1>3. Tokens \in SUBSET (Procs \X (1..MAXOPBLOCKS))
  BY Zenon DEF Tokens
<1>4. IsFiniteSet(Tokens)
  BY Zenon, <1>2, <1>3, FS_Subset
<1> QED
  BY Zenon, <1>4, FS_CardinalityType

\* A call's written blocks are finitely many, and Used counts some of them.
LEMMA UsedBound ==
  ASSUME TypeOK, CallInv, NEW p \in Procs, pc[p] # "idle"
  PROVE  /\ IsFiniteSet(wrote[op[p]])
         /\ Used(p) \in Nat
         /\ Used(p) <= OpBlocks
<1>1. wrote[op[p]] \in SUBSET Blocks /\ Cardinality(wrote[op[p]]) <= OpBlocks
  BY Zenon DEF TypeOK, ProcType, CallInv
<1>2. IsFiniteSet(wrote[op[p]])
  BY Zenon, <1>1, LogConstants, FS_Subset
<1>3. /\ IsFiniteSet(wrote[op[p]] \cap Logged)
      /\ Cardinality(wrote[op[p]] \cap Logged) <= Cardinality(wrote[op[p]])
  BY Zenon, <1>2, FS_Subset
<1>4. Used(p) \in Nat /\ Cardinality(wrote[op[p]]) \in Nat
  BY Zenon, <1>2, <1>3, FS_CardinalityType DEF Used
<1>5. Used(p) <= Cardinality(wrote[op[p]])
  BY Zenon, <1>3 DEF Used
<1>6. OpBlocks \in Nat
  BY Zenon, LogConstants
<1> QED
  BY <1>1, <1>2, <1>4, <1>5, <1>6

\* A row of a product with an interval has the interval's size.
LEMMA RowSize ==
  ASSUME NEW p, NEW m \in Nat, NEW n \in Nat, m <= n
  PROVE  Cardinality({p} \X (m + 1..n)) = n - m
<1>1. IsFiniteSet({p}) /\ Cardinality({p}) = 1
  BY Zenon, FS_Singleton
<1>2. IsFiniteSet(m + 1..n)
  BY FS_Interval
<1>3. Cardinality(m + 1..n) = IF m + 1 > n THEN 0 ELSE n - (m + 1) + 1
  BY FS_Interval
<1>4. Cardinality(m + 1..n) = n - m
  BY <1>3
<1>5. Cardinality({p} \X (m + 1..n)) = Cardinality({p}) * Cardinality(m + 1..n)
  BY Zenon, <1>1, <1>2, FS_Product
<1>6. 1 * (n - m) = n - m
  OBVIOUS
<1> QED
  BY Zenon, <1>1, <1>4, <1>5, <1>6

\* A call in progress leaves the log shorter than its limits: the blocks it
\* does not write stay promised to it.
LEMMA RoomForWrite ==
  ASSUME TypeOK, CallInv, SpaceInv, EnoughLog, NEW p \in Procs, InOp(p)
  PROVE  Len(lh) < LOGSIZE /\ Len(lh) < NLOG - 1
<1>1. Used(p) \in Nat /\ Used(p) <= OpBlocks
  BY Zenon, UsedBound DEF InOp
<1> DEFINE S == {p} \X (Used(p) + 1..MAXOPBLOCKS)
<1>2. Used(p) <= MAXOPBLOCKS /\ MAXOPBLOCKS \in Nat
  BY <1>1, LogConstants
<1>3. Cardinality({p} \X (Used(p) + 1..MAXOPBLOCKS)) = MAXOPBLOCKS - Used(p)
  BY Zenon, <1>1, <1>2, RowSize
<1>4. Cardinality(S) = MAXOPBLOCKS - Used(p)
  BY Zenon, <1>3
<1>5. S \in SUBSET Tokens
  BY <1>1, LogConstants DEF Tokens
<1>6. IsFiniteSet(Tokens) /\ Cardinality(Tokens) \in Nat
  BY Zenon, TokensFinite
<1>7. Cardinality(S) <= Cardinality(Tokens)
  BY Zenon, <1>5, <1>6, FS_Subset
<1>8. Len(lh) \in Nat
  BY DEF TypeOK, MemType
<1> QED
  BY <1>1, <1>4, <1>6, <1>7, <1>8, LogConstants DEF SpaceInv, EnoughLog

\* No slot is promised while no call is in progress.
LEMMA NoTokens ==
  ASSUME \A p \in Procs : ~InOp(p)
  PROVE  Tokens = {} /\ Cardinality(Tokens) = 0
<1> Tokens = {}
  BY Zenon DEF Tokens
<1> QED
  BY Zenon, FS_EmptySet

\* No token appears in a step that starts no call and forgets no block of one.
LEMMA TokensShrink ==
  ASSUME \A q \in Procs : InOp(q)' => InOp(q),
         \A q \in Procs : InOp(q)' => Used(q)' = Used(q)
  PROVE  Tokens' \in SUBSET Tokens
<1> SUFFICES ASSUME NEW u \in Tokens' PROVE u \in Tokens
  BY Zenon
<1>1. /\ u \in Procs \X (1..MAXOPBLOCKS) /\ u[1] \in Procs
      /\ InOp(u[1])' /\ u[2] > Used(u[1])'
  BY Zenon DEF Tokens
<1>2. InOp(u[1]) /\ Used(u[1])' = Used(u[1])
  BY Zenon, <1>1
<1> QED
  BY Zenon, <1>1, <1>2 DEF Tokens

\* The reservation in begin_op and the blocks each call has logged since
\* never add up to more than LOGSIZE (log.c:132).
LEMMA SpaceStep ==
  ASSUME ControlInv, Next
  PROVE  SpaceInv'
<1> TypeOK /\ CallInv /\ CountInv /\ PhaseInv /\ SpaceInv
  BY Zenon DEF ControlInv
<1> USE LogConstants DEF TypeOK, DiskType, MemType, ProcType, disk, bufs,
                         memlog, proc, history
<1>a. Tokens' \in SUBSET Tokens /\ lh' = lh => SpaceInv'
  <2> HAVE Tokens' \in SUBSET Tokens /\ lh' = lh
  <2>1. IsFiniteSet(Tokens) /\ Cardinality(Tokens) \in Nat
    BY Zenon, TokensFinite
  <2>2. Cardinality(Tokens') <= Cardinality(Tokens) /\ Cardinality(Tokens') \in Nat
    BY Zenon, <2>1, FS_Subset, FS_CardinalityType
  <2> QED
    BY <2>1, <2>2 DEF SpaceInv
<1>c. UNCHANGED <<lh, op, wrote>> /\ (\A q \in Procs : InOp(q)' => InOp(q))
        => SpaceInv'
  <2> HAVE UNCHANGED <<lh, op, wrote>> /\ \A q \in Procs : InOp(q)' => InOp(q)
  <2>1. \A q \in Procs : Used(q)' = Used(q)
    BY DEF Used, Logged
  <2>2. Tokens' \in SUBSET Tokens
    BY Zenon, <2>1, TokensShrink
  <2> QED
    BY Zenon, <2>2, <1>a
<1>b. IsFiniteSet(1..MAXOPBLOCKS) /\ Cardinality(1..MAXOPBLOCKS) = MAXOPBLOCKS
  <2>1. Cardinality(1..MAXOPBLOCKS) =
          IF 1 > MAXOPBLOCKS THEN 0 ELSE MAXOPBLOCKS - 1 + 1
    BY FS_Interval
  <2>2. IsFiniteSet(1..MAXOPBLOCKS)
    BY FS_Interval
  <2> QED
    BY ONLY <2>1, <2>2, LogConstants
<1>1. ASSUME NEW p \in Procs, begin_op(p) PROVE SpaceInv'
  <2>1. CASE pc' = [pc EXCEPT ![p] = "sleep"] /\ outstanding' = outstanding
    <3>1. Tokens' \in SUBSET Tokens
      <4>1. ASSUME NEW q \in Procs, InOp(q)'
            PROVE  InOp(q) /\ Used(q)' = Used(q)
        <5>1. q # p /\ pc'[q] = pc[q]
          BY Zenon, <2>1, <4>1 DEF InOp
        <5>2. op'[q] = op[q] /\ wrote' = wrote /\ lh' = lh
          BY Zenon, <1>1, <5>1 DEF begin_op
        <5> QED
          BY <4>1, <5>1, <5>2 DEF InOp, Used, Logged
      <4> QED
        BY Zenon, <4>1, TokensShrink
    <3> QED
      BY Zenon, <1>1, <3>1, <1>a DEF begin_op
  <2>2. CASE /\ ~NoRoom
             /\ pc' = [pc EXCEPT ![p] = "op"]
             /\ outstanding' = outstanding + 1
    <3>1. Active' = Active \cup {p} /\ p \notin Active
      BY <1>1, <2>2 DEF begin_op, Active, InOp
    <3>2. Cardinality(Active') = outstanding + 1 /\ IsFiniteSet(Active')
      <4>1. IsFiniteSet(Active)
        BY Zenon, FS_Subset DEF Active
      <4> QED
        BY Zenon, <3>1, <4>1, FS_AddElement DEF CountInv
    <3>3. Tokens' \in SUBSET (Active' \X (1..MAXOPBLOCKS))
      BY Zenon DEF Tokens, Active
    <3>4. /\ IsFiniteSet(Active' \X (1..MAXOPBLOCKS))
          /\ Cardinality(Active' \X (1..MAXOPBLOCKS))
               = (outstanding + 1) * MAXOPBLOCKS
      BY <3>2, <1>b, FS_Product
    <3>5. Cardinality(Tokens') <= (outstanding + 1) * MAXOPBLOCKS
      BY <3>3, <3>4, FS_Subset
    <3>6. Cardinality(Tokens') \in Nat
      BY Zenon, <3>3, <3>4, FS_Subset, FS_CardinalityType
    <3>7. lh' = lh /\ Len(lh) \in Nat
      BY <1>1 DEF begin_op
    <3>8. (outstanding + 1) * MAXOPBLOCKS \in Nat
      OBVIOUS
    <3>9. Len(lh) + (outstanding + 1) * MAXOPBLOCKS <= LOGSIZE
      BY <2>2, <3>7, <3>8 DEF NoRoom
    <3> QED
      BY <3>5, <3>6, <3>7, <3>8, <3>9 DEF SpaceInv
  <2> QED
    BY Zenon, <1>1, <2>1, <2>2 DEF begin_op, enter
<1>2. ASSUME NEW p \in Procs, NEW b \in Blocks, log_write(p, b) PROVE SpaceInv'
  <2>1. ASSUME NEW q \in Procs, InOp(q)
        PROVE  Used(q)' \in Nat /\ Used(q)' >= Used(q) /\ Used(q) \in Nat
    <3>1. IsFiniteSet(wrote[op[q]]) /\ Used(q) \in Nat /\ op[q] \in OpIds
      BY Zenon, <2>1, UsedBound DEF InOp, CallInv
    <3>2. wrote'[op[q]] \in SUBSET Blocks /\ wrote[op[q]] \in SUBSET wrote'[op[q]]
      BY <1>2, <3>1 DEF log_write, CallInv
    <3>3. op' = op /\ Logged' = Logged
      BY <1>2 DEF log_write, Logged
    <3>4. IsFiniteSet(wrote'[op[q]] \cap Logged)
      BY Zenon, <3>2, FS_Subset
    <3>5. (wrote[op[q]] \cap Logged) \in SUBSET (wrote'[op[q]] \cap Logged)
      BY Zenon, <3>2
    <3> QED
      BY Zenon, <3>1, <3>3, <3>4, <3>5, FS_Subset, FS_CardinalityType DEF Used
  <2>2. \A q \in Procs : InOp(q)' => InOp(q)
    BY Zenon, <1>2 DEF log_write, InOp
  <2>3. Tokens' \in SUBSET Tokens
    <3> SUFFICES ASSUME NEW u \in Tokens' PROVE u \in Tokens
      BY Zenon
    <3>1. /\ u \in Procs \X (1..MAXOPBLOCKS) /\ u[1] \in Procs /\ u[2] \in Nat
          /\ InOp(u[1])' /\ u[2] > Used(u[1])'
      BY ONLY u \in Tokens', LogConstants DEF Tokens
    <3>2. InOp(u[1]) /\ u[2] > Used(u[1])
      BY ONLY <2>1, <2>2, <3>1
    <3> QED
      BY ONLY Zenon, <3>1, <3>2 DEF Tokens
  <2> QED
    BY Zenon, <1>2, <2>3, <1>a DEF log_write
<1>3. ASSUME NEW p \in Procs, end_op(p) PROVE SpaceInv'
  <2>1. \A q \in Procs : InOp(q)' => InOp(q)
    BY Zenon, <1>3 DEF end_op, wakeup, InOp
  <2>2. \A q \in Procs : Used(q)' = Used(q)
    BY <1>3 DEF end_op, Used, Logged
  <2>3. Tokens' \in SUBSET Tokens
    BY Zenon, <2>1, <2>2, TokensShrink
  <2> QED
    BY Zenon, <1>3, <2>3, <1>a DEF end_op
<1>4. ASSUME NEW p \in Procs, begin_op_again(p) PROVE SpaceInv'
  <2>1. CASE pc' = [pc EXCEPT ![p] = "sleep"] /\ outstanding' = outstanding
    <3>1. Tokens' \in SUBSET Tokens
      <4>1. ASSUME NEW q \in Procs, InOp(q)'
            PROVE  InOp(q) /\ Used(q)' = Used(q)
        BY <1>4, <2>1, <4>1 DEF begin_op_again, InOp, Used, Logged
      <4> QED
        BY Zenon, <4>1, TokensShrink
    <3> QED
      BY Zenon, <1>4, <3>1, <1>a DEF begin_op_again
  <2>2. CASE /\ ~NoRoom
             /\ pc' = [pc EXCEPT ![p] = "op"]
             /\ outstanding' = outstanding + 1
    <3>1. Active' = Active \cup {p} /\ p \notin Active
      BY <1>4, <2>2 DEF begin_op_again, Active, InOp
    <3>2. Cardinality(Active') = outstanding + 1 /\ IsFiniteSet(Active')
      <4>1. IsFiniteSet(Active)
        BY Zenon, FS_Subset DEF Active
      <4> QED
        BY Zenon, <3>1, <4>1, FS_AddElement DEF CountInv
    <3>3. Tokens' \in SUBSET (Active' \X (1..MAXOPBLOCKS))
      BY Zenon DEF Tokens, Active
    <3>4. /\ IsFiniteSet(Active' \X (1..MAXOPBLOCKS))
          /\ Cardinality(Active' \X (1..MAXOPBLOCKS))
               = (outstanding + 1) * MAXOPBLOCKS
      BY <3>2, <1>b, FS_Product
    <3>5. Cardinality(Tokens') <= (outstanding + 1) * MAXOPBLOCKS
      BY <3>3, <3>4, FS_Subset
    <3>6. Cardinality(Tokens') \in Nat
      BY Zenon, <3>3, <3>4, FS_Subset, FS_CardinalityType
    <3>7. lh' = lh /\ Len(lh) \in Nat
      BY <1>4 DEF begin_op_again
    <3>8. (outstanding + 1) * MAXOPBLOCKS \in Nat
      OBVIOUS
    <3>9. Len(lh) + (outstanding + 1) * MAXOPBLOCKS <= LOGSIZE
      BY <2>2, <3>7, <3>8 DEF NoRoom
    <3> QED
      BY <3>5, <3>6, <3>7, <3>8, <3>9 DEF SpaceInv
  <2> QED
    BY Zenon, <1>4, <2>1, <2>2 DEF begin_op_again, enter
<1>5. ASSUME NEW p \in Procs, log_write_locked(p) PROVE SpaceInv'
  <2>1. /\ InOp(p) /\ op[p] \in OpIds /\ blk[p] \in wrote[op[p]] /\ op' = op
        /\ wrote' = wrote /\ \A q \in Procs : InOp(q)' <=> InOp(q)
    BY Zenon, <1>5 DEF log_write_locked, InOp, CallInv
  <2>2. CASE blk[p] \in Logged
    <3>1. Tokens' \in SUBSET Tokens /\ lh' = lh
      <4>1. lh' = lh /\ Logged' = Logged
        BY <1>5, <2>2 DEF log_write_locked, absorb, Logged
      <4>2. \A q \in Procs : Used(q)' = Used(q)
        BY Zenon, <2>1, <4>1 DEF Used
      <4> QED
        BY Zenon, <2>1, <4>1, <4>2, TokensShrink
    <3> QED
      BY Zenon, <3>1, <1>a
  <2>3. CASE blk[p] \notin Logged
    <3>1. lh' = Append(lh, blk[p]) /\ Len(lh') = Len(lh) + 1 /\ Len(lh) \in Nat
      BY <1>5, <2>3, <2>1 DEF log_write_locked, absorb
    <3>2. Logged' = Logged \cup {blk[p]}
      BY <3>1, <2>1 DEF Logged
    <3>3. ASSUME NEW q \in Procs, InOp(q)
          PROVE  Used(q)' \in Nat /\ Used(q) \in Nat /\ Used(q)' >= Used(q)
      <4>1. IsFiniteSet(wrote[op[q]]) /\ Used(q) \in Nat
        BY Zenon, <3>3, UsedBound DEF InOp
      <4>2. IsFiniteSet(wrote[op[q]] \cap Logged')
        BY <4>1, FS_Subset
      <4>3. (wrote[op[q]] \cap Logged) \in SUBSET (wrote[op[q]] \cap Logged')
        BY Zenon, <3>2
      <4> QED
        BY Zenon, <2>1, <4>1, <4>2, <4>3, FS_Subset, FS_CardinalityType DEF Used
    <3>4. Used(p)' = Used(p) + 1 /\ Used(p) + 1 \in 1..MAXOPBLOCKS
      <4>1. IsFiniteSet(wrote[op[p]] \cap Logged) /\ Used(p) \in Nat
        BY <2>1, UsedBound, FS_Subset DEF InOp
      <4>2. wrote[op[p]] \cap Logged' = (wrote[op[p]] \cap Logged) \cup {blk[p]}
        BY Zenon, <2>1, <3>2
      <4>3. Used(p)' = Used(p) + 1
        BY Zenon, <2>1, <2>3, <4>1, <4>2, FS_AddElement DEF Used
      <4>4. /\ IsFiniteSet(wrote[op[p]])
            /\ Cardinality(wrote[op[p]]) <= OpBlocks
        BY Zenon, <2>1, UsedBound DEF InOp, CallInv
      <4>5. (wrote[op[p]] \cap Logged') \in SUBSET wrote[op[p]]
        BY Zenon
      <4>6. Used(p)' <= Cardinality(wrote[op[p]])
        BY Zenon, <2>1, <4>4, <4>5, FS_Subset DEF Used
      <4>7. Cardinality(wrote[op[p]]) \in Nat
        BY Zenon, <4>4, FS_CardinalityType
      <4> QED
        BY <4>1, <4>3, <4>4, <4>6, <4>7
    <3>k. PICK k \in 1..MAXOPBLOCKS : k = Used(p) + 1
      BY Zenon, <3>4
    <3> DEFINE t == <<p, k>>
    <3>5. t \in Tokens /\ t \notin Tokens'
      <4>1. Used(p) \in Nat
        BY ONLY Zenon, <3>3, <2>1, p \in Procs
      <4>2. k > Used(p) /\ ~(k > Used(p)')
        BY ONLY <4>1, <3>4, <3>k
      <4>3. t \in Procs \X (1..MAXOPBLOCKS) /\ t[1] = p /\ t[2] = k
        BY ONLY Zenon, <3>k, p \in Procs, k \in 1..MAXOPBLOCKS
      <4> QED
        BY ONLY Zenon, <2>1, <4>2, <4>3 DEF Tokens
    <3>6. Tokens' \in SUBSET (Tokens \ {t})
      <4> SUFFICES ASSUME NEW u \in Tokens' PROVE u \in Tokens
        BY Zenon, <3>5
      <4>1. /\ u \in Procs \X (1..MAXOPBLOCKS) /\ u[1] \in Procs /\ u[2] \in Nat
            /\ InOp(u[1])' /\ u[2] > Used(u[1])'
        BY ONLY u \in Tokens', LogConstants DEF Tokens
      <4>2. InOp(u[1]) /\ u[2] > Used(u[1])
        BY ONLY <2>1, <3>3, <4>1
      <4> QED
        BY ONLY Zenon, <4>1, <4>2 DEF Tokens
    <3>7. IsFiniteSet(Tokens) /\ Cardinality(Tokens) \in Nat
      BY Zenon, TokensFinite
    <3>8. IsFiniteSet(Tokens \ {t}) /\ Cardinality(Tokens \ {t}) = Cardinality(Tokens) - 1
      <4>1. Cardinality(Tokens \ {t}) =
              IF t \in Tokens THEN Cardinality(Tokens) - 1 ELSE Cardinality(Tokens)
        BY Zenon, <3>7, FS_RemoveElement
      <4> QED
        BY Zenon, <3>5, <3>7, <4>1, FS_RemoveElement
    <3>9. Cardinality(Tokens') <= Cardinality(Tokens) - 1 /\ Cardinality(Tokens') \in Nat
      <4>1. IsFiniteSet(Tokens') /\ Cardinality(Tokens') <= Cardinality(Tokens \ {t})
        BY Zenon, <3>6, <3>8, FS_Subset
      <4>2. Cardinality(Tokens') \in Nat
        BY Zenon, <4>1, FS_CardinalityType
      <4> QED
        BY Zenon, <3>8, <4>1, <4>2
    <3> QED
      BY <3>1, <3>7, <3>9 DEF SpaceInv
  <2> QED
    BY Zenon, <2>2, <2>3
<1>6. ASSUME NEW p \in Procs, commit(p) PROVE SpaceInv'
  BY Zenon, <1>6, <1>c DEF commit, InOp
<1>7. ASSUME NEW p \in Procs, write_log(p) PROVE SpaceInv'
  BY Zenon, <1>7, <1>c DEF write_log, InOp
<1>8. ASSUME NEW p \in Procs, write_head(p) PROVE SpaceInv'
  BY Zenon, <1>8, <1>c DEF write_head, InOp
<1>9. ASSUME NEW p \in Procs, commit_install(p) PROVE SpaceInv'
  BY Zenon, <1>9, <1>c DEF commit_install, install_trans, InOp
<1>10. ASSUME NEW p \in Procs, commit_erase(p) PROVE SpaceInv'
  <2>1. \A q \in Procs : ~InOp(q)'
    BY <1>10 DEF commit_erase, erase_log, PhaseInv, BootInv, CommitInv, LoopInv, InOp, Commits, Writes
  <2>2. Cardinality(Tokens') = 0
    <3>1. Tokens' = {}
      BY Zenon, <2>1 DEF Tokens
    <3> QED
      BY Zenon, <3>1, FS_EmptySet
  <2> QED
    BY <1>10, <2>2 DEF commit_erase, erase_log, SpaceInv
<1>11. ASSUME NEW p \in Procs, end_op_finish(p) PROVE SpaceInv'
  <2>1. \A q \in Procs : InOp(q)' => InOp(q)
    BY Zenon, <1>11 DEF end_op_finish, wakeup, InOp
  <2>2. \A q \in Procs : Used(q)' = Used(q)
    BY <1>11 DEF end_op_finish, Used, Logged
  <2>3. Tokens' \in SUBSET Tokens
    BY Zenon, <2>1, <2>2, TokensShrink
  <2>4. lh' = lh
    BY Zenon, <1>11 DEF end_op_finish
  <2> QED
    BY Zenon, <2>3, <2>4, <1>a
<1>12. ASSUME NEW b \in Blocks, bget_recycle(b) PROVE SpaceInv'
  BY Zenon, <1>12, <1>c DEF bget_recycle, InOp
<1>13. CASE read_head
  <2>1. \A q \in Procs : ~InOp(q)'
    BY Zenon, <1>13 DEF read_head, PhaseInv, BootInv, CommitInv, LoopInv, InOp, Commits, Writes
  <2>2. Cardinality(Tokens') = 0
    <3>1. Tokens' = {}
      BY Zenon, <2>1 DEF Tokens
    <3> QED
      BY Zenon, <3>1, FS_EmptySet
  <2> QED
    BY <1>13, <2>2 DEF read_head, SpaceInv
<1>14. CASE recover_install
  BY Zenon, <1>14, <1>c DEF recover_install, install_trans, InOp
<1>15. CASE recover_erase
  <2>1. \A q \in Procs : ~InOp(q)'
    BY Zenon, <1>15 DEF recover_erase, erase_log, PhaseInv, BootInv, CommitInv, LoopInv, InOp, Commits, Writes
  <2>2. Cardinality(Tokens') = 0
    <3>1. Tokens' = {}
      BY Zenon, <2>1 DEF Tokens
    <3> QED
      BY Zenon, <3>1, FS_EmptySet
  <2> QED
    BY <1>15, <2>2 DEF recover_erase, erase_log, SpaceInv
<1>16. CASE crash
  <2>1. \A q \in Procs : ~InOp(q)'
    BY Zenon, <1>16 DEF crash, PhaseInv, BootInv, CommitInv, LoopInv, InOp, Commits, Writes
  <2>2. Cardinality(Tokens') = 0
    <3>1. Tokens' = {}
      BY Zenon, <2>1 DEF Tokens
    <3> QED
      BY Zenon, <3>1, FS_EmptySet
  <2> QED
    BY <1>16, <2>2 DEF crash, SpaceInv
<1>17. CASE Quiesced
  BY Zenon, <1>17, <1>c DEF Quiesced, vars, InOp
<1> QED
  BY Zenon, <1>1, <1>2, <1>3, <1>4, <1>5, <1>6, <1>7, <1>8, <1>9, <1>10, <1>11,
     <1>12, <1>13, <1>14, <1>15, <1>16, <1>17 DEF Next, Step, Recover

-----------------------------------------------------------------------------
(* log.outstanding, the phases of a commit, and the control invariant.     *)

HIDE DEF PCs

\* Every step keeps log.outstanding equal to the number of calls in progress.
LEMMA CountStep ==
  ASSUME ControlInv, Next
  PROVE  CountInv'
<1> TypeOK /\ CountInv /\ PhaseInv
  BY Zenon DEF ControlInv
<1> USE LogConstants DEF TypeOK, MemType, ProcType, disk, bufs, memlog, proc,
                         history
<1>a. IsFiniteSet(Active) /\ Cardinality(Active) \in Nat
  BY Zenon, FS_Subset, FS_CardinalityType DEF Active
<1>1. ASSUME NEW p \in Procs, begin_op(p) PROVE CountInv'
  <2>1. CASE pc' = [pc EXCEPT ![p] = "sleep"] /\ outstanding' = outstanding
    <3>1. Active' = Active
      BY Zenon, <1>1, <2>1 DEF begin_op, Active, InOp
    <3> QED
      BY Zenon, <2>1, <3>1 DEF CountInv
  <2>2. CASE pc' = [pc EXCEPT ![p] = "op"] /\ outstanding' = outstanding + 1
    <3>1. Active' = Active \cup {p} /\ p \notin Active
      BY <1>1, <2>2 DEF begin_op, Active, InOp
    <3> QED
      BY Zenon, <2>2, <3>1, <1>a, FS_AddElement DEF CountInv
  <2> QED
    BY Zenon, <1>1, <2>1, <2>2 DEF begin_op, enter
<1>2. ASSUME NEW p \in Procs, NEW b \in Blocks, log_write(p, b) PROVE CountInv'
  <2>1. Active' = Active
    BY Zenon, <1>2 DEF log_write, Active, InOp
  <2> QED
    BY Zenon, <1>2, <2>1 DEF log_write, CountInv
<1>3. ASSUME NEW p \in Procs, end_op(p) PROVE CountInv'
  <2>1. p \in Active /\ outstanding' = outstanding - 1 /\ committing = 0
    BY Zenon, <1>3 DEF end_op, Active, InOp, PhaseInv, BootInv, CommitInv, LoopInv, Commits
  <2>2. Active' = Active \ {p}
    <3>1. \A q \in Procs :
            \/ q # p /\ pc'[q] = pc[q]
            \/ q # p /\ pc[q] = "sleep" /\ pc'[q] = "woken"
            \/ q = p /\ pc'[q] \in {"idle", "commit"}
      <4>1. CASE pc' = [pc EXCEPT ![p] = "commit"]
        BY Zenon, <4>1
      <4>2. CASE pc' = [wakeup(pc) EXCEPT ![p] = "idle"]
        BY Zenon, <4>2 DEF wakeup
      <4> QED
        BY <1>3, <2>1, <4>1, <4>2 DEF end_op
    <3> QED
      BY Zenon, <3>1, <2>1 DEF Active, InOp
  <2>3. Cardinality(Active \ {p}) = Cardinality(Active) - 1
    BY <2>1, <1>a, FS_RemoveElement
  <2> QED
    BY Zenon, <2>1, <2>2, <2>3 DEF CountInv
<1>4. ASSUME NEW p \in Procs, begin_op_again(p) PROVE CountInv'
  <2>1. CASE pc' = [pc EXCEPT ![p] = "sleep"] /\ outstanding' = outstanding
    <3>1. Active' = Active
      BY <1>4, <2>1 DEF begin_op_again, Active, InOp
    <3> QED
      BY Zenon, <2>1, <3>1 DEF CountInv
  <2>2. CASE pc' = [pc EXCEPT ![p] = "op"] /\ outstanding' = outstanding + 1
    <3>1. Active' = Active \cup {p} /\ p \notin Active
      BY <1>4, <2>2 DEF begin_op_again, Active, InOp
    <3> QED
      BY Zenon, <2>2, <3>1, <1>a, FS_AddElement DEF CountInv
  <2> QED
    BY Zenon, <1>4, <2>1, <2>2 DEF begin_op_again, enter
<1>5. ASSUME NEW p \in Procs, log_write_locked(p) PROVE CountInv'
  <2>1. Active' = Active
    BY Zenon, <1>5 DEF log_write_locked, Active, InOp
  <2> QED
    BY Zenon, <1>5, <2>1 DEF log_write_locked, CountInv
<1>6. ASSUME NEW p \in Procs, commit(p) PROVE CountInv'
  <2>1. Active' = Active
    BY Zenon, <1>6 DEF commit, Active, InOp
  <2> QED
    BY Zenon, <1>6, <2>1 DEF commit, CountInv
<1>7. ASSUME NEW p \in Procs, write_log(p) PROVE CountInv'
  <2>1. Active' = Active
    BY Zenon, <1>7 DEF write_log, Active, InOp
  <2> QED
    BY Zenon, <1>7, <2>1 DEF write_log, CountInv
<1>8. ASSUME NEW p \in Procs, write_head(p) PROVE CountInv'
  <2>1. Active' = Active
    BY Zenon, <1>8 DEF write_head, Active, InOp
  <2> QED
    BY Zenon, <1>8, <2>1 DEF write_head, CountInv
<1>9. ASSUME NEW p \in Procs, commit_install(p) PROVE CountInv'
  <2>1. Active' = Active
    BY Zenon, <1>9 DEF commit_install, install_trans, Active, InOp
  <2> QED
    BY Zenon, <1>9, <2>1 DEF commit_install, install_trans, CountInv
<1>10. ASSUME NEW p \in Procs, commit_erase(p) PROVE CountInv'
  <2>1. Active' = Active
    BY Zenon, <1>10 DEF commit_erase, erase_log, Active, InOp
  <2> QED
    BY Zenon, <1>10, <2>1 DEF commit_erase, erase_log, CountInv
<1>11. ASSUME NEW p \in Procs, end_op_finish(p) PROVE CountInv'
  <2>1. Active' = Active
    BY Zenon, <1>11 DEF end_op_finish, wakeup, Active, InOp
  <2> QED
    BY Zenon, <1>11, <2>1 DEF end_op_finish, wakeup, CountInv
<1>12. ASSUME NEW b \in Blocks, bget_recycle(b) PROVE CountInv'
  <2>1. Active' = Active
    BY Zenon, <1>12 DEF bget_recycle, Active, InOp
  <2> QED
    BY Zenon, <1>12, <2>1 DEF bget_recycle, CountInv
<1>13. CASE read_head
  <2>1. Active' = Active
    BY Zenon, <1>13 DEF read_head, Active, InOp
  <2> QED
    BY <1>13, <2>1 DEF read_head, CountInv
<1>14. CASE recover_install
  <2>1. Active' = Active
    BY Zenon, <1>14 DEF recover_install, install_trans, Active, InOp
  <2> QED
    BY Zenon, <1>14, <2>1 DEF recover_install, install_trans, CountInv
<1>15. CASE recover_erase
  <2>1. Active' = Active
    BY Zenon, <1>15 DEF recover_erase, erase_log, Active, InOp
  <2> QED
    BY Zenon, <1>15, <2>1 DEF recover_erase, erase_log, CountInv
<1>16. CASE crash
  <2>1. Active' = {}
    BY Zenon, <1>16 DEF crash, Active, InOp
  <2> QED
    BY Zenon, <1>16, <2>1, FS_EmptySet DEF crash, CountInv
<1>17. CASE Quiesced
  <2>1. Active' = Active
    BY <1>17 DEF Quiesced, vars, Active, InOp
  <2> QED
    BY Zenon, <1>17, <2>1 DEF Quiesced, vars, CountInv
<1> QED
  BY Zenon, <1>1, <1>2, <1>3, <1>4, <1>5, <1>6, <1>7, <1>8, <1>9, <1>10, <1>11,
     <1>12, <1>13, <1>14, <1>15, <1>16, <1>17 DEF Next, Step, Recover

\* Every step keeps the phases in order, and none reaches a panic.
LEMMA PhaseStep ==
  ASSUME ControlInv, EnoughLog, Next, CountInv'
  PROVE  PhaseInv'
<1> TypeOK /\ CallInv /\ CountInv /\ SpaceInv /\ BootInv /\ CommitInv /\ LoopInv
  BY Zenon DEF ControlInv, PhaseInv
<1> USE LogConstants DEF TypeOK, MemType, ProcType, disk, bufs, memlog, proc,
                         history, InOp, Commits, Writes
<1>1. ASSUME NEW p \in Procs, begin_op(p) PROVE PhaseInv'
  <2>1. BootInv'
    BY Zenon, <1>1 DEF BootInv, begin_op, enter
  <2>2. CommitInv'
    BY <1>1, SMTT(40) DEF BootInv, CommitInv, begin_op, enter
  <2>3. LoopInv'
    BY <1>1 DEF BootInv, CommitInv, LoopInv, Active, begin_op, enter
  <2> QED
    BY Zenon, <2>1, <2>2, <2>3 DEF PhaseInv
<1>2. ASSUME NEW p \in Procs, NEW b \in Blocks, log_write(p, b) PROVE PhaseInv'
  <2>1. Len(lh) < LOGSIZE /\ Len(lh) < NLOG - 1 /\ outstanding \in Nat \ {0}
    BY Zenon, <1>2, RoomForWrite, ActiveCount DEF log_write
  <2>2. ~(TooBig \/ outstanding < 1)
    BY <2>1 DEF TooBig
  <2>3. sys' = "up" /\ pc' = [pc EXCEPT ![p] = "locked"]
        /\ lh' = lh /\ tail' = tail /\ committing' = committing
    BY Zenon, <1>2, <2>2 DEF log_write
  <2>4. BootInv'
    BY Zenon, <1>2, <2>3 DEF BootInv, log_write
  <2>5. CommitInv'
    BY <1>2, <2>3 DEF CommitInv, log_write
  <2>6. LoopInv'
    BY Zenon, <1>2, <2>3 DEF LoopInv, Active, CommitInv, log_write
  <2> QED
    BY Zenon, <2>4, <2>5, <2>6 DEF PhaseInv
<1>3. ASSUME NEW p \in Procs, end_op(p) PROVE PhaseInv'
  <2>1. /\ committing = 0 /\ sys' = "up" /\ lh' = lh /\ tail' = tail
        /\ outstanding' = outstanding - 1 /\ outstanding \in Nat
        /\ \A q \in Procs : ~Commits(q)
    BY Zenon, <1>3 DEF end_op, BootInv, CommitInv
  <2>2. Active' = {} <=> outstanding' = 0
    <3>1. IsFiniteSet(Active')
      BY Zenon, FS_Subset DEF Active
    <3> QED
      BY Zenon, <3>1, FS_EmptySet DEF CountInv
  <2>3. CASE do_commit
    <3>1. Active' = {} /\ committing' = 1 /\ pc' = [pc EXCEPT ![p] = "commit"]
      BY <1>3, <2>1, <2>2, <2>3, SMTT(40) DEF end_op, do_commit
    <3> QED
      BY <2>1, <3>1, SMTT(40) DEF PhaseInv, BootInv, CommitInv, LoopInv, Active
  <2>4. CASE ~do_commit
    <3>1. Active' # {} /\ committing' = 0 /\ pc' = [wakeup(pc) EXCEPT ![p] = "idle"]
      BY <1>3, <2>1, <2>2, <2>4 DEF end_op, do_commit
    <3>2. \A q \in Procs : ~Commits(q)'
      BY Zenon, <2>1, <3>1 DEF wakeup
    <3> QED
      BY Zenon, <2>1, <3>1, <3>2 DEF PhaseInv, BootInv, CommitInv, LoopInv
  <2> QED
    BY Zenon, <2>3, <2>4
<1>4. ASSUME NEW p \in Procs, begin_op_again(p) PROVE PhaseInv'
  <2>1. BootInv'
    BY Zenon, <1>4 DEF BootInv, begin_op_again, enter
  <2>2. CommitInv'
    BY <1>4, SMTT(40) DEF BootInv, CommitInv, begin_op_again, enter
  <2>3. LoopInv'
    BY <1>4, SMTT(40) DEF BootInv, CommitInv, LoopInv, Active, begin_op_again, enter
  <2> QED
    BY Zenon, <2>1, <2>2, <2>3 DEF PhaseInv
<1>5. ASSUME NEW p \in Procs, log_write_locked(p) PROVE PhaseInv'
  <2>1. BootInv'
    BY Zenon, <1>5 DEF BootInv, log_write_locked
  <2>2. CommitInv'
    BY Zenon, <1>5 DEF BootInv, CommitInv, log_write_locked
  <2>3. LoopInv'
    BY Zenon, <1>5 DEF BootInv, CommitInv, LoopInv, Active, log_write_locked
  <2> QED
    BY Zenon, <2>1, <2>2, <2>3 DEF PhaseInv
<1>6. ASSUME NEW p \in Procs, commit(p) PROVE PhaseInv'
  <2>1. BootInv'
    BY Zenon, <1>6 DEF BootInv, commit
  <2>2. CommitInv'
    BY <1>6, SMTT(40) DEF BootInv, CommitInv, commit
  <2>3. LoopInv'
    BY <1>6, SMTT(40) DEF BootInv, CommitInv, LoopInv, Active, commit
  <2> QED
    BY Zenon, <2>1, <2>2, <2>3 DEF PhaseInv
<1>7. ASSUME NEW p \in Procs, write_log(p) PROVE PhaseInv'
  <2>1. BootInv'
    BY Zenon, <1>7 DEF BootInv, write_log
  <2>2. CommitInv'
    BY <1>7, SMTT(40) DEF BootInv, CommitInv, write_log
  <2>3. LoopInv'
    BY <1>7, SMTT(40) DEF BootInv, CommitInv, LoopInv, Active, write_log
  <2> QED
    BY Zenon, <2>1, <2>2, <2>3 DEF PhaseInv
<1>8. ASSUME NEW p \in Procs, write_head(p) PROVE PhaseInv'
  <2>1. BootInv'
    BY Zenon, <1>8 DEF BootInv, write_head
  <2>2. CommitInv'
    BY <1>8, SMTT(40) DEF BootInv, CommitInv, write_head
  <2>3. LoopInv'
    BY <1>8, SMTT(40) DEF BootInv, CommitInv, LoopInv, Active, write_head
  <2> QED
    BY Zenon, <2>1, <2>2, <2>3 DEF PhaseInv
<1>9. ASSUME NEW p \in Procs, commit_install(p) PROVE PhaseInv'
  <2>1. BootInv'
    BY Zenon, <1>9 DEF BootInv, commit_install, install_trans
  <2>2. CommitInv'
    BY <1>9 DEF BootInv, CommitInv, commit_install, install_trans
  <2>3. LoopInv'
    <3>1. /\ tail \in 1..Len(lh) /\ tail' = tail + 1 /\ lh' = lh
          /\ pc[p] = "install" /\ committing' = committing /\ committing = 1
          /\ pc' = [pc EXCEPT ![p] = IF tail = Len(lh) THEN "erase" ELSE @]
      BY Zenon, <1>9 DEF CommitInv, LoopInv, commit_install, install_trans
    <3>2. \A q \in Procs : q # p => pc'[q] \notin {"write_log", "write_head", "install", "finish"}
      BY Zenon, <1>9, <3>1 DEF CommitInv
    <3> QED
      BY <3>1, <3>2 DEF LoopInv
  <2> QED
    BY Zenon, <2>1, <2>2, <2>3 DEF PhaseInv
<1>10. ASSUME NEW p \in Procs, commit_erase(p) PROVE PhaseInv'
  <2>1. BootInv'
    BY Zenon, <1>10 DEF BootInv, commit_erase, erase_log
  <2>2. CommitInv'
    BY <1>10, SMTT(40) DEF BootInv, CommitInv, commit_erase, erase_log
  <2>3. LoopInv'
    BY Zenon, <1>10 DEF BootInv, CommitInv, LoopInv, Active, commit_erase, erase_log
  <2> QED
    BY Zenon, <2>1, <2>2, <2>3 DEF PhaseInv
<1>11. ASSUME NEW p \in Procs, end_op_finish(p) PROVE PhaseInv'
  <2>1. \A q \in Procs : \/ pc'[q] = pc[q] /\ q # p
                         \/ pc[q] = "sleep" /\ pc'[q] = "woken"
                         \/ q = p /\ pc'[q] = "idle"
    BY Zenon, <1>11 DEF end_op_finish, wakeup
  <2>2. \A q \in Procs : ~Commits(q)' /\ ~InOp(q)'
    BY Zenon, <1>11, <2>1 DEF end_op_finish, CommitInv
  <2>3. sys = "up" /\ sys' = "up" /\ committing' = 0 /\ lh = <<>> /\ lh' = lh
    BY Zenon, <1>11 DEF end_op_finish, LoopInv
  <2>4. BootInv'
    BY Zenon, <2>3 DEF BootInv
  <2>5. CommitInv'
    BY <2>2, <2>3, SMTT(40) DEF CommitInv
  <2>6. \A q \in Procs : pc'[q] \notin {"write_log", "install", "write_head", "finish"}
    BY Zenon, <2>2
  <2>7. LoopInv'
    BY Zenon, <2>3, <2>6 DEF LoopInv
  <2> QED
    BY Zenon, <2>4, <2>5, <2>7 DEF PhaseInv
<1>12. ASSUME NEW b \in Blocks, bget_recycle(b) PROVE PhaseInv'
  <2>1. BootInv'
    BY Zenon, <1>12 DEF BootInv, bget_recycle, Recyclable
  <2>2. CommitInv'
    BY Zenon, <1>12 DEF BootInv, CommitInv, bget_recycle, Recyclable
  <2>3. LoopInv'
    BY Zenon, <1>12 DEF BootInv, CommitInv, LoopInv, Active, bget_recycle, Recyclable
  <2> QED
    BY Zenon, <2>1, <2>2, <2>3 DEF PhaseInv
<1>13. CASE read_head
  <2>1. BootInv'
    BY <1>13 DEF BootInv, read_head
  <2>2. CommitInv'
    BY Zenon, <1>13 DEF BootInv, CommitInv, read_head
  <2>3. LoopInv'
    BY Zenon, <1>13 DEF BootInv, CommitInv, LoopInv, Active, read_head
  <2> QED
    BY Zenon, <2>1, <2>2, <2>3 DEF PhaseInv
<1>14. CASE recover_install
  <2>1. BootInv'
    <3>1. /\ sys = "install" /\ tail \in 1..Len(lh) /\ tail' = tail + 1 /\ lh' = lh
          /\ pc' = pc /\ committing' = committing
          /\ sys' = IF tail = Len(lh) THEN "erase" ELSE sys
      BY Zenon, <1>14 DEF BootInv, recover_install, install_trans
    <3> QED
      BY <3>1 DEF BootInv
  <2>2. CommitInv'
    BY Zenon, <1>14 DEF BootInv, CommitInv, recover_install, install_trans
  <2>3. LoopInv'
    BY Zenon, <1>14 DEF BootInv, CommitInv, LoopInv, Active, recover_install, install_trans
  <2> QED
    BY Zenon, <2>1, <2>2, <2>3 DEF PhaseInv
<1>15. CASE recover_erase
  <2>1. BootInv'
    BY Zenon, <1>15 DEF BootInv, recover_erase, erase_log
  <2>2. CommitInv'
    BY Zenon, <1>15 DEF BootInv, CommitInv, recover_erase, erase_log
  <2>3. LoopInv'
    BY Zenon, <1>15 DEF BootInv, CommitInv, LoopInv, Active, recover_erase, erase_log
  <2> QED
    BY Zenon, <2>1, <2>2, <2>3 DEF PhaseInv
<1>16. CASE crash
  <2>1. BootInv'
    BY <1>16 DEF BootInv, crash
  <2>2. CommitInv'
    BY <1>16 DEF BootInv, CommitInv, crash
  <2>3. LoopInv'
    BY Zenon, <1>16 DEF BootInv, CommitInv, LoopInv, Active, crash
  <2> QED
    BY Zenon, <2>1, <2>2, <2>3 DEF PhaseInv
<1>17. CASE Quiesced
  <2>1. BootInv'
    BY Zenon, <1>17 DEF BootInv, Quiesced, vars
  <2>2. CommitInv'
    BY Zenon, <1>17 DEF BootInv, CommitInv, Quiesced, vars
  <2>3. LoopInv'
    BY <1>17 DEF BootInv, CommitInv, LoopInv, Active, Quiesced, vars
  <2> QED
    BY Zenon, <2>1, <2>2, <2>3 DEF PhaseInv
<1> QED
  BY <1>1, <1>2, <1>3, <1>4, <1>5, <1>6, <1>7, <1>8, <1>9, <1>10, <1>11,
     <1>12, <1>13, <1>14, <1>15, <1>16, <1>17 DEF Next, Step, Recover

-----------------------------------------------------------------------------
\* The control invariant is inductive.
LEMMA ControlStep ==
  ASSUME ControlInv, EnoughLog, [Next]_vars
  PROVE  ControlInv'
<1>1. CASE Next
  <2>1. SpaceInv'
    BY Zenon, <1>1, SpaceStep
  <2>2. TypeOK'
    BY Zenon, <1>1, <2>1, TypeStep
  <2>3. CallInv'
    BY Zenon, <1>1, CallStep
  <2>4. CountInv'
    BY Zenon, <1>1, CountStep
  <2>5. PhaseInv'
    BY Zenon, <1>1, <2>4, PhaseStep
  <2> QED
    BY Zenon, <2>1, <2>2, <2>3, <2>4, <2>5 DEF ControlInv
<1>2. CASE UNCHANGED vars
  <2> USE <1>2 DEF vars, disk, bufs, memlog, proc, history
  <2>1. TypeOK'
    BY Zenon DEF ControlInv, TypeOK, DiskType, MemType, ProcType
  <2>2. CallInv'
    BY Zenon DEF ControlInv, CallInv
  <2>4. Active' = Active /\ Tokens' = Tokens
    <3>1. \A q \in Procs : (InOp(q)' <=> InOp(q)) /\ Used(q)' = Used(q)
      BY Zenon DEF InOp, Used, Logged
    <3> QED
      BY Zenon, <3>1 DEF Active, Tokens
  <2>5. CountInv' /\ SpaceInv'
    BY Zenon, <2>4 DEF ControlInv, CountInv, SpaceInv
  <2>6. BootInv'
    BY Zenon DEF ControlInv, PhaseInv, BootInv
  <2>7. CommitInv'
    BY Zenon DEF ControlInv, PhaseInv, CommitInv, InOp, Commits, Writes
  <2>8. LoopInv'
    BY Zenon, <2>4 DEF ControlInv, PhaseInv, LoopInv
  <2> QED
    BY Zenon, <2>1, <2>2, <2>5, <2>6, <2>7, <2>8 DEF ControlInv, PhaseInv
<1> QED
  BY Zenon, <1>1, <1>2

\* Calls, commits and recovery keep the control invariant of LogInv, for any
\* number of processes, blocks, calls and power failures (log.c:115-233).
THEOREM ControlInvariant ==
  ASSUME EnoughLog
  PROVE  Spec => []ControlInv
<1>1. Init => ControlInv
  BY Zenon, InitControl
<1>2. ControlInv /\ [Next]_vars => ControlInv'
  BY Zenon, ControlStep
<1> QED
  BY <1>1, <1>2, PTL DEF Spec

\* Every variable of log.c, the disk and the buffer cache keeps its type.
THEOREM TypeCorrect ==
  ASSUME EnoughLog
  PROVE  Spec => []TypeOK
<1>1. ControlInv => TypeOK
  BY DEF ControlInv
<1> QED
  BY <1>1, ControlInvariant, PTL

\* With two blocks of slack in each call's reservation, the test in begin_op
\* (log.c:132) keeps every panic of log.c out of reach (log.c:152, 218-221).
THEOREM ReservationSuffices ==
  ASSUME EnoughLog
  PROVE  Spec => []NeverPanics
<1>1. ControlInv => NeverPanics
  BY DEF ControlInv, PhaseInv, BootInv, CommitInv, LoopInv, NeverPanics
<1> QED
  BY <1>1, ControlInvariant, PTL

\* Neither header outgrows the log region.
LEMMA BoundStep ==
  ASSUME ControlInv, EnoughLog, BoundInv, Next
  PROVE  BoundInv'
<1> TypeOK /\ CallInv /\ PhaseInv /\ SpaceInv
  BY Zenon DEF ControlInv
<1> NLOG - 1 \in Nat
  BY LogConstants DEF EnoughLog
<1> USE LogConstants DEF TypeOK, DiskType, MemType, ProcType, disk, bufs, memlog, proc,
                         history, BoundInv
<1>1. ASSUME NEW p \in Procs, begin_op(p) PROVE BoundInv'
  BY Zenon, <1>1 DEF begin_op, enter
<1>2. ASSUME NEW p \in Procs, NEW b \in Blocks, log_write(p, b) PROVE BoundInv'
  BY Zenon, <1>2 DEF log_write
<1>3. ASSUME NEW p \in Procs, end_op(p) PROVE BoundInv'
  BY Zenon, <1>3 DEF end_op, wakeup
<1>4. ASSUME NEW p \in Procs, begin_op_again(p) PROVE BoundInv'
  BY Zenon, <1>4 DEF begin_op_again, enter
<1>5. ASSUME NEW p \in Procs, log_write_locked(p) PROVE BoundInv'
  <2>1. Len(lh) < NLOG - 1
    <3>1. InOp(p)
      BY Zenon, <1>5 DEF log_write_locked, InOp
    <3> QED
      BY Zenon, <3>1, RoomForWrite
  <2>2. Len(lh') <= Len(lh) + 1 /\ dhead' = dhead
    BY <1>5, SMTT(40) DEF log_write_locked, absorb, CallInv
  <2> QED
    BY <2>1, <2>2
<1>6. ASSUME NEW p \in Procs, commit(p) PROVE BoundInv'
  BY Zenon, <1>6 DEF commit
<1>7. ASSUME NEW p \in Procs, write_log(p) PROVE BoundInv'
  BY Zenon, <1>7 DEF write_log
<1>8. ASSUME NEW p \in Procs, write_head(p) PROVE BoundInv'
  BY Zenon, <1>8 DEF write_head
<1>9. ASSUME NEW p \in Procs, commit_install(p) PROVE BoundInv'
  BY Zenon, <1>9 DEF commit_install, install_trans
<1>10. ASSUME NEW p \in Procs, commit_erase(p) PROVE BoundInv'
  BY <1>10 DEF commit_erase, erase_log
<1>11. ASSUME NEW p \in Procs, end_op_finish(p) PROVE BoundInv'
  BY Zenon, <1>11 DEF end_op_finish, wakeup
<1>12. ASSUME NEW b \in Blocks, bget_recycle(b) PROVE BoundInv'
  BY Zenon, <1>12 DEF bget_recycle, Recyclable
<1>13. CASE read_head
  BY Zenon, <1>13 DEF read_head
<1>14. CASE recover_install
  BY Zenon, <1>14 DEF recover_install, install_trans
<1>15. CASE recover_erase
  BY <1>15 DEF recover_erase, erase_log
<1>16. CASE crash
  BY <1>16 DEF crash
<1>17. CASE Quiesced
  BY Zenon, <1>17 DEF Quiesced, vars
<1> QED
  BY <1>1, <1>2, <1>3, <1>4, <1>5, <1>6, <1>7, <1>8, <1>9, <1>10, <1>11,
     <1>12, <1>13, <1>14, <1>15, <1>16, <1>17 DEF Next, Step, Recover

\* Every step that puts a process to sleep in begin_op leaves someone who
\* will wake it, and the last such step wakes it.
LEMMA WakerStep ==
  ASSUME ControlInv, SleeperHasWaker, Next
  PROVE  SleeperHasWaker'
<1> TypeOK /\ CountInv /\ PhaseInv
  BY Zenon DEF ControlInv
<1> USE LogConstants DEF TypeOK, MemType, ProcType, disk, bufs, memlog, proc,
                         history, SleeperHasWaker
<1>1. ASSUME NEW p \in Procs, begin_op(p) PROVE SleeperHasWaker'
  <2>1. outstanding = 0 /\ committing = 0 => lh = <<>>
    <3>1. outstanding = 0 => Active = {}
      BY Zenon, ActiveCount DEF Active
    <3> QED
      BY Zenon, <1>1, <3>1 DEF PhaseInv, BootInv, CommitInv, LoopInv, begin_op
  <2>2. outstanding = 0 /\ committing = 0 => ~NoRoom
    BY <2>1 DEF NoRoom
  <2> QED
    BY <1>1, <2>2 DEF begin_op, enter
<1>2. ASSUME NEW p \in Procs, NEW b \in Blocks, log_write(p, b) PROVE SleeperHasWaker'
  BY Zenon, <1>2 DEF log_write
<1>3. ASSUME NEW p \in Procs, end_op(p) PROVE SleeperHasWaker'
  <2>1. committing = 0 /\ outstanding \in Nat \ {0}
    BY Zenon, <1>3, ActiveCount DEF end_op, InOp, PhaseInv, BootInv, CommitInv, LoopInv, Commits
  <2>2. committing' = 1 \/ outstanding' > 0
    BY <1>3, <2>1 DEF end_op, do_commit
  <2> QED
    BY Zenon, <2>2
<1>4. ASSUME NEW p \in Procs, begin_op_again(p) PROVE SleeperHasWaker'
  <2>1. outstanding = 0 /\ committing = 0 => lh = <<>>
    <3>1. outstanding = 0 => Active = {}
      BY Zenon, ActiveCount DEF Active
    <3> QED
      BY Zenon, <1>4, <3>1 DEF PhaseInv, BootInv, CommitInv, LoopInv, begin_op_again
  <2>2. outstanding = 0 /\ committing = 0 => ~NoRoom
    BY <2>1 DEF NoRoom
  <2> QED
    BY <1>4, <2>2 DEF begin_op_again, enter
<1>5. ASSUME NEW p \in Procs, log_write_locked(p) PROVE SleeperHasWaker'
  BY Zenon, <1>5 DEF log_write_locked
<1>6. ASSUME NEW p \in Procs, commit(p) PROVE SleeperHasWaker'
  BY Zenon, <1>6 DEF commit
<1>7. ASSUME NEW p \in Procs, write_log(p) PROVE SleeperHasWaker'
  BY Zenon, <1>7 DEF write_log
<1>8. ASSUME NEW p \in Procs, write_head(p) PROVE SleeperHasWaker'
  BY Zenon, <1>8 DEF write_head
<1>9. ASSUME NEW p \in Procs, commit_install(p) PROVE SleeperHasWaker'
  BY Zenon, <1>9 DEF commit_install, install_trans
<1>10. ASSUME NEW p \in Procs, commit_erase(p) PROVE SleeperHasWaker'
  BY Zenon, <1>10 DEF commit_erase, erase_log
<1>11. ASSUME NEW p \in Procs, end_op_finish(p) PROVE SleeperHasWaker'
  <2>1. \A q \in Procs : pc'[q] # "sleep"
    BY Zenon, <1>11 DEF end_op_finish, wakeup
  <2> QED
    BY Zenon, <2>1
<1>12. ASSUME NEW b \in Blocks, bget_recycle(b) PROVE SleeperHasWaker'
  BY Zenon, <1>12 DEF bget_recycle, Recyclable
<1>13. CASE read_head
  BY Zenon, <1>13 DEF read_head
<1>14. CASE recover_install
  BY Zenon, <1>14 DEF recover_install, install_trans
<1>15. CASE recover_erase
  BY Zenon, <1>15 DEF recover_erase, erase_log
<1>16. CASE crash
  BY Zenon, <1>16 DEF crash
<1>17. CASE Quiesced
  BY Zenon, <1>17 DEF Quiesced, vars
<1> QED
  BY <1>1, <1>2, <1>3, <1>4, <1>5, <1>6, <1>7, <1>8, <1>9, <1>10, <1>11,
     <1>12, <1>13, <1>14, <1>15, <1>16, <1>17 DEF Next, Step, Recover

\* The header in memory never names more blocks than the log region holds,
\* so write_log and install_trans stay inside it, although log_write tests
\* the size before it takes log.lock (log.c:218-222).
THEOREM LogStaysInBounds ==
  ASSUME EnoughLog
  PROVE  Spec => []LogInBounds
<1>1. Init => BoundInv
  BY LogConstants DEF Init, BoundInv, EnoughLog
<1>2. ControlInv /\ BoundInv /\ [Next]_vars => BoundInv'
  <2>1. CASE Next
    BY Zenon, <2>1, BoundStep
  <2>2. CASE UNCHANGED vars
    BY Zenon, <2>2 DEF vars, disk, memlog, BoundInv
  <2> QED
    BY Zenon, <2>1, <2>2
<1>3. BoundInv => LogInBounds
  BY Zenon DEF BoundInv, LogInBounds
<1> QED
  BY <1>1, <1>2, <1>3, ControlInvariant, PTL DEF Spec

\* A process asleep in begin_op always has an end_op to come that wakes it:
\* no lost wakeup and no waiting for space nobody holds (log.c:129-134).
THEOREM SleeperAlwaysHasWaker ==
  ASSUME EnoughLog
  PROVE  Spec => []SleeperHasWaker
<1>1. Init => SleeperHasWaker
  BY Zenon DEF Init, SleeperHasWaker
<1>2. ControlInv /\ SleeperHasWaker /\ [Next]_vars => SleeperHasWaker'
  <2>1. CASE Next
    BY Zenon, <2>1, WakerStep
  <2>2. CASE UNCHANGED vars
    BY Zenon, <2>2 DEF vars, memlog, proc, SleeperHasWaker
  <2> QED
    BY Zenon, <2>1, <2>2
<1> QED
  BY <1>1, <1>2, ControlInvariant, PTL DEF Spec
=============================================================================
