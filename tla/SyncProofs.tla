----------------------------- MODULE SyncProofs -----------------------------
(***************************************************************************)
(* Proofs about the spinlocks, the sleep-lock and the clock of module      *)
(* Sync, for any sets of CPUs, processes and locks, any order on the locks *)
(* and any width of the ticks.                                             *)
(*                                                                         *)
(* Spinlocks: MutualExclusion, HoldingExact and CliMatched follow from one *)
(* inductive invariant, SpinInv.  What it adds is what locked and cpu of a *)
(* lock say about the code that has it (OwnInv), that ncli counts the      *)
(* locks held (NestInv), where the interrupt flag is between pushcli and   *)
(* popcli (CliInv), that an interrupt suspends only code that holds        *)
(* nothing (SuspInv), and that callers who keep to Rank wait only for a    *)
(* lock above all they hold (RankInv), from which NoDeadlock follows.      *)
(***************************************************************************)
EXTENDS Sync, FiniteSetTheorems, WellFoundedInduction, TLAPS

(* acquire and release work on a lock. *)
LkInv == \A c \in CPUs : at[c] # "run" => lk[c] \in Locks

(* Only code that holds no lock is interrupted, possibly inside pushcli    *)
(* before its cli.                                                         *)
SuspInv ==
  \A c \in CPUs : susp[c] # Spin!NoFrame =>
    /\ susp[c].at \in {"run", "pushcli"} /\ susp[c].held = {}
    /\ susp[c].at = "pushcli" => susp[c].eflags = 1 /\ susp[c].lk \in Locks

(* The labels at which pushcli has been called for a lock that is not held. *)
Pushed == {"acq_locked", "acq_cpu", "xchg", "setcpu", "acquire_panic", "popcli"}

NestInv ==
  \A c \in CPUs :
    ncli[c] = Cardinality(held[c]) + IF at[c] \in Pushed THEN 1 ELSE 0

(* Interrupts are on outside of locks and handlers, and intena says so     *)
(* while they are off for a lock.                                          *)
CliInv ==
  \A c \in CPUs :
    /\ at[c] # "popcli_panic"
    /\ intf[c] = IF ncli[c] = 0 /\ susp[c] = Spin!NoFrame THEN 1 ELSE 0
    /\ ncli[c] # 0 => intena[c] = IF susp[c] = Spin!NoFrame THEN 1 ELSE 0
    /\ at[c] = "pushcli" => eflags[c] = intf[c]

(* The CPU has the lock, from its xchg to its store of 0. *)
Has(c, l) == l \in held[c] \/ (at[c] = "setcpu" /\ lk[c] = l)

OwnInv ==
  /\ \A c, d \in CPUs, l \in Locks : Has(c, l) /\ Has(d, l) => c = d
  /\ \A c \in CPUs, l \in Locks : Has(c, l) => locked[l] = 1
  /\ \A c \in CPUs, l \in Locks :
       cpu[l] = c <=> l \in held[c] /\ ~(at[c] = "unlock" /\ lk[c] = l)

HoldInv ==
  \A c \in CPUs :
    /\ at[c] \in {"acquire_panic", "clear", "unlock"} => lk[c] \in held[c]
    /\ at[c] \in {"xchg", "setcpu", "release_panic"} => lk[c] \notin held[c]

RankInv ==
  ordered = 1 => \A c \in CPUs : at[c] \in {"pushcli", "acq_locked", "acq_cpu", "xchg"} =>
    \A h \in held[c] : Rank[h] < Rank[lk[c]]

SpinInv ==
  /\ Spin!TypeOK
  /\ LkInv /\ SuspInv /\ NestInv /\ CliInv
  /\ OwnInv /\ HoldInv /\ RankInv

-----------------------------------------------------------------------------

(* What is assumed of the CPUs, the locks and their order. *)
LEMMA SpinAssumed ==
  0 \notin CPUs /\ 0 \notin Locks /\ IsFiniteSet(Locks) /\ Rank \in [Locks -> Nat]
BY SpinLockAssumption DEF Spin!SpinLockConstants, Spin!IsFiniteSet, IsFiniteSet

(* The locks a CPU holds are finitely many, and ncli is 0 exactly when it  *)
(* is not in or on the way into or out of one.                             *)
LEMMA HeldFacts ==
  ASSUME SpinInv, NEW c \in CPUs
  PROVE  /\ IsFiniteSet(held[c]) /\ Cardinality(held[c]) \in Nat
         /\ ncli[c] = 0 <=> held[c] = {} /\ at[c] \notin Pushed
<1>1. IsFiniteSet(held[c])
  BY Zenon, FS_Subset, SpinAssumed DEF SpinInv, Spin!TypeOK
<1>2. Cardinality(held[c]) \in Nat /\ (Cardinality(held[c]) = 0 <=> held[c] = {})
  BY Zenon, <1>1, FS_CardinalityType, FS_EmptySet
<1>3. QED
  BY <1>1, <1>2 DEF SpinInv, NestInv

USE DEF Spin!goto, Spin!shared, Spin!clis

-----------------------------------------------------------------------------
(* One lemma for each step: it keeps the invariant. *)

(* acquire is called. *)
LEMMA acquire_step ==
  ASSUME SpinInv, UNCHANGED ordered, NEW c \in CPUs, NEW l \in Locks, Spin!acquire(c, l)
  PROVE  SpinInv'
<1> /\ Spin!TypeOK /\ LkInv /\ SuspInv /\ NestInv /\ CliInv /\ OwnInv /\ HoldInv /\ RankInv
  BY Zenon DEF SpinInv
<1> USE DEF Spin!acquire
<1>1. Spin!TypeOK'
  BY Zenon DEF Spin!TypeOK, Spin!PCs, Spin!Panics
<1>2. LkInv'
  BY Zenon DEF Spin!TypeOK, LkInv
<1>3. SuspInv'
  BY Zenon DEF Spin!TypeOK, SuspInv
<1>4. NestInv'
  BY Zenon DEF Spin!TypeOK, NestInv, Pushed
<1>5. CliInv'
  BY Zenon DEF Spin!TypeOK, CliInv
<1>6. OwnInv'
  BY DEF Spin!TypeOK, LkInv, OwnInv, Has, HoldInv
<1>7. HoldInv'
  BY DEF Spin!TypeOK, LkInv, OwnInv, Has, HoldInv
<1>8. RankInv'
  BY Zenon DEF Spin!TypeOK, LkInv, RankInv
<1>9. QED
  BY Zenon, <1>1, <1>2, <1>3, <1>4, <1>5, <1>6, <1>7, <1>8 DEF SpinInv

(* The cli of pushcli. *)
LEMMA pushcli_step ==
  ASSUME SpinInv, UNCHANGED ordered, NEW c \in CPUs, Spin!pushcli(c)
  PROVE  SpinInv'
<1> /\ Spin!TypeOK /\ LkInv /\ SuspInv /\ NestInv /\ CliInv /\ OwnInv /\ HoldInv /\ RankInv
  BY Zenon DEF SpinInv
<1> USE DEF Spin!pushcli
<1>1. Spin!TypeOK'
  BY DEF Spin!TypeOK, Spin!PCs, Spin!Panics
<1>2. LkInv'
  BY Zenon DEF Spin!TypeOK, LkInv
<1>3. SuspInv'
  BY Zenon DEF Spin!TypeOK, SuspInv
<1>4. NestInv'
  BY HeldFacts DEF Spin!TypeOK, NestInv, Pushed
<1>5. CliInv'
  BY HeldFacts DEF Spin!TypeOK, CliInv, Pushed
<1>6. OwnInv'
  BY DEF Spin!TypeOK, LkInv, OwnInv, Has, HoldInv
<1>7. HoldInv'
  BY DEF Spin!TypeOK, LkInv, OwnInv, Has, HoldInv
<1>8. RankInv'
  BY Zenon DEF Spin!TypeOK, LkInv, RankInv
<1>9. QED
  BY Zenon, <1>1, <1>2, <1>3, <1>4, <1>5, <1>6, <1>7, <1>8 DEF SpinInv

(* holding, called by acquire. *)
LEMMA acquire_holding_step ==
  ASSUME SpinInv, UNCHANGED ordered, NEW c \in CPUs, Spin!acquire_holding(c)
  PROVE  SpinInv'
<1> /\ Spin!TypeOK /\ LkInv /\ SuspInv /\ NestInv /\ CliInv /\ OwnInv /\ HoldInv /\ RankInv
  BY Zenon DEF SpinInv
<1> USE DEF Spin!acquire_holding, Spin!holding_locked, Spin!holding_cpu
<1>1. Spin!TypeOK'
  BY Zenon DEF Spin!TypeOK, Spin!PCs, Spin!Panics
<1>2. LkInv'
  BY Zenon DEF Spin!TypeOK, LkInv
<1>3. SuspInv'
  BY Zenon DEF Spin!TypeOK, SuspInv
<1>4. NestInv'
  BY Zenon DEF Spin!TypeOK, NestInv, Pushed
<1>5. CliInv'
  BY DEF Spin!TypeOK, CliInv
<1>6. OwnInv'
  BY DEF Spin!TypeOK, LkInv, OwnInv, Has, HoldInv
<1>7. HoldInv'
  BY DEF Spin!TypeOK, LkInv, OwnInv, Has, HoldInv
<1>8. RankInv'
  BY Zenon DEF Spin!TypeOK, LkInv, RankInv
<1>9. QED
  BY Zenon, <1>1, <1>2, <1>3, <1>4, <1>5, <1>6, <1>7, <1>8 DEF SpinInv

(* The xchg that takes the lock. *)
LEMMA xchg_step ==
  ASSUME SpinInv, UNCHANGED ordered, NEW c \in CPUs, Spin!xchg(c)
  PROVE  SpinInv'
<1> /\ Spin!TypeOK /\ LkInv /\ SuspInv /\ NestInv /\ CliInv /\ OwnInv /\ HoldInv /\ RankInv
  BY Zenon DEF SpinInv
<1> USE DEF Spin!xchg
<1>1. Spin!TypeOK'
  BY Zenon DEF Spin!TypeOK, Spin!PCs, Spin!Panics
<1>2. LkInv'
  BY Zenon DEF Spin!TypeOK, LkInv
<1>3. SuspInv'
  BY Zenon DEF Spin!TypeOK, SuspInv
<1>4. NestInv'
  BY Zenon DEF Spin!TypeOK, NestInv, Pushed
<1>5. CliInv'
  BY Zenon DEF Spin!TypeOK, CliInv
<1>6. OwnInv'
  BY DEF Spin!TypeOK, LkInv, OwnInv, Has, HoldInv
<1>7. HoldInv'
  BY DEF Spin!TypeOK, LkInv, OwnInv, Has, HoldInv
<1>8. RankInv'
  BY Zenon DEF Spin!TypeOK, LkInv, RankInv
<1>9. QED
  BY Zenon, <1>1, <1>2, <1>3, <1>4, <1>5, <1>6, <1>7, <1>8 DEF SpinInv

(* The lock is recorded as held. *)
LEMMA setcpu_step ==
  ASSUME SpinInv, UNCHANGED ordered, NEW c \in CPUs, Spin!setcpu(c)
  PROVE  SpinInv'
<1> /\ Spin!TypeOK /\ LkInv /\ SuspInv /\ NestInv /\ CliInv /\ OwnInv /\ HoldInv /\ RankInv
  BY Zenon DEF SpinInv
<1> USE DEF Spin!setcpu
<1>1. Spin!TypeOK'
  BY DEF Spin!TypeOK, Spin!PCs, Spin!Panics, LkInv
<1>2. LkInv'
  BY Zenon DEF Spin!TypeOK, LkInv
<1>3. SuspInv'
  BY Zenon DEF Spin!TypeOK, SuspInv
<1>4. NestInv'
  <2>1. Cardinality(held[c] \cup {lk[c]}) = Cardinality(held[c]) + 1
    BY Zenon, HeldFacts, FS_AddElement DEF HoldInv
  <2>2. QED
    BY <2>1 DEF Spin!TypeOK, NestInv, Pushed
<1>5. CliInv'
  BY Zenon DEF Spin!TypeOK, CliInv
<1>6. OwnInv'
  BY DEF Spin!TypeOK, LkInv, OwnInv, Has, HoldInv
<1>7. HoldInv'
  BY DEF Spin!TypeOK, LkInv, OwnInv, Has, HoldInv
<1>8. RankInv'
  BY Zenon DEF Spin!TypeOK, LkInv, RankInv
<1>9. QED
  BY Zenon, <1>1, <1>2, <1>3, <1>4, <1>5, <1>6, <1>7, <1>8 DEF SpinInv

(* release is called. *)
LEMMA release_step ==
  ASSUME SpinInv, UNCHANGED ordered, NEW c \in CPUs, NEW l \in Locks, Spin!release(c, l)
  PROVE  SpinInv'
<1> /\ Spin!TypeOK /\ LkInv /\ SuspInv /\ NestInv /\ CliInv /\ OwnInv /\ HoldInv /\ RankInv
  BY Zenon DEF SpinInv
<1> USE DEF Spin!release
<1>1. Spin!TypeOK'
  BY Zenon DEF Spin!TypeOK, Spin!PCs, Spin!Panics
<1>2. LkInv'
  BY Zenon DEF Spin!TypeOK, LkInv
<1>3. SuspInv'
  BY Zenon DEF Spin!TypeOK, SuspInv
<1>4. NestInv'
  BY Zenon DEF Spin!TypeOK, NestInv, Pushed
<1>5. CliInv'
  BY Zenon DEF Spin!TypeOK, CliInv
<1>6. OwnInv'
  BY DEF Spin!TypeOK, LkInv, OwnInv, Has, HoldInv
<1>7. HoldInv'
  BY DEF Spin!TypeOK, LkInv, OwnInv, Has, HoldInv
<1>8. RankInv'
  BY Zenon DEF Spin!TypeOK, LkInv, RankInv
<1>9. QED
  BY Zenon, <1>1, <1>2, <1>3, <1>4, <1>5, <1>6, <1>7, <1>8 DEF SpinInv

(* holding, called by release. *)
LEMMA release_holding_step ==
  ASSUME SpinInv, UNCHANGED ordered, NEW c \in CPUs, Spin!release_holding(c)
  PROVE  SpinInv'
<1> /\ Spin!TypeOK /\ LkInv /\ SuspInv /\ NestInv /\ CliInv /\ OwnInv /\ HoldInv /\ RankInv
  BY Zenon DEF SpinInv
<1> USE DEF Spin!release_holding, Spin!holding_locked, Spin!holding_cpu
<1>1. Spin!TypeOK'
  BY Zenon DEF Spin!TypeOK, Spin!PCs, Spin!Panics
<1>2. LkInv'
  BY Zenon DEF Spin!TypeOK, LkInv
<1>3. SuspInv'
  BY Zenon DEF Spin!TypeOK, SuspInv
<1>4. NestInv'
  BY DEF Spin!TypeOK, NestInv, Pushed
<1>5. CliInv'
  BY DEF Spin!TypeOK, CliInv
<1>6. OwnInv'
  BY DEF Spin!TypeOK, LkInv, OwnInv, Has, HoldInv
<1>7. HoldInv'
  BY DEF Spin!TypeOK, LkInv, OwnInv, Has, HoldInv
<1>8. RankInv'
  BY Zenon DEF Spin!TypeOK, LkInv, RankInv
<1>9. QED
  BY Zenon, <1>1, <1>2, <1>3, <1>4, <1>5, <1>6, <1>7, <1>8 DEF SpinInv

(* release clears cpu ... *)
LEMMA clear_step ==
  ASSUME SpinInv, UNCHANGED ordered, NEW c \in CPUs, Spin!clear(c)
  PROVE  SpinInv'
<1> /\ Spin!TypeOK /\ LkInv /\ SuspInv /\ NestInv /\ CliInv /\ OwnInv /\ HoldInv /\ RankInv
  BY Zenon DEF SpinInv
<1> USE DEF Spin!clear
<1>1. Spin!TypeOK'
  BY Zenon DEF Spin!TypeOK, Spin!PCs, Spin!Panics
<1>2. LkInv'
  BY Zenon DEF Spin!TypeOK, LkInv
<1>3. SuspInv'
  BY Zenon DEF Spin!TypeOK, SuspInv
<1>4. NestInv'
  BY Zenon DEF Spin!TypeOK, NestInv, Pushed
<1>5. CliInv'
  BY Zenon DEF Spin!TypeOK, CliInv
<1>6. OwnInv'
  BY SpinAssumed DEF Spin!TypeOK, LkInv, OwnInv, Has, HoldInv
<1>7. HoldInv'
  BY DEF Spin!TypeOK, LkInv, OwnInv, Has, HoldInv
<1>8. RankInv'
  BY Zenon DEF Spin!TypeOK, LkInv, RankInv
<1>9. QED
  BY Zenon, <1>1, <1>2, <1>3, <1>4, <1>5, <1>6, <1>7, <1>8 DEF SpinInv

(* ... and frees the lock. *)
LEMMA unlock_step ==
  ASSUME SpinInv, UNCHANGED ordered, NEW c \in CPUs, Spin!unlock(c)
  PROVE  SpinInv'
<1> /\ Spin!TypeOK /\ LkInv /\ SuspInv /\ NestInv /\ CliInv /\ OwnInv /\ HoldInv /\ RankInv
  BY Zenon DEF SpinInv
<1> USE DEF Spin!unlock
<1>1. Spin!TypeOK'
  BY Zenon DEF Spin!TypeOK, Spin!PCs, Spin!Panics
<1>2. LkInv'
  BY Zenon DEF Spin!TypeOK, LkInv
<1>3. SuspInv'
  BY Zenon DEF Spin!TypeOK, SuspInv
<1>4. NestInv'
  <2>1. Cardinality(held[c] \ {lk[c]}) = Cardinality(held[c]) - 1
    BY Zenon, HeldFacts, FS_RemoveElement DEF HoldInv
  <2>2. QED
    BY <2>1, HeldFacts DEF Spin!TypeOK, NestInv, Pushed
<1>5. CliInv'
  BY Zenon DEF Spin!TypeOK, CliInv
<1>6. OwnInv'
  BY DEF Spin!TypeOK, LkInv, OwnInv, Has, HoldInv
<1>7. HoldInv'
  BY DEF Spin!TypeOK, LkInv, OwnInv, Has, HoldInv
<1>8. RankInv'
  BY Zenon DEF Spin!TypeOK, LkInv, RankInv
<1>9. QED
  BY Zenon, <1>1, <1>2, <1>3, <1>4, <1>5, <1>6, <1>7, <1>8 DEF SpinInv

(* The popcli of release undoes the pushcli of acquire. *)
LEMMA popcli_step ==
  ASSUME SpinInv, UNCHANGED ordered, NEW c \in CPUs, Spin!popcli(c)
  PROVE  SpinInv'
<1> /\ Spin!TypeOK /\ LkInv /\ SuspInv /\ NestInv /\ CliInv /\ OwnInv /\ HoldInv /\ RankInv
  BY Zenon DEF SpinInv
<1> USE DEF Spin!popcli
<1>0. ncli[c] \in Nat /\ ncli[c] # 0 /\ intf[c] = 0
  BY Zenon, HeldFacts DEF Spin!TypeOK, CliInv, Pushed
<1>1. Spin!TypeOK'
  BY <1>0 DEF Spin!TypeOK, Spin!PCs, Spin!Panics
<1>2. LkInv'
  BY <1>0 DEF Spin!TypeOK, LkInv
<1>3. SuspInv'
  BY Zenon DEF Spin!TypeOK, SuspInv
<1>4. NestInv'
  BY <1>0, HeldFacts DEF Spin!TypeOK, NestInv, Pushed
<1>5. CliInv'
  BY <1>0 DEF Spin!TypeOK, CliInv
<1>6. OwnInv'
  BY <1>0 DEF Spin!TypeOK, LkInv, OwnInv, Has, HoldInv
<1>7. HoldInv'
  BY <1>0 DEF Spin!TypeOK, LkInv, HoldInv
<1>8. RankInv'
  BY <1>0 DEF Spin!TypeOK, LkInv, RankInv
<1>9. QED
  BY Zenon, <1>1, <1>2, <1>3, <1>4, <1>5, <1>6, <1>7, <1>8 DEF SpinInv

(* An interrupt finds its CPU outside of locks. *)
LEMMA interrupt_step ==
  ASSUME SpinInv, UNCHANGED ordered, NEW c \in CPUs, Spin!interrupt(c)
  PROVE  SpinInv'
<1> /\ Spin!TypeOK /\ LkInv /\ SuspInv /\ NestInv /\ CliInv /\ OwnInv /\ HoldInv /\ RankInv
  BY Zenon DEF SpinInv
<1> USE DEF Spin!interrupt
<1>0. /\ ncli[c] = 0 /\ susp[c] = Spin!NoFrame /\ held[c] = {} /\ at[c] \in {"run", "pushcli"}
      /\ at[c] = "pushcli" => eflags[c] = 1 /\ lk[c] \in Locks
  BY HeldFacts DEF Spin!TypeOK, CliInv, Pushed, HoldInv, LkInv, Spin!PCs, Spin!Panics
<1>1. Spin!TypeOK'
  BY <1>0 DEF Spin!TypeOK, Spin!PCs, Spin!Panics, Spin!Frames
<1>2. LkInv'
  BY Zenon DEF Spin!TypeOK, LkInv
<1>3. SuspInv'
  BY Zenon, <1>0 DEF Spin!TypeOK, SuspInv
<1>4. NestInv'
  BY Zenon, <1>0 DEF Spin!TypeOK, NestInv, Pushed
<1>5. CliInv'
  BY <1>0 DEF Spin!TypeOK, CliInv, Spin!NoFrame
<1>6. OwnInv'
  BY <1>0 DEF Spin!TypeOK, OwnInv, Has
<1>7. HoldInv'
  BY DEF Spin!TypeOK, LkInv, OwnInv, Has, HoldInv
<1>8. RankInv'
  BY Zenon DEF Spin!TypeOK, LkInv, RankInv
<1>9. QED
  BY Zenon, <1>1, <1>2, <1>3, <1>4, <1>5, <1>6, <1>7, <1>8 DEF SpinInv

(* The handler returns to the code it interrupted. *)
LEMMA iret_step ==
  ASSUME SpinInv, UNCHANGED ordered, NEW c \in CPUs, Spin!iret(c)
  PROVE  SpinInv'
<1> /\ Spin!TypeOK /\ LkInv /\ SuspInv /\ NestInv /\ CliInv /\ OwnInv /\ HoldInv /\ RankInv
  BY Zenon DEF SpinInv
<1> USE DEF Spin!iret
<1>0. /\ ncli[c] = 0 /\ susp[c].held = {} /\ susp[c].at \in {"run", "pushcli"}
      /\ susp[c].eflags \in {0, 1} /\ susp[c].lk \in Locks \cup {0}
      /\ susp[c].at = "pushcli" => susp[c].eflags = 1 /\ susp[c].lk \in Locks
  BY Zenon, HeldFacts DEF Spin!TypeOK, Spin!Frames, SuspInv, Pushed
<1>1. Spin!TypeOK'
  BY Zenon, <1>0 DEF Spin!TypeOK, Spin!PCs
<1>2. LkInv'
  BY Zenon, <1>0 DEF Spin!TypeOK, LkInv
<1>3. SuspInv'
  BY Zenon DEF Spin!TypeOK, SuspInv
<1>4. NestInv'
  <2>1. ncli'[c] = 0 /\ held'[c] = {} /\ at'[c] \notin Pushed
    BY Zenon, <1>0 DEF Spin!TypeOK, Pushed
  <2>2. Cardinality({}) = 0 /\ 0 = 0 + 0
    BY FS_EmptySet
  <2>3. \A d \in CPUs : d # c => ncli'[d] = ncli[d] /\ held'[d] = held[d] /\ at'[d] = at[d]
    BY Zenon DEF Spin!TypeOK
  <2>4. QED
    BY Zenon, <2>1, <2>2, <2>3 DEF NestInv
<1>5. CliInv'
  BY <1>0 DEF Spin!TypeOK, CliInv
<1>6. OwnInv'
  BY <1>0 DEF Spin!TypeOK, OwnInv, Has
<1>7. HoldInv'
  BY Zenon, <1>0 DEF Spin!TypeOK, HoldInv
<1>8. RankInv'
  BY Zenon, <1>0 DEF Spin!TypeOK, RankInv
<1>9. QED
  BY Zenon, <1>1, <1>2, <1>3, <1>4, <1>5, <1>6, <1>7, <1>8 DEF SpinInv

-----------------------------------------------------------------------------

(* The locks are initialised, and every CPU has interrupts on. *)
LEMMA SpinInit ==
  ASSUME Spin!Init
  PROVE  SpinInv
<1>1. Spin!TypeOK
  BY Zenon, SpinAssumed DEF Spin!Init, Spin!TypeOK, Spin!PCs
<1>2. NestInv
  <2>1. Cardinality({}) = 0 /\ "run" \notin Pushed
    BY Zenon, FS_EmptySet DEF Pushed
  <2>2. 0 = 0 + 0
    OBVIOUS
  <2>3. QED
    BY Zenon, <2>1, <2>2 DEF Spin!Init, NestInv
<1>3. LkInv /\ SuspInv /\ CliInv
  BY Zenon DEF Spin!Init, LkInv, SuspInv, CliInv
<1>4. OwnInv /\ HoldInv /\ RankInv
  BY Zenon, SpinAssumed DEF Spin!Init, OwnInv, Has, HoldInv, RankInv
<1>5. QED
  BY Zenon, <1>1, <1>2, <1>3, <1>4 DEF SpinInv

(* Whatever a CPU does next keeps the invariant. *)
LEMMA SpinStep ==
  ASSUME SpinInv, [Spin!Next]_(Spin!vars)
  PROVE  SpinInv'
<1>1. CASE UNCHANGED Spin!vars
  BY <1>1 DEF Spin!vars, SpinInv, Spin!TypeOK, LkInv, SuspInv, NestInv, CliInv, OwnInv, Has, HoldInv,
    RankInv
<1>2. CASE Spin!Next
  BY Zenon, <1>2, acquire_step, pushcli_step, acquire_holding_step, xchg_step, setcpu_step,
    release_step, release_holding_step, clear_step, unlock_step, popcli_step,
    interrupt_step, iret_step DEF Spin!Next
<1>3. QED
  BY Zenon, <1>1, <1>2

(* The invariant holds in every state the CPUs reach. *)
THEOREM SpinLockInvariant ==
  Spin!Spec => []SpinInv
BY SpinInit, SpinStep, PTL DEF Spin!Spec

(* What a CPU owns is what its running code holds. *)
LEMMA OwnedIsHeld ==
  ASSUME SpinInv, NEW c \in CPUs
  PROVE  Spin!Owned(c) = held[c]
BY DEF SpinInv, SuspInv, Spin!Owned, Spin!NoFrame

(* acquire excludes (spinlock.c:27-46). *)
THEOREM AcquireExcludes ==
  Spin!Spec => []Spin!MutualExclusion
<1>1. ASSUME SpinInv PROVE Spin!MutualExclusion
  BY <1>1, OwnedIsHeld DEF SpinInv, Spin!TypeOK, LkInv, OwnInv, Has, Spin!MutualExclusion
<1>2. QED
  BY <1>1, SpinLockInvariant, PTL

(* holding is exact although it reads locked and cpu one after the other   *)
(* (spinlock.c:122).                                                       *)
THEOREM HoldingIsExact ==
  Spin!Spec => []Spin!HoldingExact
<1>1. ASSUME SpinInv PROVE Spin!HoldingExact
  BY Zenon, <1>1, OwnedIsHeld DEF SpinInv, HoldInv, Spin!HoldingExact
<1>2. QED
  BY <1>1, SpinLockInvariant, PTL

(* pushcli and popcli are matched, and popcli does not panic               *)
(* (spinlock.c:135-165).                                                   *)
THEOREM PushcliIsMatched ==
  Spin!Spec => []Spin!CliMatched
<1>1. ASSUME SpinInv PROVE Spin!CliMatched
  <2> SUFFICES ASSUME NEW c \in CPUs
               PROVE  /\ at[c] # "popcli_panic"
                      /\ held[c] # {} => intf[c] = 0
                      /\ at[c] = "run" /\ held[c] = {} =>
                           ncli[c] = 0 /\ intf[c] = IF susp[c] = Spin!NoFrame THEN 1 ELSE 0
    BY Zenon, <1>1, OwnedIsHeld DEF Spin!CliMatched
  <2>1. ncli[c] = 0 <=> held[c] = {} /\ at[c] \notin Pushed
    BY Zenon, <1>1, HeldFacts
  <2>2. QED
    BY Zenon, <1>1, <2>1 DEF SpinInv, CliInv, Pushed
<1>2. QED
  BY <1>1, SpinLockInvariant, PTL

(* A nonempty set of locks has one that no other of them is ranked above.  *)
LEMMA TopLock ==
  ASSUME NEW T \in SUBSET Locks, T # {}
  PROVE  \E l \in T : \A m \in T : ~(Rank[l] < Rank[m])
<1> DEFINE Above(l) == {m \in T : Rank[l] < Rank[m]}
           Counts == {Cardinality(Above(l)) : l \in T}
           Less == {ss \in Nat \X Nat : ss[1] < ss[2]}
<1>1. \A l \in T : IsFiniteSet(Above(l)) /\ Cardinality(Above(l)) \in Nat
  BY Zenon, FS_Subset, FS_CardinalityType, SpinAssumed
<1>2. IsWellFoundedOn(Less, Nat)
  BY NatLessThanWellFounded, Zenon DEF OpToRel
<1>3. Counts \in SUBSET Nat /\ Counts # {}
  BY Zenon, <1>1
<1>4. \A x, y \in Nat : y < x => <<y, x>> \in Less
  BY Zenon DEF Less
<1> HIDE DEF Less, Counts
<1>5. PICK n \in Counts : \A y \in Counts : ~(<<y, n>> \in Less)
  BY <1>2, <1>3, WFMin, Zenon
<1>6. PICK l \in T : n = Cardinality(Above(l))
  BY Zenon, <1>5 DEF Counts
<1>7. ASSUME NEW m \in T, Rank[l] < Rank[m] PROVE FALSE
  <2>1. Above(m) \in SUBSET Above(l) /\ m \in Above(l) /\ m \notin Above(m)
    BY <1>7, SpinAssumed
  <2>2. Cardinality(Above(m)) < n
    <3>1. /\ Cardinality(Above(m)) <= n
          /\ n = Cardinality(Above(m)) => Above(l) = Above(m)
      BY Zenon, <1>1, <1>6, <2>1, FS_Subset
    <3>2. Cardinality(Above(m)) # n
      BY Zenon, <2>1, <3>1
    <3>3. Cardinality(Above(m)) \in Nat /\ n \in Nat
      BY Zenon, <1>1, <1>6
    <3>4. QED
      BY <3>1, <3>2, <3>3
  <2>3. Cardinality(Above(m)) \in Counts
    BY Zenon DEF Counts
  <2>4. QED
    BY Zenon, <1>1, <1>3, <1>4, <1>5, <2>2, <2>3
<1>8. QED
  BY Zenon, <1>7

(* Callers that keep to one order do not deadlock: among the locks a set   *)
(* of CPUs spins on is one at the top of the order, and whoever holds it   *)
(* does not spin on a lower one (spinlock.c:32).                           *)
THEOREM OrderedCallersDoNotDeadlock ==
  Spin!Spec => []Spin!NoDeadlock
<1>1. ASSUME SpinInv PROVE Spin!NoDeadlock
  <2> SUFFICES ASSUME ordered = 1, NEW S \in SUBSET CPUs, S # {},
                      \A c \in S : at[c] = "xchg" /\ \E d \in S : lk[c] \in Spin!Owned(d)
               PROVE  FALSE
    BY Zenon DEF Spin!NoDeadlock
  <2> DEFINE T == {lk[c] : c \in S}
  <2>1. T \in SUBSET Locks /\ T # {}
    BY Zenon, <1>1 DEF SpinInv, LkInv
  <2>2. PICK l \in T : \A m \in T : ~(Rank[l] < Rank[m])
    BY Zenon, <2>1, TopLock
  <2>3. PICK c \in S : l = lk[c]
    BY Zenon
  <2>4. PICK d \in S : l \in held[d]
    BY Zenon, <1>1, <2>3, OwnedIsHeld
  <2>5. Rank[l] < Rank[lk[d]]
    BY Zenon, <1>1, <2>4 DEF SpinInv, RankInv
  <2>6. QED
    BY Zenon, <2>2, <2>5
<1>2. QED
  BY <1>1, SpinLockInvariant, PTL

HIDE DEF Spin!goto, Spin!shared, Spin!clis

-----------------------------------------------------------------------------
(* Sleep-locks: HoldingSleepExact and NoMissedWakeup follow from SleepInv. *)
(* What it adds is who has the two spinlocks at each label, and what is    *)
(* known on the way to sleep: the sleep-lock is taken as long as lk->lk is *)
(* held, and after that whoever frees it cannot finish wakeup before the   *)
(* process sleeps, because the process has ptable.lock.                    *)

(* The labels at which a process holds lk->lk. *)
LocksLk == {"test", "sleep_acquire", "sleep_release", "clear", "wakeup", "release"}

SleepInv ==
  /\ Sleep!TypeOK
  /\ \A p \in Contenders : spc[p] \in LocksLk <=> slk = p
  /\ \A p \in Contenders : spc[p] \in {"sleep_release", "sleep"} <=> sptable = p
  /\ Sleep!HoldingSleepExact
  /\ slocked = 0 <=> spid = 0
  /\ \A p \in Contenders : sstate[p] = "SLEEPING" => spc[p] = "asleep"
  /\ \A p \in Contenders : spc[p] \in {"sleep_acquire", "sleep_release"} => slocked = 1
  /\ \A p \in Contenders :
       spc[p] = "sleep" /\ slocked = 0 => \E q \in Contenders : spc[q] = "wakeup"
  /\ Sleep!NoMissedWakeup

(* initsleeplock establishes the invariant. *)
LEMMA SleepInit ==
  Sleep!Init => SleepInv
BY SleepLockAssumption DEF Sleep!SleepLockConstants, Sleep!Init, SleepInv,
  Sleep!TypeOK, Sleep!PCs, LocksLk, Sleep!HoldingSleepExact,
  Sleep!holdingsleep, Sleep!NoMissedWakeup

(* Every step of acquiresleep, sleep, releasesleep, wakeup and kill keeps  *)
(* it.                                                                     *)
LEMMA SleepStep ==
  ASSUME SleepInv, [Sleep!Next]_(Sleep!vars)
  PROVE  SleepInv'
<1> USE SleepLockAssumption DEF Sleep!SleepLockConstants, SleepInv, Sleep!TypeOK,
      Sleep!PCs, LocksLk, Sleep!HoldingSleepExact,
      Sleep!holdingsleep, Sleep!NoMissedWakeup, Sleep!At, Sleep!goto
<1>1. ASSUME NEW p \in Contenders, Sleep!acquiresleep(p) PROVE SleepInv'
  BY <1>1 DEF Sleep!acquiresleep
<1>2. ASSUME NEW p \in Contenders, Sleep!test(p) PROVE SleepInv'
  BY <1>2 DEF Sleep!test
<1>3. ASSUME NEW p \in Contenders, Sleep!sleep_acquire(p) PROVE SleepInv'
  BY <1>3 DEF Sleep!sleep_acquire
<1>4. ASSUME NEW p \in Contenders, Sleep!sleep_release(p) PROVE SleepInv'
  BY <1>4 DEF Sleep!sleep_release
<1>5. ASSUME NEW p \in Contenders, Sleep!sleep(p) PROVE SleepInv'
  BY <1>5 DEF Sleep!sleep
<1>6. ASSUME NEW p \in Contenders, Sleep!sleep_return(p) PROVE SleepInv'
  BY <1>6 DEF Sleep!sleep_return
<1>7. ASSUME NEW p \in Contenders, Sleep!sleep_relock(p) PROVE SleepInv'
  BY <1>7 DEF Sleep!sleep_relock
<1>8. ASSUME NEW p \in Contenders, Sleep!releasesleep(p) PROVE SleepInv'
  BY <1>8 DEF Sleep!releasesleep
<1>9. ASSUME NEW p \in Contenders, Sleep!clear(p) PROVE SleepInv'
  BY <1>9 DEF Sleep!clear
<1>10. ASSUME NEW p \in Contenders, Sleep!wakeup(p) PROVE SleepInv'
  BY <1>10 DEF Sleep!wakeup
<1>11. ASSUME NEW p \in Contenders, Sleep!release(p) PROVE SleepInv'
  BY <1>11 DEF Sleep!release
<1>12. ASSUME NEW p \in Contenders, Sleep!kill(p) PROVE SleepInv'
  BY Zenon, <1>12 DEF Sleep!kill
<1>13. CASE UNCHANGED Sleep!vars
  BY <1>13 DEF Sleep!vars
<1>14. QED
  BY Zenon, <1>1, <1>2, <1>3, <1>4, <1>5, <1>6, <1>7, <1>8, <1>9, <1>10, <1>11, <1>12, <1>13
    DEF Sleep!Next, Sleep!Acquire, Sleep!Release

(* The invariant holds in every state of a sleep-lock. *)
THEOREM SleepLockInvariant ==
  Sleep!Spec => []SleepInv
BY SleepInit, SleepStep, PTL DEF Sleep!Spec

(* A step takes the mutex, when acquiresleep finds the lock free, gives it *)
(* back, when releasesleep clears pid, or leaves pid alone.                *)
LEMMA MutexStep ==
  ASSUME SleepInv, [Sleep!Next]_(Sleep!vars)
  PROVE  [Sleep!M!Next]_spid
<1>1. ASSUME NEW p \in Contenders, Sleep!test(p) PROVE [Sleep!M!Next]_spid
  BY <1>1 DEF Sleep!test, SleepInv, Sleep!TypeOK, Sleep!M!Next, Sleep!M!Take
<1>2. ASSUME NEW p \in Contenders, Sleep!clear(p) PROVE [Sleep!M!Next]_spid
  BY Zenon, <1>2 DEF Sleep!clear, Sleep!At, SleepInv, Sleep!HoldingSleepExact,
    Sleep!holdingsleep, Sleep!M!Next, Sleep!M!Give
<1>3. ASSUME NEW p \in Contenders,
             \/ Sleep!acquiresleep(p) \/ Sleep!sleep_acquire(p)
             \/ Sleep!sleep_release(p) \/ Sleep!sleep(p) \/ Sleep!sleep_return(p)
             \/ Sleep!sleep_relock(p) \/ Sleep!releasesleep(p) \/ Sleep!wakeup(p)
             \/ Sleep!release(p) \/ Sleep!kill(p)
      PROVE  UNCHANGED spid
  BY <1>3 DEF Sleep!acquiresleep, Sleep!sleep_acquire, Sleep!sleep_release,
    Sleep!sleep, Sleep!sleep_return, Sleep!sleep_relock,
    Sleep!releasesleep, Sleep!wakeup, Sleep!release, Sleep!kill
<1>4. QED
  BY <1>1, <1>2, <1>3 DEF Sleep!Next, Sleep!Acquire, Sleep!Release, Sleep!vars

(* acquiresleep and releasesleep implement a mutex (sleeplock.c:23-47). *)
THEOREM SleepLockRefines ==
  Sleep!Spec => Sleep!ImplementsMutex
<1>1. Sleep!Init => Sleep!M!Init
  BY DEF Sleep!Init, Sleep!M!Init
<1>2. SleepInv /\ [Sleep!Next]_(Sleep!vars) => [Sleep!M!Next]_spid
  BY MutexStep
<1>3. QED
  BY <1>1, <1>2, SleepLockInvariant, PTL DEF Sleep!Spec, Sleep!ImplementsMutex,
    Sleep!M!Spec

-----------------------------------------------------------------------------
(* The clock. *)

(* The time a process has waited is ticks - ticks0, wrapping included,     *)
(* until ticks has gone all the way round.                                 *)
ClockInv ==
  /\ Clock!TypeOK
  /\ \A p \in Nappers : tpc[p] # "idle" =>
       elapsed[p] = Clock!Wrap \/ elapsed[p] = Clock!uint(ticks - ticks0[p])
  /\ \A p \in Nappers : tpc[p] = "sleep" => tlock = p /\ Clock!Early(p)
  /\ Clock!SleeperIsEarly

(* Differences of unsigned numbers: what sys_sleep computes. *)
LEMMA Modulo ==
  ASSUME NEW N \in Nat \ {0}
  PROVE  /\ \A x \in Int : x % N \in 0..N-1
         /\ 0 % N = 0
         /\ \A x, y \in 0..N-1 :
              (((x + 1) % N) - y) % N
                = IF (x - y) % N = N - 1 THEN 0 ELSE ((x - y) % N) + 1
<1>1. \A x \in Int : x % N \in 0..N-1
  OBVIOUS
<1>2. 0 % N = 0
  OBVIOUS
<1>3. ASSUME NEW x \in 0..N-1, NEW y \in 0..N-1
      PROVE  (((x + 1) % N) - y) % N
               = IF (x - y) % N = N - 1 THEN 0 ELSE ((x - y) % N) + 1
  <2>1. \A a, b \in 0..N-1 : (a - b) % N = IF a >= b THEN a - b ELSE a - b + N
    OBVIOUS
  <2>2. (x + 1) % N = IF x = N - 1 THEN 0 ELSE x + 1
    OBVIOUS
  <2>3. QED
    BY <2>1, <2>2
<1>4. QED
  BY Zenon, <1>1, <1>2, <1>3

(* The same for the unsigned integers of the clock. *)
LEMMA UintFacts ==
  /\ Clock!Wrap \in Nat \ {0}
  /\ \A x \in Int : Clock!uint(x) \in 0..Clock!Wrap-1
  /\ \A x \in Int : Clock!uint(x - x) = 0
  /\ \A x, y \in 0..Clock!Wrap-1 :
       Clock!uint(Clock!uint(x + 1) - y) =
         IF Clock!uint(x - y) = Clock!Wrap - 1 THEN 0 ELSE Clock!uint(x - y) + 1
<1>1. Clock!Wrap \in Nat \ {0}
  BY TicksAssumption DEF Clock!TicksConstants
<1>2. \A x \in Int : x - x = 0
  OBVIOUS
<1>3. QED
  BY <1>1, <1>2, Modulo, Zenon DEF Clock!uint

(* At boot nobody waits. *)
LEMMA ClockInit ==
  ASSUME Clock!Init
  PROVE  ClockInv
BY TicksAssumption DEF Clock!TicksConstants, Clock!Init, ClockInv, Clock!TypeOK,
  Clock!SleeperIsEarly

(* The timer interrupt and every step of sys_sleep and kill keep it. *)
LEMMA ClockStep ==
  ASSUME ClockInv, [Clock!Next]_(Clock!vars)
  PROVE  ClockInv'
<1>0. /\ Clock!Wrap \in Nat \ {0}
      /\ \A x \in Int : Clock!uint(x) \in 0..Clock!Wrap-1
      /\ \A x \in Int : Clock!uint(x - x) = 0
      /\ \A x, y \in 0..Clock!Wrap-1 :
           Clock!uint(Clock!uint(x + 1) - y) =
             IF Clock!uint(x - y) = Clock!Wrap - 1 THEN 0 ELSE Clock!uint(x - y) + 1
  BY UintFacts
<1> Naps \subseteq Int /\ 0 \notin Nappers
  BY TicksAssumption DEF Clock!TicksConstants
<1> USE <1>0 DEF ClockInv, Clock!TypeOK, Clock!SleeperIsEarly, Clock!Early
<1>1. CASE Clock!tick
  <2> USE <1>1 DEF Clock!tick
  <2>1. Clock!TypeOK'
    OBVIOUS
  <2>2. \A p \in Nappers : tpc[p] # "sleep"
    BY Zenon
  <2>3. \A p \in Nappers :
          Clock!uint(ticks' - ticks0[p]) =
            IF Clock!uint(ticks - ticks0[p]) = Clock!Wrap - 1
              THEN 0 ELSE Clock!uint(ticks - ticks0[p]) + 1
    OBVIOUS
  <2>4. (\A p \in Nappers : tpc[p] # "idle" =>
           elapsed[p] = Clock!Wrap \/ elapsed[p] = Clock!uint(ticks - ticks0[p]))'
    BY <2>3
  <2>5. QED
    BY <2>1, <2>2, <2>4
<1>2. ASSUME NEW p \in Nappers, NEW k \in Naps, Clock!sys_sleep(p, k) PROVE ClockInv'
  BY <1>2 DEF Clock!sys_sleep, Clock!At
<1>3. ASSUME NEW p \in Nappers, Clock!sys_sleep_loop(p) PROVE ClockInv'
  BY <1>3 DEF Clock!sys_sleep_loop, Clock!At, Clock!return
<1>4. ASSUME NEW p \in Nappers, Clock!sys_sleep_sleep(p) PROVE ClockInv'
  BY <1>4 DEF Clock!sys_sleep_sleep, Clock!At
<1>5. ASSUME NEW p \in Nappers, Clock!kill(p) PROVE ClockInv'
  BY Zenon, <1>5 DEF Clock!kill
<1>6. CASE UNCHANGED Clock!vars
  BY <1>6 DEF Clock!vars
<1>7. QED
  BY Zenon, <1>1, <1>2, <1>3, <1>4, <1>5, <1>6 DEF Clock!Next

(* The invariant holds in every state of the clock and its sleepers. *)
THEOREM TicksInvariant ==
  Clock!Spec => []ClockInv
BY ClockInit, ClockStep, PTL DEF Clock!Spec

(* sys_sleep returns 0 when ticks - ticks0 has reached n (sysproc.c:77). *)
LEMMA EnoughStep ==
  ASSUME ClockInv, [Clock!Next]_(Clock!vars), NEW p \in Nappers,
         tpc[p] = "loop", tpc'[p] = "idle", ret'[p] = 0
  PROVE  elapsed[p] >= Clock!uint(tn[p])
<1>1. Clock!sys_sleep_loop(p) /\ ~Clock!Early(p)
  BY SMTT(40) DEF ClockInv, Clock!TypeOK, Clock!Next, Clock!tick, Clock!sys_sleep,
    Clock!sys_sleep_loop, Clock!sys_sleep_sleep, Clock!kill,
    Clock!return, Clock!vars
<1>2. Clock!Wrap \in Nat \ {0} /\ \A x \in Int : Clock!uint(x) \in 0..Clock!Wrap-1
  BY Zenon, UintFacts
<1>3. Naps \cup {0} \subseteq Int
  BY TicksAssumption DEF Clock!TicksConstants
<1>4. ticks - ticks0[p] \in Int /\ tn[p] \in Int
  <2>1. ticks - ticks0[p] \in Int
    BY <1>2 DEF ClockInv, Clock!TypeOK
  <2>2. tn[p] \in Naps \cup {0}
    BY DEF ClockInv, Clock!TypeOK
  <2>3. QED
    BY <1>3, <2>1, <2>2, Zenon
<1>5. /\ Clock!uint(ticks - ticks0[p]) \in 0..Clock!Wrap-1
      /\ Clock!uint(tn[p]) \in 0..Clock!Wrap-1
  BY <1>2, <1>4
<1>6. QED
  BY <1>1, <1>2, <1>5 DEF ClockInv, Clock!Early

(* Nobody returns 0 from sys_sleep before n ticks have passed. *)
THEOREM ClockSleptEnough ==
  Clock!Spec => Clock!SleptEnough
<1>1. ClockInv /\ [Clock!Next]_(Clock!vars) =>
        [\A p \in Nappers : tpc[p] = "loop" /\ tpc'[p] = "idle" /\ ret'[p] = 0
                            => elapsed[p] >= Clock!uint(tn[p])]_(Clock!vars)
  BY EnoughStep
<1>2. QED
  BY <1>1, TicksInvariant, PTL DEF Clock!Spec, Clock!SleptEnough

-----------------------------------------------------------------------------
(* The three parts together. *)

(* acquire excludes, holding and holdingsleep are exact, pushcli and       *)
(* popcli are matched (spinlock.c:27-165, sleeplock.c:23-60), and nobody   *)
(* sleeps on a free sleep-lock or past the tick they wait for              *)
(* (proc.c:521-598).                                                       *)
THEOREM SyncIsSound == SyncSpec => []SyncSound
<1>1. SpinInv => Spin!TypeOK
  BY Zenon DEF SpinInv
<1>2. SleepInv => Sleep!TypeOK /\ Sleep!HoldingSleepExact /\ Sleep!NoMissedWakeup
  BY Zenon DEF SleepInv
<1>3. ClockInv => Clock!TypeOK /\ Clock!SleeperIsEarly
  BY Zenon DEF ClockInv
<1>4. SpinInv /\ Spin!MutualExclusion /\ Spin!HoldingExact /\ Spin!CliMatched
        /\ SleepInv /\ ClockInv => SyncSound
  BY Zenon, <1>1, <1>2, <1>3 DEF SyncSound
<1>5. QED
  BY <1>4, SpinLockInvariant, AcquireExcludes, HoldingIsExact, PushcliIsMatched,
    SleepLockInvariant, TicksInvariant, PTL DEF SyncSpec

(* Callers of acquire that keep to one order do not deadlock               *)
(* (spinlock.c:32).                                                        *)
THEOREM SpinlocksDoNotDeadlock == SyncSpec => []NoDeadlock
<1>1. Spin!NoDeadlock => NoDeadlock
  BY DEF NoDeadlock
<1>2. QED
  BY <1>1, OrderedCallersDoNotDeadlock, PTL DEF SyncSpec

(* acquiresleep and releasesleep are a mutex (sleeplock.c:23-47). *)
THEOREM SleepLockIsMutex == SyncSpec => ImplementsMutex
<1>1. Sleep!Spec => Sleep!ImplementsMutex
  BY SleepLockRefines
<1>2. QED
  BY <1>1, PTL DEF SyncSpec, ImplementsMutex

(* sys_sleep(n) returns 0 only after n ticks (sysproc.c:62-90). *)
THEOREM SleepersSleepEnough == SyncSpec => SleptEnough
BY ClockSleptEnough, PTL DEF SyncSpec, SleptEnough
=============================================================================
