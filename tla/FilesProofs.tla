----------------------------- MODULE FilesProofs -----------------------------
EXTENDS Files, FiniteSetTheorems, NaturalsInduction, WellFoundedInduction, TLAPS

\* A nonempty set of natural numbers has a least element.
LEMMA LeastOf ==
  ASSUME NEW T \in SUBSET Nat, T # {}
  PROVE  \E m \in T : \A k \in T : m <= k
<1> DEFINE Less == {ss \in Nat \X Nat : ss[1] < ss[2]}
<1>1. IsWellFoundedOn(Less, Nat)
  BY NatLessThanWellFounded, Zenon DEF OpToRel
<1>2. \A x, y \in Nat : y < x => <<y, x>> \in Less
  BY Zenon DEF Less
<1> HIDE DEF Less
<1>3. PICK m \in T : \A y \in T : ~(<<y, m>> \in Less)
  BY <1>1, WFMin, Zenon
<1>4. ASSUME NEW k \in T PROVE m <= k
  <2>1. k \in Nat /\ m \in Nat
    BY Zenon
  <2>2. ~(k < m)
    BY <1>2, <1>3, <2>1, Zenon
  <2>3. QED
    BY <2>1, <2>2
<1>5. QED
  BY Zenon, <1>4

\* The scans of filealloc, fdalloc and kalloc return an entry of the set they scan.
LEMMA MinIn ==
  ASSUME NEW T \in SUBSET Nat, T # {}
  PROVE  Min(T) \in T
BY Zenon, LeastOf DEF Min

-----------------------------------------------------------------------------
(* The inductive invariant. *)

(* Where a process is in its call: the file of pipealloc is its own and    *)
(* has no type yet; a process that is gone has nothing.                    *)
CallInv ==
  \A p \in Procs :
    /\ pc[p] = "pipe" => mine[p] # 0 /\ todo[p] = <<>>
    /\ pc[p] # "pipe" => mine[p] = 0
    /\ ff[p] # None => todo[p] # <<>>
    /\ Len(todo[p]) <= 2
    /\ p \notin alive => pc[p] = "user" /\ todo[p] = <<>> /\ \A d \in Fds : ofile[p][d] = 0
    /\ mine[p] # 0 => ref[mine[p]] = 1 /\ obj[mine[p]] = None

(* A free entry of the file table has nothing behind it. *)
FreeInv == \A f \in Slots : ref[f] = 0 => obj[f] = None

FilesInv == FilesTypeOK /\ CallInv /\ FreeInv /\ RefsAreDescriptors /\ ObjectsFollowFiles

\* Files and descriptors are numbers, and 0 is not a file.
LEMMA SlotFacts == Slots \in SUBSET (Nat \ {0}) /\ Fds \in SUBSET Nat
BY FilesAssumption DEF FilesConstants, Slots, Fds

\* The sets that the counts are about are finite.
LEMMA Finite ==
  /\ \A S \in SUBSET (Procs \X Fds) : IsFiniteSet(S) /\ Cardinality(S) \in Nat
  /\ \A S \in SUBSET (Procs \X (1..2)) : IsFiniteSet(S) /\ Cardinality(S) \in Nat
  /\ \A S \in SUBSET Procs : IsFiniteSet(S) /\ Cardinality(S) \in Nat
  /\ \A S \in SUBSET Slots : IsFiniteSet(S) /\ Cardinality(S) \in Nat
  /\ \A S \in SUBSET Fds : IsFiniteSet(S) /\ Cardinality(S) \in Nat
<1>1. IsFiniteSet(Procs) /\ IsFiniteSet(Fds) /\ IsFiniteSet(1..2) /\ IsFiniteSet(Slots)
  <2>1. NFILE \in Int /\ NOFILE - 1 \in Int /\ IsFiniteSet(Procs) /\ 0 \in Int /\ 1 \in Int /\ 2 \in Int
    BY FilesAssumption DEF FilesConstants
  <2> QED
    <3>1. IsFiniteSet(0..NOFILE - 1) /\ IsFiniteSet(1..2) /\ IsFiniteSet(1..NFILE)
      BY <2>1, FS_Interval, Zenon
    <3> QED
      BY Zenon, <2>1, <3>1 DEF Fds, Slots
<1>2. IsFiniteSet(Procs \X Fds) /\ IsFiniteSet(Procs \X (1..2))
  BY Zenon, <1>1, FS_Product
<1>3. ASSUME NEW U, IsFiniteSet(U), NEW S \in SUBSET U PROVE IsFiniteSet(S) /\ Cardinality(S) \in Nat
  BY Zenon, <1>3, FS_Subset, FS_CardinalityType
<1> QED
  BY Zenon, <1>1, <1>2, <1>3

\* An object of an inode is no pipe end, and neither is no object.
LEMMA ObjectFacts ==
  /\ \A o \in InodeObjects : o \notin Ends /\ o # None
  /\ \A e \in Ends : e \notin InodeObjects /\ e # None
BY DEF InodeObjects, Ends, None

\* At the start nothing is open, and the invariant holds.
LEMMA InitFiles == FilesInit => FilesInv
<1> SUFFICES ASSUME FilesInit PROVE FilesInv
  BY Zenon
<1> USE FilesAssumption, SlotFacts DEF FilesConstants
<1>1. FilesTypeOK
  BY DEF FilesInit, FilesTypeOK, Objects
<1>2. CallInv /\ FreeInv
  BY DEF FilesInit, CallInv, FreeInv
<1>3. \A f \in Slots : Descriptors(f) = {} /\ Closing(f) = {} /\ Creating(f) = {}
  <2>1. \A p \in Procs : Len(todo[p]) = 0 /\ ff[p] = None
    BY Zenon DEF FilesInit
  <2>2. \A f \in Slots : Descriptors(f) = {} /\ Creating(f) = {}
    BY Zenon DEF FilesInit, Descriptors, Creating
  <2>3. \A f \in Slots : Closing(f) = {}
    <3> SUFFICES ASSUME NEW f \in Slots, NEW x \in Closing(f) PROVE FALSE
      BY Zenon
    <3>1. x[1] \in Procs /\ x[2] \in 1..2 /\ x[2] <= Len(todo[x[1]]) - (IF ff[x[1]] = None THEN 0 ELSE 1)
      BY Zenon DEF Closing
    <3>2. Len(todo[x[1]]) = 0 /\ ff[x[1]] = None
      BY <2>1, <3>1, Zenon
    <3>3. x[2] <= 0 - 0
      BY <3>1, <3>2, Zenon
    <3> QED
      BY <3>1, <3>3
  <2> QED
    BY Zenon, <2>2, <2>3
<1>a. Cardinality({}) = 0
  BY FS_EmptySet, Zenon
<1>4. RefsAreDescriptors
  <2> SUFFICES ASSUME NEW f \in Slots PROVE ref[f] = Cardinality(Descriptors(f)) + Cardinality(Closing(f)) + Cardinality(Creating(f))
    BY Zenon, <1>3 DEF RefsAreDescriptors
  <2>1. Cardinality(Descriptors(f)) = 0 /\ Cardinality(Closing(f)) = 0 /\ Cardinality(Creating(f)) = 0
    BY Zenon, <1>3, <1>a
  <2> QED
    BY <2>1 DEF FilesInit
<1>5. ASSUME NEW o \in InodeObjects \cup Ends
      PROVE  Cardinality(Files(o)) + Cardinality(Putting(o)) = 0
  <2>1. Files(o) = {} /\ Putting(o) = {}
    BY Zenon, ObjectFacts DEF FilesInit, Files, Putting
  <2> QED
    BY <2>1, <1>a
<1>6. ObjectsFollowFiles
  BY Zenon, <1>5 DEF FilesInit, ObjectsFollowFiles
<1> QED
  BY Zenon, <1>1, <1>2, <1>4, <1>6 DEF FilesInv

-----------------------------------------------------------------------------
(* What the steps do to the sets that are counted. *)

\* A set that gains or loses one element.
LEMMA OneMore ==
  ASSUME NEW S, NEW T, NEW x, IsFiniteSet(S), x \notin S, T = S \cup {x}
  PROVE  Cardinality(T) = Cardinality(S) + 1
BY Zenon, FS_AddElement

\* A finite set is empty if its cardinality is 0.
LEMMA NonEmpty ==
  ASSUME NEW S, IsFiniteSet(S), Cardinality(S) \in Nat
  PROVE  /\ Cardinality(S) = 0 <=> S = {}
         /\ S # {} => Cardinality(S) >= 1
BY FS_EmptySet

\* Two different elements count for two.
LEMMA TwoElements ==
  ASSUME NEW S, IsFiniteSet(S), NEW x \in S, NEW y \in S, x # y
  PROVE  Cardinality(S) >= 2
<1>1. IsFiniteSet(S \ {x}) /\ Cardinality(S \ {x}) = Cardinality(S) - 1
  BY Zenon, FS_RemoveElement
<1>2. Cardinality(S \ {x}) \in Nat /\ Cardinality(S) \in Nat
  BY Zenon, <1>1, FS_CardinalityType
<1>3. Cardinality(S \ {x}) # 0
  BY Zenon, <1>1, FS_EmptySet, y \in S \ {x}
<1> QED
  BY <1>1, <1>2, <1>3

\* fdalloc (sysfile.c:38-53): one more descriptor names the file.
LEMMA SetDescriptor ==
  ASSUME FilesTypeOK, NEW p \in Procs, NEW d \in Fds, NEW g \in Slots, ofile[p][d] = 0,
         ofile' = [ofile EXCEPT ![p][d] = g], NEW f \in Slots
  PROVE  Cardinality(Descriptors(f)') = Cardinality(Descriptors(f)) + (IF f = g THEN 1 ELSE 0)
<1>1. \A q \in Procs, e \in Fds : ofile'[q][e] = IF q = p /\ e = d THEN g ELSE ofile[q][e]
  BY Zenon DEF FilesTypeOK
<1>2. CASE f = g
  <2>1. <<p, d>> \notin Descriptors(f)
    BY Zenon, SlotFacts DEF Descriptors
  <2>2. Descriptors(f)' = Descriptors(f) \cup {<<p, d>>}
    BY <1>1, <1>2 DEF Descriptors
  <2>3. IsFiniteSet(Descriptors(f))
    BY Zenon, Finite DEF Descriptors
  <2> QED
    BY Zenon, <1>2, <2>1, <2>2, <2>3, OneMore
<1>3. CASE f # g
  <2>1. Descriptors(f)' = Descriptors(f)
    BY <1>1, <1>3, SlotFacts DEF Descriptors
  <2>2. Cardinality(Descriptors(f)) \in Nat
    BY Zenon, Finite DEF Descriptors
  <2> QED
    BY <1>3, <2>1, <2>2
<1> QED
  BY Zenon, <1>2, <1>3

\* sys_close and exit clear a descriptor: one fewer names the file.
LEMMA ClearDescriptor ==
  ASSUME FilesTypeOK, NEW p \in Procs, NEW d \in Fds, NEW g \in Slots, ofile[p][d] = g,
         ofile' = [ofile EXCEPT ![p][d] = 0], NEW f \in Slots
  PROVE  Cardinality(Descriptors(f)) = Cardinality(Descriptors(f)') + (IF f = g THEN 1 ELSE 0)
<1>1. \A q \in Procs, e \in Fds : ofile'[q][e] = IF q = p /\ e = d THEN 0 ELSE ofile[q][e]
  BY Zenon DEF FilesTypeOK
<1>2. CASE f = g
  <2>1. <<p, d>> \notin Descriptors(f)'
    BY Zenon, <1>1, SlotFacts DEF Descriptors
  <2>2. Descriptors(f) = Descriptors(f)' \cup {<<p, d>>}
    BY <1>1, <1>2, SlotFacts DEF Descriptors
  <2>3. IsFiniteSet(Descriptors(f)')
    BY Zenon, Finite DEF Descriptors
  <2> QED
    BY Zenon, <1>2, <2>1, <2>2, <2>3, OneMore
<1>3. CASE f # g
  <2>1. Descriptors(f)' = Descriptors(f)
    BY <1>1, <1>3, SlotFacts DEF Descriptors
  <2>2. Cardinality(Descriptors(f)) \in Nat
    BY Zenon, Finite DEF Descriptors
  <2> QED
    BY <1>3, <2>1, <2>2
<1> QED
  BY Zenon, <1>2, <1>3

\* pipealloc takes a file of its own.
LEMMA SetMine ==
  ASSUME FilesTypeOK, NEW p \in Procs, NEW g \in Slots, mine[p] = 0,
         mine' = [mine EXCEPT ![p] = g], NEW f \in Slots
  PROVE  Cardinality(Creating(f)') = Cardinality(Creating(f)) + (IF f = g THEN 1 ELSE 0)
<1>1. \A q \in Procs : mine'[q] = IF q = p THEN g ELSE mine[q]
  BY Zenon DEF FilesTypeOK
<1>2. CASE f = g
  <2>1. p \notin Creating(f)
    BY Zenon, SlotFacts DEF Creating
  <2>2. Creating(f)' = Creating(f) \cup {p}
    BY Zenon, <1>1, <1>2 DEF Creating
  <2>3. IsFiniteSet(Creating(f))
    BY Zenon, Finite DEF Creating
  <2> QED
    BY Zenon, <1>2, <2>1, <2>2, <2>3, OneMore
<1>3. CASE f # g
  <2>1. Creating(f)' = Creating(f)
    BY Zenon, <1>1, <1>3, SlotFacts DEF Creating
  <2>2. Cardinality(Creating(f)) \in Nat
    BY Zenon, Finite DEF Creating
  <2> QED
    BY <1>3, <2>1, <2>2
<1> QED
  BY Zenon, <1>2, <1>3

\* pipealloc gives up the file of its own.
LEMMA ClearMine ==
  ASSUME FilesTypeOK, NEW p \in Procs, NEW g \in Slots, mine[p] = g,
         mine' = [mine EXCEPT ![p] = 0], NEW f \in Slots
  PROVE  Cardinality(Creating(f)) = Cardinality(Creating(f)') + (IF f = g THEN 1 ELSE 0)
<1>1. \A q \in Procs : mine'[q] = IF q = p THEN 0 ELSE mine[q]
  BY Zenon DEF FilesTypeOK
<1>2. CASE f = g
  <2>1. p \notin Creating(f)'
    BY Zenon, <1>1, SlotFacts DEF Creating
  <2>2. Creating(f) = Creating(f)' \cup {p}
    BY Zenon, <1>1, <1>2, SlotFacts DEF Creating
  <2>3. IsFiniteSet(Creating(f)')
    BY Zenon, Finite DEF Creating
  <2> QED
    BY Zenon, <1>2, <2>1, <2>2, <2>3, OneMore
<1>3. CASE f # g
  <2>1. Creating(f)' = Creating(f)
    BY Zenon, <1>1, <1>3, SlotFacts DEF Creating
  <2>2. Cardinality(Creating(f)) \in Nat
    BY Zenon, Finite DEF Creating
  <2> QED
    BY <1>3, <2>1, <2>2
<1> QED
  BY Zenon, <1>2, <1>3

\* The calls of fileclose of a process by their place, before the one that is
\* running has taken its reference ...
LEMMA ClosingNow ==
  ASSUME NEW p \in Procs, NEW f \in Slots, ff[p] = None, todo[p] \in Seq(Slots)
  PROVE  /\ <<p, 1>> \in Closing(f) <=> (Len(todo[p]) >= 1 /\ todo[p][Len(todo[p])] = f)
         /\ <<p, 2>> \in Closing(f) <=> (Len(todo[p]) >= 2 /\ todo[p][Len(todo[p]) - 1] = f)
<1>1. PICK n \in Nat : n = Len(todo[p])
  OBVIOUS
<1>2. \A i \in 1..2 : <<p, i>> \in Closing(f) <=> (i <= n - 0 /\ todo[p][n + 1 - i] = f)
  BY Zenon, <1>1 DEF Closing
<1>3. <<p, 1>> \in Closing(f) <=> (1 <= n - 0 /\ todo[p][n + 1 - 1] = f)
  BY <1>2
<1>4. <<p, 2>> \in Closing(f) <=> (2 <= n - 0 /\ todo[p][n + 1 - 2] = f)
  BY <1>2
<1>5. n + 1 - 1 = n /\ n + 1 - 2 = n - 1
  OBVIOUS
<1> QED
  BY <1>1, <1>3, <1>4, <1>5

\* The same after a step.
LEMMA ClosingNowAfter ==
  ASSUME NEW p \in Procs, NEW f \in Slots, ff'[p] = None, todo'[p] \in Seq(Slots)
  PROVE  /\ <<p, 1>> \in Closing(f)' <=> (Len(todo'[p]) >= 1 /\ todo'[p][Len(todo'[p])] = f)
         /\ <<p, 2>> \in Closing(f)' <=> (Len(todo'[p]) >= 2 /\ todo'[p][Len(todo'[p]) - 1] = f)
<1>1. PICK n \in Nat : n = Len(todo'[p])
  OBVIOUS
<1>2. \A i \in 1..2 : <<p, i>> \in Closing(f)' <=> (i <= n - 0 /\ todo'[p][n + 1 - i] = f)
  BY Zenon, <1>1 DEF Closing
<1>3. <<p, 1>> \in Closing(f)' <=> (1 <= n - 0 /\ todo'[p][n + 1 - 1] = f)
  BY <1>2
<1>4. <<p, 2>> \in Closing(f)' <=> (2 <= n - 0 /\ todo'[p][n + 1 - 2] = f)
  BY <1>2
<1>5. n + 1 - 1 = n /\ n + 1 - 2 = n - 1
  OBVIOUS
<1> QED
  BY <1>1, <1>3, <1>4, <1>5

\* ... and after it, with the copy in hand.
LEMMA ClosingLater ==
  ASSUME NEW p \in Procs, NEW f \in Slots, ff[p] # None, todo[p] \in Seq(Slots)
  PROVE  /\ <<p, 1>> \in Closing(f) <=> (Len(todo[p]) >= 2 /\ todo[p][Len(todo[p])] = f)
         /\ <<p, 2>> \in Closing(f) <=> (Len(todo[p]) >= 3 /\ todo[p][Len(todo[p]) - 1] = f)
<1>1. PICK n \in Nat : n = Len(todo[p])
  OBVIOUS
<1>2. \A i \in 1..2 : <<p, i>> \in Closing(f) <=> (i <= n - 1 /\ todo[p][n + 1 - i] = f)
  BY Zenon, <1>1 DEF Closing
<1>3. <<p, 1>> \in Closing(f) <=> (1 <= n - 1 /\ todo[p][n + 1 - 1] = f)
  BY <1>2
<1>4. <<p, 2>> \in Closing(f) <=> (2 <= n - 1 /\ todo[p][n + 1 - 2] = f)
  BY <1>2
<1>5. n + 1 - 1 = n /\ n + 1 - 2 = n - 1
  OBVIOUS
<1> QED
  BY <1>1, <1>3, <1>4, <1>5

\* The same after a step.
LEMMA ClosingLaterAfter ==
  ASSUME NEW p \in Procs, NEW f \in Slots, ff'[p] # None, todo'[p] \in Seq(Slots)
  PROVE  /\ <<p, 1>> \in Closing(f)' <=> (Len(todo'[p]) >= 2 /\ todo'[p][Len(todo'[p])] = f)
         /\ <<p, 2>> \in Closing(f)' <=> (Len(todo'[p]) >= 3 /\ todo'[p][Len(todo'[p]) - 1] = f)
<1>1. PICK n \in Nat : n = Len(todo'[p])
  OBVIOUS
<1>2. \A i \in 1..2 : <<p, i>> \in Closing(f)' <=> (i <= n - 1 /\ todo'[p][n + 1 - i] = f)
  BY Zenon, <1>1 DEF Closing
<1>3. <<p, 1>> \in Closing(f)' <=> (1 <= n - 1 /\ todo'[p][n + 1 - 1] = f)
  BY <1>2
<1>4. <<p, 2>> \in Closing(f)' <=> (2 <= n - 1 /\ todo'[p][n + 1 - 2] = f)
  BY <1>2
<1>5. n + 1 - 1 = n /\ n + 1 - 2 = n - 1
  OBVIOUS
<1> QED
  BY <1>1, <1>3, <1>4, <1>5

\* A process whose list and copy do not change.
LEMMA ClosingOthers ==
  ASSUME NEW q \in Procs, NEW f \in Slots, todo'[q] = todo[q], ff'[q] = ff[q]
  PROVE  \A i \in 1..2 : <<q, i>> \in Closing(f)' <=> <<q, i>> \in Closing(f)
BY Zenon DEF Closing

\* Finitely many calls of fileclose are under way.
LEMMA ClosingFinite ==
  ASSUME NEW f \in Slots
  PROVE  /\ Closing(f) \in SUBSET (Procs \X (1..2)) /\ Closing(f)' \in SUBSET (Procs \X (1..2))
         /\ Cardinality(Closing(f)) \in Nat /\ Cardinality(Closing(f)') \in Nat
<1>1. Closing(f) \in SUBSET (Procs \X (1..2)) /\ Closing(f)' \in SUBSET (Procs \X (1..2))
  BY Zenon DEF Closing
<1> QED
  BY Zenon, <1>1, Finite

\* Sets of calls that agree place by place.
LEMMA SameCalls ==
  ASSUME NEW S \in SUBSET (Procs \X (1..2)), NEW T \in SUBSET (Procs \X (1..2)), NEW p \in Procs,
         \A q \in Procs : q # p => \A i \in 1..2 : <<q, i>> \in S <=> <<q, i>> \in T,
         <<p, 1>> \in S <=> <<p, 1>> \in T, <<p, 2>> \in S <=> <<p, 2>> \in T
  PROVE  S = T
<1>1. ASSUME NEW x \in Procs \X (1..2) PROVE x \in S <=> x \in T
  <2>1. PICK q \in Procs, i \in 1..2 : x = <<q, i>>
    OBVIOUS
  <2>2. CASE q = p
    <3>1. i = 1 \/ i = 2
      OBVIOUS
    <3> QED
      BY Zenon, <2>1, <2>2, <3>1
  <2>3. CASE q # p
    BY Zenon, <2>1, <2>3
  <2> QED
    BY Zenon, <2>2, <2>3
<1> QED
  BY Zenon, <1>1

\* A call at place i of p is added to what was there.
LEMMA CallAdded ==
  ASSUME NEW S \in SUBSET (Procs \X (1..2)), NEW T \in SUBSET (Procs \X (1..2)), NEW p \in Procs,
         NEW i \in 1..2,
         \A q \in Procs : q # p => \A j \in 1..2 : <<q, j>> \in S <=> <<q, j>> \in T,
         <<p, 1>> \in T <=> <<p, 1>> \in S \/ i = 1, <<p, 2>> \in T <=> <<p, 2>> \in S \/ i = 2,
         <<p, i>> \notin S
  PROVE  Cardinality(T) = Cardinality(S) + 1
<1> DEFINE U == S \cup {<<p, i>>}
<1>1. U \in SUBSET (Procs \X (1..2))
  OBVIOUS
<1>2. \A q \in Procs : q # p => \A j \in 1..2 : <<q, j>> \in U <=> <<q, j>> \in T
  BY Zenon
<1>3. (<<p, 1>> \in U <=> <<p, 1>> \in T) /\ (<<p, 2>> \in U <=> <<p, 2>> \in T)
  BY Zenon
<1> HIDE DEF U
<1>4. U = T
  BY <1>1, <1>2, <1>3, SameCalls
<1>5. IsFiniteSet(S)
  BY Zenon, Finite
<1> QED
  BY Zenon, <1>4, <1>5, OneMore DEF U

\* The list of files to close, after its head.
LEMMA TailFacts ==
  ASSUME NEW s \in Seq(Slots), s # <<>>
  PROVE  /\ Len(Tail(s)) = Len(s) - 1 /\ Len(s) \in Nat \ {0}
         /\ Tail(s) \in Seq(Slots)
         /\ Head(s) = s[1] /\ s[1] \in Slots
         /\ Len(s) = 2 => Tail(s)[1] = s[2]
OBVIOUS

\* fileclose is called on one more file.
LEMMA PushOne ==
  ASSUME FilesTypeOK, FilesTypeOK', NEW p \in Procs, NEW g \in Slots, todo[p] = <<>>, ff[p] = None, ff' = ff,
         todo' = [todo EXCEPT ![p] = <<g>>], NEW f \in Slots
  PROVE  Cardinality(Closing(f)') = Cardinality(Closing(f)) + (IF f = g THEN 1 ELSE 0)
<1> DEFINE S == Closing(f)
           T == Closing(f)'
<1>1. /\ todo \in [Procs -> Seq(Slots)] /\ todo' \in [Procs -> Seq(Slots)]
      /\ todo[p] \in Seq(Slots) /\ todo'[p] \in Seq(Slots)
      /\ todo'[p] = <<g>> /\ ff'[p] = None
      /\ \A q \in Procs : q # p => todo'[q] = todo[q] /\ ff'[q] = ff[q]
  BY Zenon DEF FilesTypeOK
<1>2. 0 = Len(todo[p]) /\ 1 = Len(todo'[p]) /\ 0 \in Nat /\ 1 \in Nat
  BY Zenon, <1>1
<1>3. \A q \in Procs : q # p => \A i \in 1..2 : <<q, i>> \in S <=> <<q, i>> \in T
  BY Zenon, <1>1, ClosingOthers
<1>4. <<p, 1>> \notin S /\ <<p, 2>> \notin S
  <2>1. /\ <<p, 1>> \in S => Len(todo[p]) >= 1
        /\ <<p, 2>> \in S => Len(todo[p]) >= 2
    BY Zenon, <1>1, ClosingNow
  <2> QED
    BY <1>2, <2>1
<1>5. (<<p, 1>> \in T <=> f = g) /\ <<p, 2>> \notin T
  <2> DEFINE n == Len(todo'[p])
  <2>1. /\ <<p, 1>> \in T <=> n >= 1 /\ todo'[p][n] = f
        /\ <<p, 2>> \in T <=> n >= 2 /\ todo'[p][n - 1] = f
    BY Zenon, <1>1, ClosingNowAfter
  <2> QED
    BY <1>1, <1>2, <2>1
<1>6. S \in SUBSET (Procs \X (1..2)) /\ T \in SUBSET (Procs \X (1..2)) /\ Cardinality(S) \in Nat
  BY Zenon, ClosingFinite
<1>7. Closing(f) = S /\ Closing(f)' = T
  BY Zenon
<1> HIDE DEF S, T
<1>8. CASE f = g
  <2>1. 1 \in 1..2
    OBVIOUS
  <2>2. Cardinality(T) = Cardinality(S) + 1
    BY <1>3, <1>4, <1>5, <1>6, <1>8, <2>1, CallAdded
  <2> QED
    BY Zenon, <1>7, <1>8, <2>2
<1>9. CASE f # g
  <2>1. S = T
    BY <1>3, <1>4, <1>5, <1>6, <1>9, SameCalls
  <2> QED
    BY <1>6, <1>7, <1>9, <2>1
<1> QED
  BY Zenon, <1>8, <1>9

\* fileclose is called on two files, one after the other.
LEMMA PushTwo ==
  ASSUME FilesTypeOK, FilesTypeOK', NEW p \in Procs, NEW g \in Slots, NEW h \in Slots, g # h,
         todo[p] = <<>>, ff[p] = None, ff' = ff,
         todo' = [todo EXCEPT ![p] = <<g, h>>], NEW f \in Slots
  PROVE  Cardinality(Closing(f)') = Cardinality(Closing(f)) + (IF f \in {g, h} THEN 1 ELSE 0)
<1> DEFINE S == Closing(f)
           T == Closing(f)'
<1>1. /\ todo \in [Procs -> Seq(Slots)] /\ todo' \in [Procs -> Seq(Slots)]
      /\ todo[p] \in Seq(Slots) /\ todo'[p] \in Seq(Slots)
      /\ todo'[p] = <<g, h>> /\ ff'[p] = None
      /\ \A q \in Procs : q # p => todo'[q] = todo[q] /\ ff'[q] = ff[q]
  BY Zenon DEF FilesTypeOK
<1>2. 0 = Len(todo[p]) /\ 2 = Len(todo'[p]) /\ 0 \in Nat /\ 2 \in Nat
  BY Zenon, <1>1
<1>3. \A q \in Procs : q # p => \A i \in 1..2 : <<q, i>> \in S <=> <<q, i>> \in T
  BY Zenon, <1>1, ClosingOthers
<1>4. <<p, 1>> \notin S /\ <<p, 2>> \notin S
  <2>1. /\ <<p, 1>> \in S => Len(todo[p]) >= 1
        /\ <<p, 2>> \in S => Len(todo[p]) >= 2
    BY Zenon, <1>1, ClosingNow
  <2> QED
    BY <1>2, <2>1
<1>5. (<<p, 1>> \in T <=> f = h) /\ (<<p, 2>> \in T <=> f = g)
  <2> DEFINE n == Len(todo'[p])
  <2>1. /\ <<p, 1>> \in T <=> n >= 1 /\ todo'[p][n] = f
        /\ <<p, 2>> \in T <=> n >= 2 /\ todo'[p][n - 1] = f
    BY Zenon, <1>1, ClosingNowAfter
  <2>2. todo'[p][n] = h /\ todo'[p][n - 1] = g
    BY <1>1, <1>2
  <2> QED
    BY <1>2, <2>1, <2>2
<1>6. S \in SUBSET (Procs \X (1..2)) /\ T \in SUBSET (Procs \X (1..2)) /\ Cardinality(S) \in Nat
  BY Zenon, ClosingFinite
<1>7. Closing(f) = S /\ Closing(f)' = T
  BY Zenon
<1> HIDE DEF S, T
<1>8. CASE f \in {g, h}
  <2>1. PICK i \in 1..2 : i = IF f = g THEN 2 ELSE 1
    OBVIOUS
  <2>2. /\ <<p, 1>> \in T <=> <<p, 1>> \in S \/ i = 1
        /\ <<p, 2>> \in T <=> <<p, 2>> \in S \/ i = 2
        /\ <<p, i>> \notin S
    BY Zenon, <1>4, <1>5, <1>8, <2>1
  <2>3. Cardinality(T) = Cardinality(S) + 1
    BY <1>3, <1>6, <2>2, CallAdded
  <2> QED
    BY Zenon, <1>7, <1>8, <2>3
<1>9. CASE f \notin {g, h}
  <2>1. S = T
    BY <1>3, <1>4, <1>5, <1>6, <1>9, SameCalls
  <2> QED
    BY <1>6, <1>7, <1>9, <2>1
<1> QED
  BY Zenon, <1>8, <1>9

\* fileclose gives its reference back: it is done, or it has the copy to put.
LEMMA PopOne ==
  ASSUME FilesTypeOK, FilesTypeOK', NEW p \in Procs, todo[p] # <<>>, Len(todo[p]) <= 2, ff[p] = None,
         \A q \in Procs : q # p => todo'[q] = todo[q] /\ ff'[q] = ff[q],
         \/ todo'[p] = Tail(todo[p]) /\ ff'[p] = None
         \/ todo'[p] = todo[p] /\ ff'[p] # None,
         NEW f \in Slots
  PROVE  Cardinality(Closing(f)) = Cardinality(Closing(f)') + (IF f = Head(todo[p]) THEN 1 ELSE 0)
<1> DEFINE S == Closing(f)
           T == Closing(f)'
           g == Head(todo[p])
<1>1. /\ todo \in [Procs -> Seq(Slots)] /\ todo' \in [Procs -> Seq(Slots)]
      /\ todo[p] \in Seq(Slots) /\ todo'[p] \in Seq(Slots)
  BY Zenon DEF FilesTypeOK
<1>2. \A q \in Procs : q # p => \A i \in 1..2 : <<q, i>> \in T <=> <<q, i>> \in S
  BY Zenon, ClosingOthers
<1>3. PICK n \in Nat : n = Len(todo[p])
  BY <1>1
<1>4. n \in 1..2 /\ g = todo[p][1]
  BY <1>1, <1>3
<1>5. PICK m \in Nat : m = Len(todo'[p])
  BY <1>1
<1>6. /\ <<p, 1>> \in S <=> todo[p][n] = f
      /\ <<p, 2>> \in S <=> n = 2 /\ todo[p][n - 1] = f
  <2>1. /\ <<p, 1>> \in S <=> n >= 1 /\ todo[p][n] = f
        /\ <<p, 2>> \in S <=> n >= 2 /\ todo[p][n - 1] = f
    BY Zenon, <1>1, <1>3, ClosingNow
  <2> QED
    BY <1>4, <2>1
<1>7. <<p, 2>> \notin T /\ (<<p, 1>> \in T <=> n = 2 /\ todo[p][2] = f)
  <2>1. CASE todo'[p] = Tail(todo[p]) /\ ff'[p] = None
    <3>1. m = n - 1
      BY <1>1, <1>3, <1>4, <1>5, <2>1
    <3>2. n = 2 => todo'[p][m] = todo[p][2]
      BY <1>1, <1>3, <1>5, <2>1, <3>1, TailFacts
    <3>3. /\ <<p, 1>> \in T <=> m >= 1 /\ todo'[p][m] = f
          /\ <<p, 2>> \in T <=> m >= 2 /\ todo'[p][m - 1] = f
      BY Zenon, <1>1, <1>5, <2>1, ClosingNowAfter
    <3> QED
      BY <1>4, <3>1, <3>2, <3>3
  <2>2. CASE todo'[p] = todo[p] /\ ff'[p] # None
    <3>1. m = n
      BY Zenon, <1>3, <1>5, <2>2
    <3>2. /\ <<p, 1>> \in T <=> m >= 2 /\ todo'[p][m] = f
          /\ <<p, 2>> \in T <=> m >= 3 /\ todo'[p][m - 1] = f
      BY Zenon, <1>1, <1>5, <2>2, ClosingLaterAfter
    <3> QED
      BY <1>4, <2>2, <3>1, <3>2
  <2> QED
    BY Zenon, <2>1, <2>2
<1>8. S \in SUBSET (Procs \X (1..2)) /\ T \in SUBSET (Procs \X (1..2)) /\ Cardinality(T) \in Nat
  BY Zenon, ClosingFinite
<1>9. Closing(f) = S /\ Closing(f)' = T
  BY Zenon
<1> HIDE DEF S, T
<1>10. CASE f = g
  <2>1. /\ <<p, 1>> \in S <=> <<p, 1>> \in T \/ n = 1
        /\ <<p, 2>> \in S <=> <<p, 2>> \in T \/ n = 2
        /\ <<p, n>> \notin T
    <3>1. CASE n = 1
      BY Zenon, <1>4, <1>6, <1>7, <1>10, <3>1
    <3>2. CASE n = 2
      BY <1>4, <1>6, <1>7, <1>10, <3>2
    <3> QED
      BY <1>4, <3>1, <3>2
  <2>2. Cardinality(S) = Cardinality(T) + 1
    BY <1>2, <1>4, <1>8, <2>1, CallAdded
  <2> QED
    BY Zenon, <1>9, <1>10, <2>2
<1>11. CASE f # g
  <2>1. S = T
    <3>1. CASE n = 1
      BY <1>2, <1>4, <1>6, <1>7, <1>8, <1>11, <3>1, SameCalls
    <3>2. CASE n = 2
      BY <1>2, <1>4, <1>6, <1>7, <1>8, <1>11, <3>2, SameCalls
    <3> QED
      BY <1>4, <3>1, <3>2
  <2> QED
    BY <1>8, <1>9, <1>11, <2>1
<1> QED
  BY Zenon, <1>10, <1>11

\* The copy is put and the call is over.
LEMMA PopCopy ==
  ASSUME FilesTypeOK, FilesTypeOK', NEW p \in Procs, todo[p] # <<>>, Len(todo[p]) <= 2, ff[p] # None,
         \A q \in Procs : q # p => todo'[q] = todo[q] /\ ff'[q] = ff[q],
         todo'[p] = Tail(todo[p]), ff'[p] = None,
         NEW f \in Slots
  PROVE  Closing(f)' = Closing(f)
<1> DEFINE S == Closing(f)
           T == Closing(f)'
<1>1. /\ todo \in [Procs -> Seq(Slots)] /\ todo' \in [Procs -> Seq(Slots)]
      /\ todo[p] \in Seq(Slots) /\ todo'[p] \in Seq(Slots)
  BY Zenon DEF FilesTypeOK
<1>2. \A q \in Procs : q # p => \A i \in 1..2 : <<q, i>> \in S <=> <<q, i>> \in T
  BY Zenon, ClosingOthers
<1>3. PICK n \in Nat : n = Len(todo[p])
  BY <1>1
<1>4. n \in 1..2
  BY <1>1, <1>3
<1>5. PICK m \in Nat : m = Len(todo'[p])
  BY <1>1
<1>6. m = n - 1
  BY <1>1, <1>3, <1>4, <1>5
<1>7. n = 2 => todo'[p][m] = todo[p][n]
  <2>1. Len(todo[p]) = 2 => Tail(todo[p])[1] = todo[p][2]
    BY <1>1, TailFacts, Zenon
  <2>2. n = 2 => m = 1
    BY <1>6
  <2> QED
    BY Zenon, <1>3, <2>1, <2>2
<1>8. /\ <<p, 1>> \in S <=> n >= 2 /\ todo[p][n] = f
      /\ <<p, 2>> \in S <=> n >= 3 /\ todo[p][n - 1] = f
  BY Zenon, <1>1, <1>3, ClosingLater
<1>9. /\ <<p, 1>> \in T <=> m >= 1 /\ todo'[p][m] = f
      /\ <<p, 2>> \in T <=> m >= 2 /\ todo'[p][m - 1] = f
  BY Zenon, <1>1, <1>5, ClosingNowAfter
<1>10. (<<p, 1>> \in S <=> <<p, 1>> \in T) /\ (<<p, 2>> \in S <=> <<p, 2>> \in T)
  <2>1. CASE n = 1
    BY <1>6, <1>8, <1>9, <2>1
  <2>2. CASE n = 2
    <3>0. m = 1
      BY <1>6, <2>2
    <3>1. todo'[p][m] = todo[p][n]
      BY <1>7, <2>2, Zenon
    <3>a. n >= 2 /\ m >= 1
      BY <2>2, <3>0
    <3>2. <<p, 2>> \notin S /\ <<p, 2>> \notin T
      BY <1>8, <1>9, <2>2, <3>0
    <3>3. (<<p, 1>> \in S <=> todo[p][n] = f) /\ (<<p, 1>> \in T <=> todo'[p][m] = f)
      BY <1>8, <1>9, <3>a, Zenon
    <3> QED
      BY <3>1, <3>2, <3>3, Zenon
  <2> QED
    BY <1>4, <2>1, <2>2
<1>11. S \in SUBSET (Procs \X (1..2)) /\ T \in SUBSET (Procs \X (1..2))
  BY Zenon, ClosingFinite
<1>12. Closing(f) = S /\ Closing(f)' = T
  BY Zenon
<1> HIDE DEF S, T
<1>13. S = T
  BY <1>2, <1>10, <1>11, SameCalls
<1> QED
  BY Zenon, <1>12, <1>13

\* A file without a type gets an object.
LEMMA GiveObject ==
  ASSUME FilesTypeOK, NEW g \in Slots, NEW u \in Objects, obj[g] = None,
         obj' = [obj EXCEPT ![g] = u], NEW w \in Objects, w # None
  PROVE  Cardinality(Files(w)') = Cardinality(Files(w)) + (IF w = u THEN 1 ELSE 0)
<1>1. \A y \in Slots : obj'[y] = IF y = g THEN u ELSE obj[y]
  BY Zenon DEF FilesTypeOK
<1>2. Files(w)' \in SUBSET Slots /\ Files(w) \in SUBSET Slots
  BY Zenon DEF Files
<1>3. IsFiniteSet(Files(w)) /\ Cardinality(Files(w)) \in Nat
  BY Zenon, <1>2, Finite
<1>4. CASE w = u
  <2>1. g \notin Files(w)
    BY Zenon, <1>1, <1>4 DEF Files
  <2>2. Files(w)' = Files(w) \cup {g}
    BY Zenon, <1>1, <1>4 DEF Files
  <2> QED
    BY Zenon, <1>3, <1>4, <2>1, <2>2, OneMore
<1>5. CASE w # u
  <2>1. Files(w)' = Files(w)
    BY Zenon, <1>1, <1>5 DEF Files
  <2> QED
    BY <1>3, <1>5, <2>1
<1> QED
  BY Zenon, <1>4, <1>5

\* The last fileclose clears the entry ...
LEMMA TakeObject ==
  ASSUME FilesTypeOK, NEW g \in Slots,
         obj' = [obj EXCEPT ![g] = None], NEW w \in Objects, w # None
  PROVE  Cardinality(Files(w)) = Cardinality(Files(w)') + (IF w = obj[g] THEN 1 ELSE 0)
<1>1. \A y \in Slots : obj'[y] = IF y = g THEN None ELSE obj[y]
  BY Zenon DEF FilesTypeOK
<1>2. Files(w)' \in SUBSET Slots /\ Files(w) \in SUBSET Slots
  BY Zenon DEF Files
<1>3. IsFiniteSet(Files(w)') /\ Cardinality(Files(w)') \in Nat
  BY Zenon, <1>2, Finite
<1>4. CASE w = obj[g]
  <2>1. g \notin Files(w)'
    BY Zenon, <1>1, <1>4 DEF Files
  <2>2. Files(w) = Files(w)' \cup {g}
    BY Zenon, <1>1, <1>4 DEF Files
  <2> QED
    BY Zenon, <1>3, <1>4, <2>1, <2>2, OneMore
<1>5. CASE w # obj[g]
  <2>1. Files(w) = Files(w)'
    BY Zenon, <1>1, <1>5 DEF Files
  <2> QED
    BY <1>3, <1>5, <2>1
<1> QED
  BY Zenon, <1>4, <1>5

\* ... with a copy of it ...
LEMMA GiveCopy ==
  ASSUME FilesTypeOK, NEW p \in Procs, NEW u \in Objects, ff[p] = None,
         ff' = [ff EXCEPT ![p] = u], NEW w \in Objects, w # None
  PROVE  Cardinality(Putting(w)') = Cardinality(Putting(w)) + (IF w = u THEN 1 ELSE 0)
<1>1. \A y \in Procs : ff'[y] = IF y = p THEN u ELSE ff[y]
  BY Zenon DEF FilesTypeOK
<1>2. Putting(w)' \in SUBSET Procs /\ Putting(w) \in SUBSET Procs
  BY Zenon DEF Putting
<1>3. IsFiniteSet(Putting(w)) /\ Cardinality(Putting(w)) \in Nat
  BY Zenon, <1>2, Finite
<1>4. CASE w = u
  <2>1. p \notin Putting(w)
    BY Zenon, <1>1, <1>4 DEF Putting
  <2>2. Putting(w)' = Putting(w) \cup {p}
    BY Zenon, <1>1, <1>4 DEF Putting
  <2> QED
    BY Zenon, <1>3, <1>4, <2>1, <2>2, OneMore
<1>5. CASE w # u
  <2>1. Putting(w)' = Putting(w)
    BY Zenon, <1>1, <1>5 DEF Putting
  <2> QED
    BY <1>3, <1>5, <2>1
<1> QED
  BY Zenon, <1>4, <1>5

\* ... that is put.
LEMMA DropCopy ==
  ASSUME FilesTypeOK, NEW p \in Procs,
         ff' = [ff EXCEPT ![p] = None], NEW w \in Objects, w # None
  PROVE  Cardinality(Putting(w)) = Cardinality(Putting(w)') + (IF w = ff[p] THEN 1 ELSE 0)
<1>1. \A y \in Procs : ff'[y] = IF y = p THEN None ELSE ff[y]
  BY Zenon DEF FilesTypeOK
<1>2. Putting(w)' \in SUBSET Procs /\ Putting(w) \in SUBSET Procs
  BY Zenon DEF Putting
<1>3. IsFiniteSet(Putting(w)') /\ Cardinality(Putting(w)') \in Nat
  BY Zenon, <1>2, Finite
<1>4. CASE w = ff[p]
  <2>1. p \notin Putting(w)'
    BY Zenon, <1>1, <1>4 DEF Putting
  <2>2. Putting(w) = Putting(w)' \cup {p}
    BY Zenon, <1>1, <1>4 DEF Putting
  <2> QED
    BY Zenon, <1>3, <1>4, <2>1, <2>2, OneMore
<1>5. CASE w # ff[p]
  <2>1. Putting(w) = Putting(w)'
    BY Zenon, <1>1, <1>5 DEF Putting
  <2> QED
    BY <1>3, <1>5, <2>1
<1> QED
  BY Zenon, <1>4, <1>5

-----------------------------------------------------------------------------
(* What the counts imply. *)

\* ref counts the descriptors and calls of a file, and 0 means that there are none.
LEMMA Counts ==
  ASSUME RefsAreDescriptors, NEW f \in Slots
  PROVE  /\ Cardinality(Descriptors(f)) \in Nat /\ Cardinality(Closing(f)) \in Nat
         /\ Cardinality(Creating(f)) \in Nat
         /\ Cardinality(Descriptors(f)) = 0 <=> Descriptors(f) = {}
         /\ Cardinality(Closing(f)) = 0 <=> Closing(f) = {}
         /\ Cardinality(Creating(f)) = 0 <=> Creating(f) = {}
         /\ ref[f] = Cardinality(Descriptors(f)) + Cardinality(Closing(f)) + Cardinality(Creating(f))
<1>1. /\ Descriptors(f) \in SUBSET (Procs \X Fds) /\ Closing(f) \in SUBSET (Procs \X (1..2))
      /\ Creating(f) \in SUBSET Procs
  BY Zenon DEF Descriptors, Closing, Creating
<1>2. /\ IsFiniteSet(Descriptors(f)) /\ Cardinality(Descriptors(f)) \in Nat
      /\ IsFiniteSet(Closing(f)) /\ Cardinality(Closing(f)) \in Nat
      /\ IsFiniteSet(Creating(f)) /\ Cardinality(Creating(f)) \in Nat
  BY Zenon, <1>1, Finite
<1>3. /\ Cardinality(Descriptors(f)) = 0 <=> Descriptors(f) = {}
      /\ Cardinality(Closing(f)) = 0 <=> Closing(f) = {}
      /\ Cardinality(Creating(f)) = 0 <=> Creating(f) = {}
  BY <1>2, NonEmpty, Zenon
<1> QED
  BY Zenon, <1>2, <1>3 DEF RefsAreDescriptors

\* Which descriptors and calls are counted.
LEMMA Members ==
  ASSUME NEW f
  PROVE  /\ \A q \in Procs, e \in Fds : <<q, e>> \in Descriptors(f) <=> ofile[q][e] = f
         /\ \A q \in Procs : q \in Creating(f) <=> mine[q] = f
BY Zenon DEF Descriptors, Creating

\* A free entry of the table is nobody's.
LEMMA FreeSlotIsNobodys ==
  ASSUME FilesTypeOK, RefsAreDescriptors, NEW f \in Slots, ref[f] = 0
  PROVE  /\ \A q \in Procs, e \in Fds : ofile[q][e] # f
         /\ \A q \in Procs : mine[q] # f
<1>1. Descriptors(f) = {} /\ Creating(f) = {}
  BY Counts
<1> QED
  BY <1>1, Members, Zenon

\* The file that pipealloc holds is its own.
LEMMA OwnFile ==
  ASSUME FilesTypeOK, RefsAreDescriptors, NEW p \in Procs, NEW f \in Slots, mine[p] = f, ref[f] = 1
  PROVE  /\ \A q \in Procs, e \in Fds : ofile[q][e] # f
         /\ \A q \in Procs : mine[q] = f => q = p
         /\ Closing(f) = {}
<1>1. p \in Creating(f) /\ Creating(f) \in SUBSET Procs
  BY Zenon DEF Creating
<1>2. Cardinality(Creating(f)) = 1 /\ Descriptors(f) = {} /\ Closing(f) = {}
  BY <1>1, Counts
<1>3. ASSUME NEW q \in Procs, mine[q] = f, q # p PROVE FALSE
  <2>1. q \in Creating(f)
    BY Zenon, <1>3 DEF Creating
  <2>2. Cardinality(Creating(f)) >= 2
    BY Zenon, <1>1, <1>3, <2>1, Finite, TwoElements
  <2> QED
    BY <1>2, <2>2
<1> QED
  BY <1>2, <1>3, Members, Zenon

\* A file that is being closed has a reference for that; when it is the last
\* one, no descriptor and no pipealloc has the file.
LEMMA LastReference ==
  ASSUME FilesTypeOK, RefsAreDescriptors, NEW p \in Procs, todo[p] # <<>>, Len(todo[p]) <= 2, ff[p] = None
  PROVE  LET f == Head(todo[p]) IN
         /\ f \in Slots /\ ref[f] >= 1
         /\ ref[f] = 1 => /\ \A q \in Procs, e \in Fds : ofile[q][e] # f
                          /\ \A q \in Procs : mine[q] # f
<1> DEFINE f == Head(todo[p])
<1>1. todo[p] \in Seq(Slots)
  BY Zenon DEF FilesTypeOK
<1>2. f \in Slots /\ f = todo[p][1]
  BY Zenon, <1>1, TailFacts
<1>3. PICK n \in Nat : n = Len(todo[p])
  BY <1>1
<1>4. n = 1 \/ n = 2
  <2>1. n # 0
    BY Zenon, <1>1, <1>3, TailFacts
  <2>2. n <= 2
    BY Zenon, <1>3
  <2> QED
    BY <2>1, <2>2
<1>5. (n = 1 => <<p, 1>> \in Closing(f)) /\ (n = 2 => <<p, 2>> \in Closing(f))
  <2>1. /\ <<p, 1>> \in Closing(f) <=> (n >= 1 /\ todo[p][n] = f)
        /\ <<p, 2>> \in Closing(f) <=> (n >= 2 /\ todo[p][n - 1] = f)
    BY Zenon, <1>1, <1>2, <1>3, ClosingNow
  <2> QED
    BY <1>2, <2>1
<1>6. Closing(f) # {}
  BY Zenon, <1>4, <1>5
<1> HIDE DEF f
<1>7. ref[f] >= 1 /\ (ref[f] = 1 => Descriptors(f) = {} /\ Creating(f) = {})
  BY <1>2, <1>6, Counts
<1>8. ref[f] = 1 => /\ \A q \in Procs, e \in Fds : ofile[q][e] # f
                    /\ \A q \in Procs : mine[q] # f
  BY <1>7, Members, Zenon
<1> QED
  BY Zenon, <1>2, <1>7, <1>8 DEF f

-----------------------------------------------------------------------------
(* The steps. *)

\* The entry that filealloc finds, and the descriptor that fdalloc finds.
LEMMA Scans ==
  ASSUME FilesTypeOK, NEW p \in Procs
  PROVE  /\ FreeSlots # {} => Min(FreeSlots) \in Slots /\ ref[Min(FreeSlots)] = 0
         /\ FreeFds(p) # {} => Min(FreeFds(p)) \in Fds /\ ofile[p][Min(FreeFds(p))] = 0
<1>1. FreeSlots \in SUBSET Nat /\ FreeFds(p) \in SUBSET Nat
  BY Zenon, SlotFacts DEF FreeSlots, FreeFds
<1>2. FreeSlots # {} => Min(FreeSlots) \in FreeSlots
  BY Zenon, <1>1, MinIn
<1>3. FreeFds(p) # {} => Min(FreeFds(p)) \in FreeFds(p)
  BY Zenon, <1>1, MinIn
<1> QED
  BY Zenon, <1>2, <1>3 DEF FreeSlots, FreeFds

\* Steps that leave a part of the state alone.
LEMMA SameDescriptors ==
  ASSUME ofile' = ofile, NEW f PROVE Descriptors(f)' = Descriptors(f)
BY Zenon DEF Descriptors

\* The same for the calls of fileclose.
LEMMA SameClosing ==
  ASSUME todo' = todo, ff' = ff, NEW f PROVE Closing(f)' = Closing(f)
BY Zenon DEF Closing

\* The same for the files of pipealloc.
LEMMA SameCreating ==
  ASSUME mine' = mine, NEW f PROVE Creating(f)' = Creating(f)
BY Zenon DEF Creating

\* The same for the inodes and pipe ends behind the files.
LEMMA SameObjects ==
  ASSUME ObjectsFollowFiles, obj' = obj, ff' = ff, iref' = iref, open' = open
  PROVE  ObjectsFollowFiles'
<1>1. \A o : Files(o)' = Files(o) /\ Putting(o)' = Putting(o)
  BY Zenon DEF Files, Putting
<1> QED
  BY Zenon, <1>1 DEF ObjectsFollowFiles

\* A step that changes nothing.
LEMMA FilesStutter ==
  ASSUME FilesInv, UNCHANGED fileVars
  PROVE  FilesInv'
<1>0. FilesTypeOK /\ CallInv /\ FreeInv /\ RefsAreDescriptors /\ ObjectsFollowFiles
  BY Zenon DEF FilesInv
<1>1. FilesTypeOK' /\ CallInv' /\ FreeInv'
  BY Zenon, <1>0 DEF fileVars, FilesTypeOK, CallInv, FreeInv
<1>2. ASSUME NEW f PROVE Descriptors(f)' = Descriptors(f) /\ Closing(f)' = Closing(f) /\ Creating(f)' = Creating(f)
  BY Zenon, SameDescriptors, SameClosing, SameCreating DEF fileVars
<1>3. RefsAreDescriptors'
  BY <1>0, <1>2 DEF RefsAreDescriptors, fileVars
<1>4. ObjectsFollowFiles'
  BY Zenon, <1>0, SameObjects DEF fileVars
<1> QED
  BY Zenon, <1>1, <1>3, <1>4 DEF FilesInv

\* sys_open: a file with its descriptor, or a file to close again.
LEMMA OpenStep ==
  ASSUME FilesInv, NEW p \in Procs, NEW o \in InodeObjects, sys_open(p, o)
  PROVE  FilesInv'
<1> DEFINE f == Min(FreeSlots)
           d == Min(FreeFds(p))
<1>0. FilesTypeOK /\ CallInv /\ FreeInv /\ RefsAreDescriptors /\ ObjectsFollowFiles
  BY Zenon DEF FilesInv
<1>1. CASE FreeSlots = {}
  <2>1. UNCHANGED fileVars
    BY Zenon, <1>1 DEF sys_open, fileVars
  <2> QED
    BY Zenon, <2>1, FilesStutter
<1>2. CASE FreeSlots # {} /\ FreeFds(p) = {}
  <2>1. f \in Slots /\ ref[f] = 0
    BY Zenon, <1>0, <1>2, Scans
  <2> HIDE DEF f
  <2>2. /\ p \in alive /\ pc[p] = "user" /\ todo[p] = <<>>
        /\ ref' = [ref EXCEPT ![f] = 1] /\ todo' = [todo EXCEPT ![p] = <<f>>]
        /\ UNCHANGED <<obj, ofile, iref, mine, alive, open, pc, ff>>
    BY Zenon, <1>2 DEF sys_open, user, f
  <2>3. FilesTypeOK'
    BY <1>0, <2>1, <2>2 DEF FilesTypeOK
  <2>4. ff[p] = None /\ obj[f] = None /\ \A q \in Procs : mine[q] # f
    BY <1>0, <2>1, <2>2, FreeSlotIsNobodys DEF CallInv, FreeInv
  <2>5. CallInv'
    BY <1>0, <2>1, <2>2, <2>4 DEF CallInv, FilesTypeOK
  <2>6. FreeInv'
    BY Zenon, <1>0, <2>1, <2>2 DEF FreeInv, FilesTypeOK
  <2>7. RefsAreDescriptors'
    <3> SUFFICES ASSUME NEW g \in Slots
                 PROVE  /\ ref'[g] = Cardinality(Descriptors(g)') + Cardinality(Closing(g)') + Cardinality(Creating(g)')
                        /\ Descriptors(g)' # {} => obj'[g] # None
      BY Zenon DEF RefsAreDescriptors
    <3>1. Descriptors(g)' = Descriptors(g) /\ Creating(g)' = Creating(g)
      BY Zenon, <2>2, SameDescriptors, SameCreating
    <3>2. Cardinality(Closing(g)') = Cardinality(Closing(g)) + (IF g = f THEN 1 ELSE 0)
      BY Zenon, <1>0, <2>1, <2>2, <2>3, <2>4, PushOne
    <3>3. ref'[g] = ref[g] + (IF g = f THEN 1 ELSE 0)
      BY <1>0, <2>1, <2>2 DEF FilesTypeOK
    <3>4. Descriptors(g) # {} => obj[g] # None
      BY Zenon, <1>0 DEF RefsAreDescriptors
    <3> QED
      BY <1>0, <2>2, <3>1, <3>2, <3>3, <3>4, Counts
  <2>8. ObjectsFollowFiles'
    BY Zenon, <1>0, <2>2, SameObjects
  <2> QED
    BY <2>3, <2>5, <2>6, <2>7, <2>8 DEF FilesInv
<1>3. CASE FreeSlots # {} /\ FreeFds(p) # {}
  <2>1. f \in Slots /\ ref[f] = 0 /\ d \in Fds /\ ofile[p][d] = 0
    BY Zenon, <1>0, <1>3, Scans
  <2> HIDE DEF f, d
  <2>2. /\ p \in alive /\ pc[p] = "user" /\ todo[p] = <<>>
        /\ ref' = [ref EXCEPT ![f] = 1] /\ ofile' = [ofile EXCEPT ![p][d] = f]
        /\ obj' = [obj EXCEPT ![f] = o] /\ iref' = [iref EXCEPT ![o] = @ + 1]
        /\ UNCHANGED <<todo, mine, alive, open, pc, ff>>
    BY Zenon, <1>3 DEF sys_open, user, f, d
  <2>3. FilesTypeOK'
    BY <1>0, <2>1, <2>2 DEF FilesTypeOK, Objects
  <2>4. obj[f] = None /\ \A q \in Procs : mine[q] # f
    BY <1>0, <2>1, <2>2, FreeSlotIsNobodys DEF FreeInv
  <2>5. CallInv'
    BY <1>0, <2>1, <2>2, <2>4 DEF CallInv, FilesTypeOK
  <2>6. FreeInv'
    BY <1>0, <2>1, <2>2 DEF FreeInv, FilesTypeOK
  <2>7. RefsAreDescriptors'
    <3> SUFFICES ASSUME NEW g \in Slots
                 PROVE  /\ ref'[g] = Cardinality(Descriptors(g)') + Cardinality(Closing(g)') + Cardinality(Creating(g)')
                        /\ Descriptors(g)' # {} => obj'[g] # None
      BY Zenon DEF RefsAreDescriptors
    <3>1. Closing(g)' = Closing(g) /\ Creating(g)' = Creating(g)
      BY Zenon, <2>2, SameClosing, SameCreating
    <3>2. Cardinality(Descriptors(g)') = Cardinality(Descriptors(g)) + (IF g = f THEN 1 ELSE 0)
      BY Zenon, <1>0, <2>1, <2>2, SetDescriptor
    <3>3. ref'[g] = ref[g] + (IF g = f THEN 1 ELSE 0)
      BY <1>0, <2>1, <2>2 DEF FilesTypeOK
    <3>4. Descriptors(g)' # {} => obj'[g] # None
      <4>1. CASE g = f
        BY Zenon, <1>0, <2>1, <2>2, <4>1, ObjectFacts DEF FilesTypeOK
      <4>2. CASE g # f
        <5>1. Descriptors(g)' = Descriptors(g)
          BY <1>0, <2>1, <2>2, <4>2, SlotFacts DEF Descriptors, FilesTypeOK
        <5> QED
          BY Zenon, <1>0, <2>1, <2>2, <4>2, <5>1 DEF RefsAreDescriptors, FilesTypeOK
      <4> QED
        BY Zenon, <4>1, <4>2
    <3> QED
      BY <1>0, <3>1, <3>2, <3>3, <3>4, Counts
  <2>8. ObjectsFollowFiles'
    <3>1. ASSUME NEW w \in InodeObjects \cup Ends
          PROVE  /\ Putting(w)' = Putting(w)
                 /\ Cardinality(Files(w)') = Cardinality(Files(w)) + (IF w = o THEN 1 ELSE 0)
      BY Zenon, <1>0, <2>1, <2>2, <2>4, ObjectFacts, GiveObject DEF Objects, Putting
    <3>2. ASSUME NEW w \in InodeObjects \cup Ends PROVE Cardinality(Files(w)) \in Nat /\ Cardinality(Putting(w)) \in Nat
      BY Zenon, Finite DEF Files, Putting
    <3>3. ASSUME NEW w \in InodeObjects PROVE iref'[w] = Cardinality(Files(w)') + Cardinality(Putting(w)')
      <4>1. iref'[w] = iref[w] + (IF w = o THEN 1 ELSE 0)
        BY <1>0, <2>2 DEF FilesTypeOK
      <4> QED
        BY <1>0, <3>1, <3>2, <4>1 DEF ObjectsFollowFiles
    <3>4. ASSUME NEW w \in Ends PROVE open'[w] = Cardinality(Files(w)') + Cardinality(Putting(w)')
      <4>1. w # o
        BY Zenon, ObjectFacts
      <4> QED
        BY <1>0, <2>2, <3>1, <3>2, <4>1 DEF ObjectsFollowFiles
    <3> QED
      BY Zenon, <3>3, <3>4 DEF ObjectsFollowFiles
  <2> QED
    BY Zenon, <2>3, <2>5, <2>6, <2>7, <2>8 DEF FilesInv
<1> QED
  BY Zenon, <1>1, <1>2, <1>3

\* sys_dup: one more descriptor.
LEMMA DupStep ==
  ASSUME FilesInv, NEW p \in Procs, NEW e \in Fds, sys_dup(p, e)
  PROVE  FilesInv'
<1> DEFINE f == ofile[p][e]
           d == Min(FreeFds(p))
<1>0. FilesTypeOK /\ CallInv /\ FreeInv /\ RefsAreDescriptors /\ ObjectsFollowFiles
  BY Zenon DEF FilesInv
<1>1. f \in Slots /\ d \in Fds /\ ofile[p][d] = 0
  BY <1>0, Scans DEF FilesTypeOK, sys_dup
<1>2. <<p, e>> \in Descriptors(f)
  BY Zenon, Members
<1> HIDE DEF f, d
<1>3. /\ p \in alive
      /\ ref' = [ref EXCEPT ![f] = @ + 1] /\ ofile' = [ofile EXCEPT ![p][d] = f]
      /\ UNCHANGED <<mine, obj, alive, iref, open, pc, ff, todo>>
  BY Zenon DEF sys_dup, user, f, d
<1>4. FilesTypeOK'
  BY <1>0, <1>1, <1>3 DEF FilesTypeOK
<1>5. obj[f] # None
  BY Zenon, <1>0, <1>1, <1>2 DEF RefsAreDescriptors
<1>6. CallInv'
  BY <1>0, <1>1, <1>3, <1>5 DEF CallInv, FilesTypeOK
<1>7. FreeInv'
  BY <1>0, <1>1, <1>3 DEF FreeInv, FilesTypeOK
<1>8. RefsAreDescriptors'
  <2> SUFFICES ASSUME NEW g \in Slots
               PROVE  /\ ref'[g] = Cardinality(Descriptors(g)') + Cardinality(Closing(g)') + Cardinality(Creating(g)')
                      /\ Descriptors(g)' # {} => obj'[g] # None
    BY Zenon DEF RefsAreDescriptors
  <2>1. Closing(g)' = Closing(g) /\ Creating(g)' = Creating(g)
    BY Zenon, <1>3, SameClosing, SameCreating
  <2>2. Cardinality(Descriptors(g)') = Cardinality(Descriptors(g)) + (IF g = f THEN 1 ELSE 0)
    BY <1>0, <1>1, <1>3, SetDescriptor
  <2>3. ref'[g] = ref[g] + (IF g = f THEN 1 ELSE 0)
    BY <1>0, <1>1, <1>3 DEF FilesTypeOK
  <2>4. Descriptors(g)' # {} => obj'[g] # None
    <3>1. CASE g = f
      BY Zenon, <1>3, <1>5, <3>1
    <3>2. CASE g # f
      <4>1. Descriptors(g)' = Descriptors(g)
        BY <1>0, <1>1, <1>3, <3>2, SlotFacts DEF Descriptors, FilesTypeOK
      <4> QED
        BY Zenon, <1>0, <1>3, <4>1 DEF RefsAreDescriptors
    <3> QED
      BY Zenon, <3>1, <3>2
  <2> QED
    BY <1>0, <2>1, <2>2, <2>3, <2>4, Counts
<1>9. ObjectsFollowFiles'
  BY <1>0, <1>3, SameObjects
<1> QED
  BY Zenon, <1>4, <1>6, <1>7, <1>8, <1>9 DEF FilesInv

\* A descriptor is cleared and its file is to be closed: sys_close, and each
\* round of exit.
LEMMA CloseStep ==
  ASSUME FilesInv, NEW p \in Procs, NEW d \in Fds, NEW f \in Slots, ofile[p][d] = f,
         p \in alive, pc[p] # "pipe", todo[p] = <<>>,
         ofile' = [ofile EXCEPT ![p][d] = 0], todo' = [todo EXCEPT ![p] = <<f>>],
         pc' = [pc EXCEPT ![p] = pc'[p]], pc'[p] \in {"user", "exit"},
         UNCHANGED <<mine, ref, obj, alive, iref, open, ff>>
  PROVE  FilesInv'
<1>0. FilesTypeOK /\ CallInv /\ FreeInv /\ RefsAreDescriptors /\ ObjectsFollowFiles
  BY DEF FilesInv
<1>1. FilesTypeOK'
  <2>1. pc' \in [Procs -> {"user", "pipe", "exit"}]
    BY Zenon, <1>0 DEF FilesTypeOK
  <2>2. ofile' \in [Procs -> [Fds -> Slots \cup {0}]]
    BY Zenon, <1>0 DEF FilesTypeOK
  <2>3. todo' \in [Procs -> Seq(Slots)]
    BY <1>0 DEF FilesTypeOK
  <2> QED
    BY <1>0, <2>1, <2>2, <2>3 DEF FilesTypeOK
<1>2. ff[p] = None
  BY Zenon, <1>0 DEF CallInv
<1>3. CallInv'
  <2>1. todo'[p] = <<f>> /\ Len(<<f>>) = 1 /\ <<f>> # <<>> /\ \A q \in Procs : q # p => todo'[q] = todo[q]
    BY Zenon, <1>0 DEF FilesTypeOK
  <2>2. \A q \in Procs : q # p => pc'[q] = pc[q] /\ \A e \in Fds : ofile'[q][e] = ofile[q][e]
    BY Zenon, <1>0 DEF FilesTypeOK
  <2> QED
    BY <1>0, <1>2, <2>1, <2>2 DEF CallInv
<1>4. FreeInv'
  BY Zenon, <1>0 DEF FreeInv
<1>5. RefsAreDescriptors'
  <2> SUFFICES ASSUME NEW g \in Slots
               PROVE  /\ ref'[g] = Cardinality(Descriptors(g)') + Cardinality(Closing(g)') + Cardinality(Creating(g)')
                      /\ Descriptors(g)' # {} => obj'[g] # None
    BY Zenon DEF RefsAreDescriptors
  <2>1. Creating(g)' = Creating(g)
    BY Zenon, SameCreating
  <2>2. Cardinality(Descriptors(g)) = Cardinality(Descriptors(g)') + (IF g = f THEN 1 ELSE 0)
    BY <1>0, ClearDescriptor
  <2>3. Cardinality(Closing(g)') = Cardinality(Closing(g)) + (IF g = f THEN 1 ELSE 0)
    BY Zenon, <1>0, <1>1, <1>2, PushOne
  <2>4. Descriptors(g)' \subseteq Descriptors(g) /\ Descriptors(g)' \in SUBSET (Procs \X Fds)
    BY <1>0, SlotFacts DEF Descriptors, FilesTypeOK
  <2>5. Descriptors(g)' # {} => obj'[g] # None
    BY Zenon, <1>0, <2>4 DEF RefsAreDescriptors
  <2>6. Cardinality(Descriptors(g)') \in Nat
    BY Zenon, <2>4, Finite
  <2> QED
    BY <1>0, <2>1, <2>2, <2>3, <2>5, <2>6, Counts
<1>6. ObjectsFollowFiles'
  BY Zenon, <1>0, SameObjects
<1> QED
  BY Zenon, <1>1, <1>3, <1>4, <1>5, <1>6 DEF FilesInv

\* sys_pipe takes a first file.
LEMMA PipeStep ==
  ASSUME FilesInv, NEW p \in Procs, sys_pipe(p)
  PROVE  FilesInv'
<1> DEFINE f == Min(FreeSlots)
<1>0. FilesTypeOK /\ CallInv /\ FreeInv /\ RefsAreDescriptors /\ ObjectsFollowFiles
  BY Zenon DEF FilesInv
<1>1. f \in Slots /\ ref[f] = 0
  BY Zenon, <1>0, Scans DEF sys_pipe
<1> HIDE DEF f
<1>2. /\ p \in alive /\ pc[p] = "user" /\ todo[p] = <<>>
      /\ ref' = [ref EXCEPT ![f] = 1] /\ mine' = [mine EXCEPT ![p] = f] /\ pc' = [pc EXCEPT ![p] = "pipe"]
      /\ UNCHANGED <<obj, ofile, alive, iref, open, ff, todo>>
  BY Zenon DEF sys_pipe, user, f
<1>3. FilesTypeOK'
  BY <1>0, <1>1, <1>2 DEF FilesTypeOK
<1>4. obj[f] = None /\ mine[p] = 0 /\ \A q \in Procs : mine[q] # f
  BY <1>0, <1>1, <1>2, FreeSlotIsNobodys DEF CallInv, FreeInv
<1>5. CallInv'
  <2>1. f # 0
    BY Zenon, <1>1, SlotFacts
  <2> QED
    BY <1>0, <1>1, <1>2, <1>4, <2>1 DEF CallInv, FilesTypeOK
<1>6. FreeInv'
  BY Zenon, <1>0, <1>1, <1>2 DEF FreeInv, FilesTypeOK
<1>7. RefsAreDescriptors'
  <2> SUFFICES ASSUME NEW g \in Slots
               PROVE  /\ ref'[g] = Cardinality(Descriptors(g)') + Cardinality(Closing(g)') + Cardinality(Creating(g)')
                      /\ Descriptors(g)' # {} => obj'[g] # None
    BY Zenon DEF RefsAreDescriptors
  <2>1. Descriptors(g)' = Descriptors(g) /\ Closing(g)' = Closing(g)
    BY Zenon, <1>2, SameDescriptors, SameClosing
  <2>2. Cardinality(Creating(g)') = Cardinality(Creating(g)) + (IF g = f THEN 1 ELSE 0)
    BY Zenon, <1>0, <1>1, <1>2, <1>4, SetMine
  <2>3. ref'[g] = ref[g] + (IF g = f THEN 1 ELSE 0)
    BY <1>0, <1>1, <1>2 DEF FilesTypeOK
  <2>4. Descriptors(g)' # {} => obj'[g] # None
    BY Zenon, <1>0, <1>2, <2>1 DEF RefsAreDescriptors
  <2> QED
    BY <1>0, <2>1, <2>2, <2>3, <2>4, Counts
<1>8. ObjectsFollowFiles'
  BY Zenon, <1>0, <1>2, SameObjects
<1> QED
  BY Zenon, <1>3, <1>5, <1>6, <1>7, <1>8 DEF FilesInv

\* fork: a reference for each descriptor of the parent.
LEMMA ForkStep ==
  ASSUME FilesInv, NEW p \in Procs, NEW c \in Procs, fork_files(p, c)
  PROVE  FilesInv'
<1> DEFINE D(f) == {d \in Fds : ofile[p][d] = f}
<1>0. FilesTypeOK /\ CallInv /\ FreeInv /\ RefsAreDescriptors /\ ObjectsFollowFiles
  BY Zenon DEF FilesInv
<1>1. /\ p \in alive /\ c \notin alive /\ alive' = alive \cup {c}
      /\ ofile' = [ofile EXCEPT ![c] = ofile[p]]
      /\ ref' = [f \in Slots |-> ref[f] + Cardinality(D(f))]
      /\ UNCHANGED <<mine, obj, iref, open, pc, ff, todo>>
  BY Zenon DEF fork_files, user
<1>2. \A f \in Slots : IsFiniteSet(D(f)) /\ Cardinality(D(f)) \in Nat
  BY Zenon, Finite
<1>3. \A f \in Slots : D(f) # {} => Descriptors(f) # {}
  <2> SUFFICES ASSUME NEW f \in Slots, NEW d \in Fds, ofile[p][d] = f PROVE Descriptors(f) # {}
    BY Zenon
  <2>1. <<p, d>> \in Descriptors(f)
    BY Zenon, Members
  <2> QED
    BY Zenon, <2>1
<1> HIDE DEF D
<1>4. FilesTypeOK'
  <2>1. ref' \in [Slots -> Nat]
    BY <1>0, <1>1, <1>2 DEF FilesTypeOK
  <2>2. ofile' \in [Procs -> [Fds -> Slots \cup {0}]]
    BY Zenon, <1>0, <1>1 DEF FilesTypeOK
  <2> QED
    BY <1>0, <1>1, <2>1, <2>2 DEF FilesTypeOK
<1>5. \A d \in Fds : ofile[c][d] = 0
  BY Zenon, <1>0, <1>1 DEF CallInv
<1>6. \A f \in Slots : obj[f] = None => D(f) = {} /\ Cardinality(D(f)) = 0
  BY Zenon, <1>0, <1>3, FS_EmptySet DEF RefsAreDescriptors
<1>7. \A f \in Slots : obj[f] = None => ref'[f] = ref[f]
  BY <1>0, <1>1, <1>6 DEF FilesTypeOK
<1>8. CallInv'
  <2>1. \A q \in Procs : q \notin alive' => \A d \in Fds : ofile'[q][d] = 0
    BY Zenon, <1>0, <1>1 DEF CallInv, FilesTypeOK
  <2>2. \A q \in Procs : mine[q] # 0 => mine[q] \in Slots
    BY Zenon, <1>0 DEF FilesTypeOK
  <2> QED
    BY <1>0, <1>1, <1>7, <2>1, <2>2 DEF CallInv
<1>9. FreeInv'
  <2> SUFFICES ASSUME NEW f \in Slots, ref'[f] = 0 PROVE obj[f] = None
    BY Zenon, <1>1 DEF FreeInv
  <2>1. ref[f] \in Nat /\ Cardinality(D(f)) \in Nat /\ ref'[f] = ref[f] + Cardinality(D(f))
    BY <1>0, <1>1, <1>2 DEF FilesTypeOK
  <2>2. ref[f] = 0
    BY <2>1
  <2> QED
    BY Zenon, <1>0, <2>2 DEF FreeInv
<1>10. RefsAreDescriptors'
  <2> SUFFICES ASSUME NEW g \in Slots
               PROVE  /\ ref'[g] = Cardinality(Descriptors(g)') + Cardinality(Closing(g)') + Cardinality(Creating(g)')
                      /\ Descriptors(g)' # {} => obj'[g] # None
    BY Zenon DEF RefsAreDescriptors
  <2> DEFINE E == {c} \X D(g)
  <2>1. Closing(g)' = Closing(g) /\ Creating(g)' = Creating(g)
    BY <1>1, SameClosing, SameCreating
  <2>2. Descriptors(g)' = Descriptors(g) \cup E
    <3>1. \A q \in Procs, d \in Fds : ofile'[q][d] = IF q = c THEN ofile[p][d] ELSE ofile[q][d]
      BY Zenon, <1>0, <1>1 DEF FilesTypeOK
    <3>2. g # 0
      BY Zenon, SlotFacts
    <3> QED
      BY <1>5, <3>1, <3>2 DEF Descriptors, D
  <2>3. Descriptors(g) \cap E = {}
    BY Zenon, <1>5, SlotFacts DEF Descriptors, D
  <2>4. IsFiniteSet(E) /\ Cardinality(E) = Cardinality(D(g))
    <3>1. IsFiniteSet({c}) /\ Cardinality({c}) = 1
      BY FS_Singleton, Zenon
    <3>2. IsFiniteSet(E) /\ Cardinality(E) = 1 * Cardinality(D(g))
      BY <1>2, <3>1, FS_Product, Zenon
    <3> QED
      BY <1>2, <3>2
  <2>5. Cardinality(Descriptors(g)') = Cardinality(Descriptors(g)) + Cardinality(D(g))
    <3>1. IsFiniteSet(Descriptors(g)) /\ Cardinality(Descriptors(g)) \in Nat
      BY Zenon, Finite DEF Descriptors
    <3>2. Cardinality(Descriptors(g) \cap E) = 0
      BY Zenon, <2>3, FS_EmptySet
    <3>3. Cardinality(Descriptors(g) \cup E) = Cardinality(Descriptors(g)) + Cardinality(E) - Cardinality(Descriptors(g) \cap E)
      BY <2>4, <3>1, FS_Union, Zenon
    <3>4. Cardinality(D(g)) \in Nat
      BY <1>2
    <3> QED
      BY <2>2, <2>4, <3>1, <3>2, <3>3, <3>4
  <2>6. ref'[g] = ref[g] + Cardinality(D(g))
    BY Zenon, <1>1
  <2>7. Descriptors(g)' # {} => obj'[g] # None
    <3>1. E # {} => D(g) # {}
      OBVIOUS
    <3>2. Descriptors(g)' # {} => Descriptors(g) # {}
      BY <1>3, <2>2, <3>1
    <3> QED
      BY Zenon, <1>0, <1>1, <3>2 DEF RefsAreDescriptors
  <2> HIDE DEF E
  <2>8. Cardinality(D(g)) \in Nat
    BY Zenon, <1>2
  <2> QED
    BY <1>0, <2>1, <2>5, <2>6, <2>7, <2>8, Counts
<1>11. ObjectsFollowFiles'
  BY Zenon, <1>0, <1>1, SameObjects
<1> QED
  BY Zenon, <1>4, <1>8, <1>9, <1>10, <1>11 DEF FilesInv

\* exit: a descriptor, or the process is gone.
LEMMA ExitStep ==
  ASSUME FilesInv, NEW p \in Procs, exit_files(p)
  PROVE  FilesInv'
<1> DEFINE left == Fds \ FreeFds(p)
           d == Min(left)
<1>0. FilesTypeOK /\ CallInv /\ FreeInv /\ RefsAreDescriptors /\ ObjectsFollowFiles
  BY Zenon DEF FilesInv
<1>1. p \in alive /\ pc[p] # "pipe" /\ todo[p] = <<>>
  BY <1>0 DEF exit_files, user, CallInv
<1>2. CASE left = {}
  <2>1. \A e \in Fds : ofile[p][e] = 0
    BY Zenon, <1>2 DEF FreeFds
  <2>2. /\ alive' = alive \ {p} /\ pc' = [pc EXCEPT ![p] = "user"]
        /\ UNCHANGED <<ofile, todo, mine, ref, obj, iref, open, ff>>
    BY <1>2 DEF exit_files
  <2>3. FilesTypeOK'
    BY <1>0, <2>2 DEF FilesTypeOK
  <2>4. CallInv'
    BY Zenon, <1>0, <1>1, <2>1, <2>2 DEF CallInv, FilesTypeOK
  <2>5. FreeInv'
    BY <1>0, <2>2 DEF FreeInv
  <2>6. ASSUME NEW f PROVE Descriptors(f)' = Descriptors(f) /\ Closing(f)' = Closing(f) /\ Creating(f)' = Creating(f)
    BY <2>2, SameDescriptors, SameClosing, SameCreating
  <2>7. RefsAreDescriptors'
    BY Zenon, <1>0, <2>2, <2>6 DEF RefsAreDescriptors
  <2>8. ObjectsFollowFiles'
    BY <1>0, <2>2, SameObjects
  <2> QED
    BY Zenon, <2>3, <2>4, <2>5, <2>7, <2>8 DEF FilesInv
<1>3. CASE left # {}
  <2>1. d \in left
    <3>1. left \in SUBSET Nat
      BY SlotFacts
    <3> QED
      BY Zenon, <1>3, <3>1, MinIn
  <2>2. d \in Fds /\ ofile[p][d] \in Slots
    BY <1>0, <2>1 DEF FreeFds, FilesTypeOK
  <2>3. /\ todo' = [todo EXCEPT ![p] = <<ofile[p][d]>>] /\ ofile' = [ofile EXCEPT ![p][d] = 0]
        /\ pc' = [pc EXCEPT ![p] = "exit"]
        /\ UNCHANGED <<mine, ref, obj, alive, iref, open, ff>>
    BY Zenon, <1>3 DEF exit_files
  <2> HIDE DEF d, left
  <2>4. pc'[p] = "exit"
    BY Zenon, <1>0, <2>3 DEF FilesTypeOK
  <2> QED
    BY <1>1, <2>2, <2>3, <2>4, CloseStep
<1> QED
  BY <1>2, <1>3

\* sys_close (sysfile.c:93-104) clears the descriptor and closes its file.
LEMMA SysCloseStep ==
  ASSUME FilesInv, NEW p \in Procs, NEW d \in Fds, sys_close(p, d)
  PROVE  FilesInv'
<1>0. FilesTypeOK
  BY Zenon DEF FilesInv
<1>1. /\ p \in alive /\ pc[p] = "user" /\ todo[p] = <<>> /\ ofile[p][d] \in Slots
      /\ ofile' = [ofile EXCEPT ![p][d] = 0] /\ todo' = [todo EXCEPT ![p] = <<ofile[p][d]>>]
      /\ UNCHANGED <<mine, ref, obj, alive, iref, open, ff, pc>>
  BY <1>0 DEF sys_close, user, FilesTypeOK
<1>2. pc' = [pc EXCEPT ![p] = pc'[p]] /\ pc'[p] = "user"
  BY <1>0, <1>1 DEF FilesTypeOK
<1> QED
  BY Zenon, <1>1, <1>2, CloseStep

\* fileclose takes its reference back, and with the last one frees the entry.
LEMMA FileCloseStep ==
  ASSUME FilesInv, NEW p \in Procs, fileclose(p)
  PROVE  FilesInv'
<1> DEFINE f == Head(todo[p])
<1>0. FilesTypeOK /\ CallInv /\ FreeInv /\ RefsAreDescriptors /\ ObjectsFollowFiles
  BY Zenon DEF FilesInv
<1>1. todo[p] # <<>> /\ ff[p] = None /\ Len(todo[p]) <= 2 /\ todo[p] \in Seq(Slots)
  BY Zenon, <1>0 DEF fileclose, CallInv, FilesTypeOK
<1>2. /\ f \in Slots /\ ref[f] \in Nat /\ ref[f] >= 1
      /\ ref[f] = 1 => /\ \A q \in Procs, e \in Fds : ofile[q][e] # f
                       /\ \A q \in Procs : mine[q] # f
  BY Zenon, <1>0, <1>1, LastReference DEF FilesTypeOK
<1>3. p \in alive /\ pc[p] # "pipe" /\ mine[p] = 0
  BY Zenon, <1>0, <1>1 DEF CallInv
<1>4. Tail(todo[p]) \in Seq(Slots) /\ Len(Tail(todo[p])) <= 2
  BY <1>1, TailFacts
<1>5. /\ ref' = [ref EXCEPT ![f] = @ - 1]
      /\ UNCHANGED <<mine, ofile, alive, iref, open, pc>>
  BY Zenon DEF fileclose
<1>6. /\ ref[f] > 1 => todo' = [todo EXCEPT ![p] = Tail(@)] /\ UNCHANGED <<obj, ff>>
      /\ ref[f] = 1 => /\ obj' = [obj EXCEPT ![f] = None]
                       /\ ff' = [ff EXCEPT ![p] = obj[f]]
                       /\ todo' = [todo EXCEPT ![p] = IF obj[f] = None THEN Tail(@) ELSE @]
  BY <1>2 DEF fileclose
<1>7. obj[f] \in Objects /\ None \in Objects
  BY Zenon, <1>0, <1>2 DEF FilesTypeOK, Objects
<1> HIDE DEF f
<1>8. /\ todo' \in [Procs -> Seq(Slots)] /\ ff' \in [Procs -> Objects] /\ obj' \in [Slots -> Objects]
      /\ \A q \in Procs : q # p => todo'[q] = todo[q] /\ ff'[q] = ff[q]
      /\ \/ todo'[p] = Tail(todo[p]) /\ ff'[p] = None
         \/ todo'[p] = todo[p] /\ ff'[p] # None
      /\ \A g \in Slots : obj'[g] = obj[g] \/ (g = f /\ ref[f] = 1 /\ obj'[g] = None)
  <2>1. CASE ref[f] > 1
    BY <1>0, <1>1, <1>4, <1>6, <2>1 DEF FilesTypeOK
  <2>2. CASE ref[f] = 1 /\ obj[f] = None
    <3>1. todo' = [todo EXCEPT ![p] = Tail(@)] /\ ff' = [ff EXCEPT ![p] = None] /\ obj' = [obj EXCEPT ![f] = None]
      BY <1>6, <2>2
    <3> QED
      BY Zenon, <1>0, <1>1, <1>2, <1>4, <1>7, <2>2, <3>1 DEF FilesTypeOK
  <2>3. CASE ref[f] = 1 /\ obj[f] # None
    BY <1>0, <1>1, <1>2, <1>4, <1>6, <1>7, <2>3 DEF FilesTypeOK
  <2> QED
    BY <1>2, <2>1, <2>2, <2>3
<1>9. FilesTypeOK'
  <2>1. ref' \in [Slots -> Nat]
    BY <1>0, <1>2, <1>5 DEF FilesTypeOK
  <2> QED
    BY Zenon, <1>0, <1>5, <1>8, <2>1 DEF FilesTypeOK
<1>10. \A g \in Slots : ref'[g] = IF g = f THEN ref[f] - 1 ELSE ref[g]
  BY <1>0, <1>2, <1>5 DEF FilesTypeOK
<1>11. CallInv'
  <2>1. \A q \in Procs : mine[q] # 0 => mine[q] # f
    <3> SUFFICES ASSUME NEW q \in Procs, mine[q] = f, mine[q] # 0 PROVE FALSE
      BY Zenon
    <3> QED
      BY Zenon, <1>0, <1>2 DEF CallInv
  <2>2. \A q \in Procs : mine[q] # 0 => mine[q] \in Slots
    BY Zenon, <1>0 DEF FilesTypeOK
  <2>3. \A q \in Procs : mine'[q] # 0 => ref'[mine'[q]] = 1 /\ obj'[mine'[q]] = None
    BY <1>0, <1>5, <1>8, <1>10, <2>1, <2>2 DEF CallInv
  <2>4. \A q \in Procs : /\ ff'[q] # None => todo'[q] # <<>>
                         /\ Len(todo'[q]) <= 2
    BY <1>0, <1>1, <1>4, <1>8 DEF CallInv
  <2>5. \A q \in Procs : pc[q] = "pipe" \/ q \notin alive => todo'[q] = <<>>
    BY Zenon, <1>0, <1>3, <1>8 DEF CallInv
  <2> QED
    BY Zenon, <1>0, <1>5, <2>3, <2>4, <2>5 DEF CallInv
<1>12. FreeInv'
  <2> SUFFICES ASSUME NEW g \in Slots, ref'[g] = 0 PROVE obj'[g] = None
    BY Zenon DEF FreeInv
  <2>1. CASE g = f
    BY <1>0, <1>2, <1>6, <1>10, <2>1 DEF FilesTypeOK
  <2>2. CASE g # f
    BY <1>0, <1>8, <1>10, <2>2 DEF FreeInv
  <2> QED
    BY Zenon, <2>1, <2>2
<1>13. RefsAreDescriptors'
  <2> SUFFICES ASSUME NEW g \in Slots
               PROVE  /\ ref'[g] = Cardinality(Descriptors(g)') + Cardinality(Closing(g)') + Cardinality(Creating(g)')
                      /\ Descriptors(g)' # {} => obj'[g] # None
    BY Zenon DEF RefsAreDescriptors
  <2>1. Descriptors(g)' = Descriptors(g) /\ Creating(g)' = Creating(g)
    BY <1>5, SameDescriptors, SameCreating
  <2>2. Cardinality(Closing(g)) = Cardinality(Closing(g)') + (IF g = f THEN 1 ELSE 0)
    BY Zenon, <1>0, <1>1, <1>8, <1>9, PopOne DEF f
  <2>3. Cardinality(Closing(g)') \in Nat
    BY Zenon, ClosingFinite
  <2>4. Descriptors(g) # {} => obj'[g] # None
    <3>1. CASE g = f /\ ref[f] = 1
      <4>1. Descriptors(g) = {}
        BY <1>2, <3>1 DEF Descriptors
      <4> QED
        BY Zenon, <4>1
    <3>2. CASE ~(g = f /\ ref[f] = 1)
      BY <1>0, <1>8, <3>2 DEF RefsAreDescriptors
    <3> QED
      BY Zenon, <3>1, <3>2
  <2> QED
    BY <1>0, <1>10, <2>1, <2>2, <2>3, <2>4, Counts
<1>14. ObjectsFollowFiles'
  <2>1. ASSUME NEW w \in InodeObjects \cup Ends
        PROVE  /\ Cardinality(Files(w)') \in Nat /\ Cardinality(Putting(w)') \in Nat
               /\ Cardinality(Files(w)') + Cardinality(Putting(w)') = Cardinality(Files(w)) + Cardinality(Putting(w))
    <3>0. w \in Objects /\ w # None
      BY Zenon, ObjectFacts DEF Objects
    <3>1. /\ Cardinality(Files(w)) \in Nat /\ Cardinality(Putting(w)) \in Nat
          /\ Cardinality(Files(w)') \in Nat /\ Cardinality(Putting(w)') \in Nat
      BY Zenon, Finite DEF Files, Putting
    <3>2. CASE ref[f] > 1
      BY Zenon, <1>6, <3>1, <3>2 DEF Files, Putting
    <3>3. CASE ref[f] = 1
      <4>1. Cardinality(Files(w)) = Cardinality(Files(w)') + (IF w = obj[f] THEN 1 ELSE 0)
        BY <1>0, <1>2, <1>6, <3>0, <3>3, TakeObject
      <4>2. Cardinality(Putting(w)') = Cardinality(Putting(w)) + (IF w = obj[f] THEN 1 ELSE 0)
        BY Zenon, <1>0, <1>1, <1>6, <1>7, <3>0, <3>3, GiveCopy
      <4> QED
        BY <3>1, <4>1, <4>2
    <3> QED
      BY <1>2, <3>2, <3>3
  <2> QED
    BY Zenon, <1>0, <1>5, <2>1 DEF ObjectsFollowFiles
<1> QED
  BY Zenon, <1>9, <1>11, <1>12, <1>13, <1>14 DEF FilesInv

\* ... and puts what the copy has open.
LEMMA CloseObjectStep ==
  ASSUME FilesInv, NEW p \in Procs, fileclose_object(p)
  PROVE  FilesInv'
<1> DEFINE u == ff[p]
<1>0. FilesTypeOK /\ CallInv /\ FreeInv /\ RefsAreDescriptors /\ ObjectsFollowFiles
  BY Zenon DEF FilesInv
<1>1. u # None /\ u \in Objects /\ todo[p] # <<>> /\ Len(todo[p]) <= 2 /\ todo[p] \in Seq(Slots)
  BY Zenon, <1>0 DEF fileclose_object, CallInv, FilesTypeOK
<1>2. p \in alive /\ pc[p] # "pipe"
  BY Zenon, <1>0, <1>1 DEF CallInv
<1>3. Tail(todo[p]) \in Seq(Slots) /\ Len(Tail(todo[p])) <= 2
  BY <1>1, TailFacts
<1>4. /\ ff' = [ff EXCEPT ![p] = None] /\ todo' = [todo EXCEPT ![p] = Tail(@)]
      /\ u \in Ends => open' = [open EXCEPT ![u] = 0] /\ UNCHANGED iref
      /\ u \notin Ends => iref' = [iref EXCEPT ![u] = @ - 1] /\ UNCHANGED open
      /\ UNCHANGED <<mine, ref, obj, ofile, alive, pc>>
  BY Zenon DEF fileclose_object
<1>5. /\ todo' \in [Procs -> Seq(Slots)] /\ ff' \in [Procs -> Objects]
      /\ \A q \in Procs : q # p => todo'[q] = todo[q] /\ ff'[q] = ff[q]
      /\ todo'[p] = Tail(todo[p]) /\ ff'[p] = None
  BY Zenon, <1>0, <1>3, <1>4 DEF FilesTypeOK, Objects
<1>6. ASSUME NEW w \in InodeObjects \cup Ends
      PROVE  /\ Files(w)' = Files(w)
             /\ Cardinality(Files(w)) \in Nat /\ Cardinality(Putting(w)') \in Nat
             /\ Cardinality(Putting(w)) = Cardinality(Putting(w)') + (IF w = u THEN 1 ELSE 0)
  <2>1. w \in Objects /\ w # None
    BY Zenon, ObjectFacts DEF Objects
  <2>2. Files(w)' = Files(w)
    BY Zenon, <1>4 DEF Files
  <2>3. Cardinality(Files(w)) \in Nat /\ Cardinality(Putting(w)') \in Nat
    BY Finite DEF Files, Putting
  <2>4. Cardinality(Putting(w)) = Cardinality(Putting(w)') + (IF w = u THEN 1 ELSE 0)
    BY <1>0, <1>4, <2>1, DropCopy
  <2> QED
    BY Zenon, <2>2, <2>3, <2>4
<1> HIDE DEF u
<1>7. /\ u \in Ends => u \in InodeObjects \cup Ends /\ open[u] = 1
      /\ u \notin Ends => u \in InodeObjects /\ iref[u] \in Nat \ {0}
  <2>1. CASE u \in Ends
    <3>1. open[u] = Cardinality(Files(u)) + Cardinality(Putting(u)) /\ open[u] \in {0, 1}
      BY <1>0, <2>1 DEF ObjectsFollowFiles, FilesTypeOK
    <3> QED
      BY <1>6, <2>1, <3>1
  <2>2. CASE u \notin Ends
    <3>1. u \in InodeObjects
      BY Zenon, <1>1, <2>2 DEF Objects
    <3>2. iref[u] = Cardinality(Files(u)) + Cardinality(Putting(u))
      BY <1>0, <3>1 DEF ObjectsFollowFiles
    <3> QED
      BY <1>6, <2>2, <3>1, <3>2, SMTT(40)
  <2> QED
    BY Zenon, <2>1, <2>2
<1>8. FilesTypeOK'
  <2>1. open' \in [Ends -> {0, 1}]
    BY <1>0, <1>4 DEF FilesTypeOK
  <2>2. iref' \in [InodeObjects -> Nat]
    <3>1. CASE u \in Ends
      BY Zenon, <1>0, <1>4, <3>1 DEF FilesTypeOK
    <3>2. CASE u \notin Ends
      <4>1. iref' = [iref EXCEPT ![u] = @ - 1] /\ iref[u] - 1 \in Nat /\ iref \in [InodeObjects -> Nat]
        BY <1>0, <1>4, <1>7, <3>2 DEF FilesTypeOK
      <4> QED
        BY <4>1
    <3> QED
      BY <3>1, <3>2
  <2> QED
    BY Zenon, <1>0, <1>4, <1>5, <2>1, <2>2 DEF FilesTypeOK
<1>9. CallInv'
  <2>1. \A q \in Procs : /\ ff'[q] # None => todo'[q] # <<>>
                         /\ Len(todo'[q]) <= 2
    BY Zenon, <1>0, <1>3, <1>5 DEF CallInv
  <2>2. \A q \in Procs : pc[q] = "pipe" \/ q \notin alive => todo'[q] = <<>>
    BY Zenon, <1>0, <1>2, <1>5 DEF CallInv
  <2> QED
    BY Zenon, <1>0, <1>4, <2>1, <2>2 DEF CallInv
<1>10. FreeInv'
  BY Zenon, <1>0, <1>4 DEF FreeInv
<1>11. RefsAreDescriptors'
  <2>1. ASSUME NEW g \in Slots PROVE Closing(g)' = Closing(g)
    BY Zenon, <1>0, <1>1, <1>5, <1>8, PopCopy DEF u
  <2>2. ASSUME NEW g \in Slots PROVE Descriptors(g)' = Descriptors(g) /\ Creating(g)' = Creating(g)
    BY Zenon, <1>4, SameDescriptors, SameCreating
  <2> QED
    BY <1>0, <1>4, <2>1, <2>2 DEF RefsAreDescriptors
<1>12. ObjectsFollowFiles'
  <2>1. ASSUME NEW w \in InodeObjects PROVE iref'[w] = Cardinality(Files(w)') + Cardinality(Putting(w)')
    <3>1. iref[w] = Cardinality(Files(w)) + Cardinality(Putting(w))
      BY Zenon, <1>0 DEF ObjectsFollowFiles
    <3>2. iref'[w] = iref[w] - (IF w = u THEN 1 ELSE 0)
      <4>1. CASE u \in Ends
        <5>1. w # u
          BY Zenon, <4>1, ObjectFacts
        <5> QED
          BY <1>0, <1>4, <4>1, <5>1 DEF FilesTypeOK
      <4>2. CASE u \notin Ends
        BY <1>0, <1>4, <1>7, <4>2 DEF FilesTypeOK
      <4> QED
        BY Zenon, <4>1, <4>2
    <3> QED
      BY <1>6, <3>1, <3>2
  <2>2. ASSUME NEW w \in Ends PROVE open'[w] = Cardinality(Files(w)') + Cardinality(Putting(w)')
    <3>1. open[w] = Cardinality(Files(w)) + Cardinality(Putting(w))
      BY Zenon, <1>0 DEF ObjectsFollowFiles
    <3>2. open'[w] = open[w] - (IF w = u THEN 1 ELSE 0)
      <4>0. open[w] \in {0, 1}
        BY Zenon, <1>0 DEF FilesTypeOK
      <4>1. CASE u \in Ends
        <5>1. open' = [open EXCEPT ![u] = 0]
          BY <1>4, <4>1
        <5>2. CASE w = u
          BY <1>0, <1>7, <4>1, <5>1, <5>2 DEF FilesTypeOK
        <5>3. CASE w # u
          BY <1>0, <4>0, <5>1, <5>3 DEF FilesTypeOK
        <5> QED
          BY Zenon, <5>2, <5>3
      <4>2. CASE u \notin Ends
        <5>1. w # u /\ open' = open
          BY Zenon, <1>4, <4>2
        <5> QED
          BY <4>0, <5>1
      <4> QED
        BY Zenon, <4>1, <4>2
    <3> QED
      BY <1>6, <3>1, <3>2
  <2> QED
    BY Zenon, <2>1, <2>2 DEF ObjectsFollowFiles
<1> QED
  BY Zenon, <1>8, <1>9, <1>10, <1>11, <1>12 DEF FilesInv

\* The first descriptor of a file.
LEMMA FirstDescriptor ==
  ASSUME NEW p \in Procs, NEW d \in Fds, NEW f \in Slots,
         \A q \in Procs, i \in Fds : ofile[q][i] # f,
         \A q \in Procs, i \in Fds : ofile'[q][i] = f <=> q = p /\ i = d
  PROVE  Cardinality(Descriptors(f)) = 0 /\ Cardinality(Descriptors(f)') = 1
<1>1. Descriptors(f) = {}
  BY Zenon DEF Descriptors
<1>2. Descriptors(f)' = {<<p, d>>}
  <2>1. \A q \in Procs, i \in Fds : <<q, i>> \in Descriptors(f)' <=> <<q, i>> = <<p, d>>
    BY Zenon DEF Descriptors
  <2>2. Descriptors(f)' \in SUBSET (Procs \X Fds) /\ <<p, d>> \in Procs \X Fds
    BY Zenon DEF Descriptors
  <2> QED
    BY <2>1, <2>2
<1>3. Cardinality({}) = 0 /\ Cardinality({<<p, d>>}) = 1
  BY FS_EmptySet, FS_Singleton, Zenon
<1> QED
  BY <1>1, <1>2, <1>3, Zenon

\* A file whose descriptors are the same after a step.
LEMMA KeptDescriptors ==
  ASSUME NEW f \in Slots, \A q \in Procs, i \in Fds : ofile'[q][i] = f <=> ofile[q][i] = f
  PROVE  Descriptors(f)' = Descriptors(f)
BY Zenon DEF Descriptors

\* The end of a new pipe is open in one file.
LEMMA FirstFile ==
  ASSUME NEW g \in Slots, NEW w, \A y \in Slots : obj'[y] = w <=> y = g
  PROVE  Cardinality(Files(w)') = 1
<1>1. Files(w)' = {g}
  BY Zenon DEF Files
<1>2. Cardinality({g}) = 1
  BY FS_Singleton, Zenon
<1> QED
  BY <1>1, <1>2, Zenon

\* Two free descriptors, when there are two.
LEMMA TwoScans ==
  ASSUME FilesTypeOK, NEW p \in Procs, ~(Cardinality(FreeFds(p)) < 2)
  PROVE  LET d == Min(FreeFds(p))
             e == Min(FreeFds(p) \ {d}) IN
         d \in Fds /\ e \in Fds /\ d # e /\ ofile[p][d] = 0 /\ ofile[p][e] = 0
<1> DEFINE S == FreeFds(p)
           d == Min(S)
           e == Min(S \ {d})
<1>1. S \in SUBSET Nat /\ S \in SUBSET Fds
  BY Zenon, SlotFacts DEF FreeFds
<1>2. S # {}
  BY FS_EmptySet
<1>3. d \in S
  BY Zenon, <1>1, <1>2, MinIn
<1> HIDE DEF d
<1>4. S \ {d} # {}
  <2> SUFFICES ASSUME S \ {d} = {} PROVE FALSE
    BY Zenon
  <2>1. S = {d}
    BY Zenon, <1>3
  <2>2. Cardinality({d}) = 1
    BY FS_Singleton, Zenon
  <2> QED
    BY <2>1, <2>2
<1>5. e \in S \ {d}
  <2>1. S \ {d} \in SUBSET Nat
    BY Zenon, <1>1
  <2> QED
    BY Zenon, <1>4, <2>1, MinIn
<1> QED
  BY Zenon, <1>3, <1>5 DEF FreeFds, d

\* pipealloc and the rest of sys_pipe, with each of its error paths.
LEMMA PipeAllocStep ==
  ASSUME FilesInv, NEW p \in Procs, pipealloc(p)
  PROVE  FilesInv'
<1> DEFINE f0 == mine[p]
           f1 == Min(FreeSlots)
           pages == {k \in 1..NPIPE : open[<<k, "r">>] = 0 /\ open[<<k, "w">>] = 0}
           k == Min(pages)
           r == <<k, "r">>
           w == <<k, "w">>
           d0 == Min(FreeFds(p))
           d1 == Min(FreeFds(p) \ {d0})
           Full == FreeSlots = {}
           NoPage == ~Full /\ pages = {}
           NoFd == ~Full /\ ~(pages = {}) /\ Cardinality(FreeFds(p)) < 2
           Done == ~Full /\ ~(pages = {}) /\ ~(Cardinality(FreeFds(p)) < 2)
<1>0. FilesTypeOK /\ CallInv /\ FreeInv /\ RefsAreDescriptors /\ ObjectsFollowFiles
  BY Zenon DEF FilesInv
<1>1. /\ pc[p] = "pipe" /\ todo[p] = <<>> /\ ff[p] = None /\ p \in alive
      /\ f0 \in Slots /\ ref[f0] = 1 /\ obj[f0] = None
  BY Zenon, <1>0 DEF pipealloc, CallInv, FilesTypeOK
<1>2. /\ \A q \in Procs, e \in Fds : ofile[q][e] # f0
      /\ \A q \in Procs : mine[q] = f0 => q = p
  BY Zenon, <1>0, <1>1, OwnFile
<1>3. /\ mine' = [mine EXCEPT ![p] = 0] /\ pc' = [pc EXCEPT ![p] = "user"]
      /\ UNCHANGED <<alive, iref, ff>>
  BY Zenon DEF pipealloc
<1>4. Full => todo' = [todo EXCEPT ![p] = <<f0>>] /\ UNCHANGED <<ref, obj, open, ofile>>
  BY Zenon DEF pipealloc
<1>5. ~Full => ref' = [ref EXCEPT ![f1] = 1]
  BY Zenon DEF pipealloc
<1>6. NoPage => todo' = [todo EXCEPT ![p] = <<f0, f1>>] /\ UNCHANGED <<obj, open, ofile>>
  BY Zenon DEF pipealloc
<1>7. NoFd \/ Done => /\ obj' = [obj EXCEPT ![f0] = r, ![f1] = w]
                      /\ open' = [open EXCEPT ![r] = 1, ![w] = 1]
  BY Zenon DEF pipealloc
<1>8. NoFd => todo' = [todo EXCEPT ![p] = <<f0, f1>>] /\ UNCHANGED ofile
  BY Zenon DEF pipealloc
<1>9. Done => ofile' = [ofile EXCEPT ![p][d0] = f0, ![p][d1] = f1] /\ UNCHANGED todo
  BY Zenon DEF pipealloc
<1>10. ~Full => f1 \in Slots /\ ref[f1] = 0 /\ f1 # f0
  BY <1>0, <1>1, Scans, SMTT(40)
<1>11. NoFd \/ Done => k \in 1..NPIPE /\ open[r] = 0 /\ open[w] = 0
  <2>1. pages \in SUBSET Nat
    BY FilesAssumption DEF FilesConstants
  <2>2. ASSUME pages # {} PROVE k \in pages
    BY Zenon, <2>1, <2>2, MinIn
  <2> QED
    BY Zenon, <2>2
<1>12. Done => d0 \in Fds /\ d1 \in Fds /\ d0 # d1 /\ ofile[p][d0] = 0 /\ ofile[p][d1] = 0
  BY Zenon, <1>0, TwoScans
<1>13. Full \/ NoPage \/ NoFd \/ Done
  BY Zenon
<1>14. NoPage \/ NoFd \/ Done => ~Full
  BY Zenon
<1>15. NoFd \/ Done => r \in Ends /\ w \in Ends /\ r # w
  BY Zenon, <1>11 DEF Ends
<1>16. ~(Done /\ (Full \/ NoPage \/ NoFd)) /\ ~(NoFd /\ NoPage)
  OBVIOUS
<1>17. mine[p] = f0
  OBVIOUS
<1> HIDE DEF f0, f1, pages, k, r, w, d0, d1, Full, NoPage, NoFd, Done
<1>18. ~Full => \A g \in Slots : ref'[g] = IF g = f1 THEN 1 ELSE ref[g]
  BY Zenon, <1>0, <1>5, <1>10 DEF FilesTypeOK
<1>19. NoFd \/ Done => \A g \in Slots : obj'[g] = IF g = f0 THEN r ELSE IF g = f1 THEN w ELSE obj[g]
  BY <1>0, <1>1, <1>7, <1>10, <1>14 DEF FilesTypeOK
<1>20. NoFd \/ Done => \A e \in Ends : open'[e] = IF e = r \/ e = w THEN 1 ELSE open[e]
  BY <1>0, <1>7, <1>15 DEF FilesTypeOK
<1>21. FilesTypeOK'
  <2>1. ref' \in [Slots -> Nat]
    <3>1. CASE Full
      BY <1>0, <1>4, <3>1 DEF FilesTypeOK
    <3>2. CASE ~Full
      BY <1>0, <1>5, <3>2 DEF FilesTypeOK
    <3> QED
      BY <3>1, <3>2
  <2>2. obj' \in [Slots -> Objects] /\ open' \in [Ends -> {0, 1}]
    <3>1. CASE Full \/ NoPage
      BY Zenon, <1>0, <1>4, <1>6, <3>1 DEF FilesTypeOK
    <3>2. CASE NoFd \/ Done
      <4>1. r \in Objects /\ w \in Objects
        BY <1>15, <3>2 DEF Objects
      <4>2. obj' \in [Slots -> Objects]
        BY <1>0, <1>7, <3>2, <4>1 DEF FilesTypeOK
      <4>3. open' \in [Ends -> {0, 1}]
        BY Zenon, <1>0, <1>7, <3>2 DEF FilesTypeOK
      <4> QED
        BY Zenon, <4>2, <4>3
    <3> QED
      BY <1>13, <3>1, <3>2
  <2>3. ofile' \in [Procs -> [Fds -> Slots \cup {0}]]
    <3>1. CASE Done
      <4>1. /\ ofile' = [ofile EXCEPT ![p][d0] = f0, ![p][d1] = f1]
            /\ f0 \in Slots \cup {0} /\ f1 \in Slots \cup {0}
        BY Zenon, <1>1, <1>9, <1>10, <1>14, <3>1
      <4>2. ofile' = [ofile EXCEPT ![p] = [ofile[p] EXCEPT ![d0] = f0, ![d1] = f1]]
        BY <1>0, <4>1 DEF FilesTypeOK
      <4>3. [ofile[p] EXCEPT ![d0] = f0, ![d1] = f1] \in [Fds -> Slots \cup {0}]
        BY <1>0, <4>1 DEF FilesTypeOK
      <4> QED
        BY <1>0, <4>2, <4>3 DEF FilesTypeOK
    <3>2. CASE ~Done
      BY Zenon, <1>0, <1>4, <1>6, <1>8, <1>13, <3>2 DEF FilesTypeOK
    <3> QED
      BY <3>1, <3>2
  <2>4. todo' \in [Procs -> Seq(Slots)]
    <3>1. CASE Full
      <4>1. todo' = [todo EXCEPT ![p] = <<f0>>] /\ <<f0>> \in Seq(Slots)
        BY <1>1, <1>4, <3>1, SMTT(40)
      <4> QED
        BY <1>0, <4>1 DEF FilesTypeOK
    <3>2. CASE NoPage \/ NoFd
      <4>1. f1 \in Slots /\ todo' = [todo EXCEPT ![p] = <<f0, f1>>]
        BY Zenon, <1>6, <1>8, <1>10, <1>14, <3>2
      <4> QED
        BY <1>0, <1>1, <4>1 DEF FilesTypeOK
    <3>3. CASE Done
      BY Zenon, <1>0, <1>9, <3>3 DEF FilesTypeOK
    <3> QED
      BY <1>13, <3>1, <3>2, <3>3
  <2>5. mine' \in [Procs -> Slots \cup {0}] /\ pc' \in [Procs -> {"user", "pipe", "exit"}]
    BY <1>0, <1>3 DEF FilesTypeOK
  <2> QED
    BY Zenon, <1>0, <1>3, <2>1, <2>2, <2>3, <2>4, <2>5 DEF FilesTypeOK
<1>22. CallInv'
  <2>1. ASSUME NEW q \in Procs, q # p
        PROVE  /\ mine'[q] = mine[q] /\ pc'[q] = pc[q] /\ todo'[q] = todo[q]
               /\ \A e \in Fds : ofile'[q][e] = ofile[q][e]
    <3>1. mine'[q] = mine[q] /\ pc'[q] = pc[q]
      BY <1>0, <1>3, <2>1 DEF FilesTypeOK
    <3>2. todo'[q] = todo[q]
      BY <1>0, <1>4, <1>6, <1>8, <1>9, <1>13, <2>1 DEF FilesTypeOK
    <3>3. \A e \in Fds : ofile'[q][e] = ofile[q][e]
      BY Zenon, <1>0, <1>4, <1>6, <1>8, <1>9, <1>13, <2>1 DEF FilesTypeOK
    <3> QED
      BY Zenon, <3>1, <3>2, <3>3
  <2>2. mine'[p] = 0 /\ pc'[p] = "user" /\ Len(todo'[p]) <= 2 /\ ff'[p] = None
    <3>1. mine'[p] = 0 /\ pc'[p] = "user" /\ ff'[p] = None
      BY <1>0, <1>1, <1>3 DEF FilesTypeOK
    <3>2. todo'[p] = <<>> \/ todo'[p] = <<f0>> \/ todo'[p] = <<f0, f1>>
      BY <1>0, <1>1, <1>4, <1>6, <1>8, <1>9, <1>13 DEF FilesTypeOK
    <3>3. Len(todo'[p]) <= 2
      <4>1. Len(<<>>) = 0 /\ Len(<<f0>>) = 1 /\ Len(<<f0, f1>>) = 2
        OBVIOUS
      <4>2. Len(todo'[p]) \in {0, 1, 2}
        <5>1. CASE todo'[p] = <<>>
          BY <4>1, <5>1, Zenon
        <5>2. CASE todo'[p] = <<f0>>
          BY <4>1, <5>2, Zenon
        <5>3. CASE todo'[p] = <<f0, f1>>
          BY <4>1, <5>3, Zenon
        <5> QED
          BY Zenon, <3>2, <5>1, <5>2, <5>3
      <4>3. \A n \in {0, 1, 2} : n <= 2
        OBVIOUS
      <4> QED
        BY <4>2, <4>3, Zenon
    <3> QED
      BY <3>1, <3>3
  <2>3. ASSUME NEW q \in Procs, mine'[q] # 0 PROVE ref'[mine'[q]] = 1 /\ obj'[mine'[q]] = None
    <3>1. q # p /\ mine'[q] = mine[q] /\ mine[q] # 0
      BY Zenon, <2>1, <2>2, <2>3
    <3>2. mine[q] \in Slots /\ mine[q] # f0 /\ ref[mine[q]] = 1 /\ obj[mine[q]] = None
      BY Zenon, <1>0, <1>2, <3>1 DEF CallInv, FilesTypeOK
    <3>3. ~Full => mine[q] # f1
      BY <1>10, <3>2
    <3>4. ref'[mine[q]] = 1
      BY <1>4, <1>18, <3>2, <3>3
    <3>5. obj'[mine[q]] = None
      BY Zenon, <1>4, <1>6, <1>13, <1>14, <1>19, <3>2, <3>3
    <3> QED
      BY <3>1, <3>4, <3>5
  <2>4. ASSUME NEW q \in Procs
        PROVE  /\ pc'[q] = "pipe" => mine'[q] # 0 /\ todo'[q] = <<>>
               /\ pc'[q] # "pipe" => mine'[q] = 0
               /\ ff'[q] # None => todo'[q] # <<>>
               /\ Len(todo'[q]) <= 2
               /\ q \notin alive' => pc'[q] = "user" /\ todo'[q] = <<>> /\ \A d \in Fds : ofile'[q][d] = 0
    <3>1. CASE q = p
      BY <1>1, <1>3, <2>2, <3>1
    <3>2. CASE q # p
      BY <1>0, <1>3, <2>1, <3>2 DEF CallInv
    <3> QED
      BY <3>1, <3>2
  <2> QED
    BY Zenon, <2>3, <2>4 DEF CallInv
<1>23. FreeInv'
  <2> SUFFICES ASSUME NEW g \in Slots, ref'[g] = 0 PROVE obj'[g] = None
    BY Zenon DEF FreeInv
  <2>1. ref[g] = 0 /\ g # f0 /\ (~Full => g # f1)
    BY <1>1, <1>4, <1>10, <1>18
  <2> QED
    BY <1>0, <1>4, <1>6, <1>13, <1>14, <1>19, <2>1 DEF FreeInv
<1>24. ~Full => \A q \in Procs, e \in Fds : ofile[q][e] # f1
  BY <1>0, <1>10, FreeSlotIsNobodys
<1>25. Descriptors(f0) = {} /\ (~Full => Descriptors(f1) = {})
  BY <1>2, <1>24 DEF Descriptors
<1>26. RefsAreDescriptors'
  <2> SUFFICES ASSUME NEW g \in Slots
               PROVE  /\ ref'[g] = Cardinality(Descriptors(g)') + Cardinality(Closing(g)') + Cardinality(Creating(g)')
                      /\ Descriptors(g)' # {} => obj'[g] # None
    BY Zenon DEF RefsAreDescriptors
  <2>1. Cardinality(Creating(g)) = Cardinality(Creating(g)') + (IF g = f0 THEN 1 ELSE 0)
    BY <1>0, <1>1, <1>3, <1>17, ClearMine
  <2>2. /\ Cardinality(Creating(g)') \in Nat /\ Cardinality(Closing(g)) \in Nat /\ Cardinality(Descriptors(g)) \in Nat
        /\ ref[g] = Cardinality(Descriptors(g)) + Cardinality(Closing(g)) + Cardinality(Creating(g))
    BY <1>0, Counts, Finite DEF Creating
  <2>3. CASE Full
    <3>1. Descriptors(g)' = Descriptors(g) /\ ref'[g] = ref[g] /\ obj'[g] = obj[g]
      BY Zenon, <1>4, <2>3, SameDescriptors
    <3>2. Cardinality(Closing(g)') = Cardinality(Closing(g)) + (IF g = f0 THEN 1 ELSE 0)
      BY Zenon, <1>0, <1>1, <1>3, <1>4, <1>21, <2>3, PushOne
    <3> QED
      BY <1>0, <2>1, <2>2, <3>1, <3>2, SMTT(40) DEF RefsAreDescriptors
  <2>4. CASE NoPage \/ NoFd
    <3>0. ~Full /\ f1 \in Slots /\ f1 # f0 /\ ref[f1] = 0
      BY Zenon, <1>10, <1>14, <2>4
    <3>1. Descriptors(g)' = Descriptors(g) /\ todo' = [todo EXCEPT ![p] = <<f0, f1>>]
      BY <1>6, <1>8, <2>4, SameDescriptors
    <3>2. Cardinality(Closing(g)') = Cardinality(Closing(g)) + (IF g \in {f0, f1} THEN 1 ELSE 0)
      BY <1>0, <1>1, <1>3, <1>21, <3>0, <3>1, PushTwo
    <3>3. Descriptors(g) # {} => obj'[g] # None
      <4>1. ASSUME Descriptors(g) # {} PROVE g # f0 /\ g # f1
        BY <1>25, <3>0, <4>1
      <4>2. g # f0 /\ g # f1 => obj'[g] = obj[g]
        BY Zenon, <1>6, <1>19, <2>4
      <4> QED
        BY <1>0, <4>1, <4>2 DEF RefsAreDescriptors
    <3>4. ref'[g] = IF g = f1 THEN 1 ELSE ref[g]
      BY <1>18, <3>0
    <3>5. CASE g = f1
      <4> DEFINE cg == Cardinality(Creating(g))
                 cn == Cardinality(Creating(g)')
                 dg == Cardinality(Descriptors(g))
                 lg == Cardinality(Closing(g))
      <4>1. cn \in Nat /\ lg \in Nat /\ dg \in Nat
        BY Zenon, <2>2
      <4>2. cg = cn /\ 0 = dg + lg + cg
        BY <2>1, <2>2, <3>0, <3>5
      <4>3. ref'[g] = 1 /\ Cardinality(Closing(g)') = lg + 1
        BY Zenon, <3>2, <3>4, <3>5
      <4> HIDE DEF cg, cn, dg, lg
      <4>4. 1 = dg + (lg + 1) + cn
        BY <4>1, <4>2
      <4> QED
        BY Zenon, <3>1, <3>3, <4>3, <4>4 DEF cn, dg
    <3>6. CASE g # f1
      BY <2>1, <2>2, <3>0, <3>1, <3>2, <3>3, <3>4, <3>6, SMTT(40)
    <3> QED
      BY Zenon, <3>5, <3>6
  <2>5. CASE Done
    <3>0. ~Full /\ f1 \in Slots /\ f1 # f0 /\ ref[f1] = 0
      BY Zenon, <1>10, <1>14, <2>5
    <3>1. Closing(g)' = Closing(g)
      BY <1>3, <1>9, <2>5, SameClosing
    <3>2. /\ Cardinality(Descriptors(g)') = Cardinality(Descriptors(g)) + (IF g \in {f0, f1} THEN 1 ELSE 0)
          /\ g \notin {f0, f1} => Descriptors(g)' = Descriptors(g)
      <4>1. /\ d0 \in Fds /\ d1 \in Fds /\ d0 # d1 /\ ofile[p][d0] = 0 /\ ofile[p][d1] = 0
            /\ ofile' = [ofile EXCEPT ![p][d0] = f0, ![p][d1] = f1]
        BY Zenon, <1>9, <1>12, <2>5
      <4>2. \A q \in Procs, i \in Fds : ofile[q][i] # f0 /\ ofile[q][i] # f1
        BY <1>2, <1>24, <3>0
      <4>3. f0 \in Slots /\ f1 \in Slots /\ f0 # f1
        BY <1>1, <3>0
      <4>4. ASSUME NEW q \in Procs, NEW i \in Fds
            PROVE  /\ q = p /\ i = d0 => ofile'[q][i] = f0
                   /\ q = p /\ i = d1 => ofile'[q][i] = f1
                   /\ ~(q = p /\ i \in {d0, d1}) => ofile'[q][i] = ofile[q][i]
        <5>1. ofile'[q] = IF q = p THEN [ofile[p] EXCEPT ![d0] = f0, ![d1] = f1] ELSE ofile[q]
          BY <1>0, <4>1 DEF FilesTypeOK
        <5>2. ofile[p] \in [Fds -> Slots \cup {0}]
          BY Zenon, <1>0 DEF FilesTypeOK
        <5> QED
          BY <4>1, <5>1, <5>2
      <4>5. CASE g = f0
        <5>1. \A q \in Procs, i \in Fds : ofile'[q][i] = g <=> q = p /\ i = d0
          <6> SUFFICES ASSUME NEW q \in Procs, NEW i \in Fds PROVE ofile'[q][i] = g <=> q = p /\ i = d0
            BY Zenon
          <6>1. CASE q = p /\ i = d0
            BY Zenon, <4>1, <4>3, <4>4, <4>5, <6>1
          <6>2. CASE q = p /\ i = d1
            BY <4>1, <4>3, <4>4, <4>5, <6>2
          <6>3. CASE ~(q = p /\ i \in {d0, d1})
            <7>1. ofile'[q][i] = ofile[q][i] /\ ofile[q][i] # g
              BY <4>2, <4>4, <4>5, <6>3, Zenon
            <7> QED
              BY <6>3, <7>1
          <6> QED
            BY Zenon, <6>1, <6>2, <6>3
        <5>2. Cardinality(Descriptors(g)) = 0 /\ Cardinality(Descriptors(g)') = 1
          <6>1. \A q \in Procs, i \in Fds : ofile[q][i] # g
            BY <4>2, <4>5, Zenon
          <6>2. d0 \in Fds
            BY Zenon, <4>1
          <6> QED
            BY <5>1, <6>1, <6>2, FirstDescriptor, Zenon
        <5> QED
          BY <4>5, <5>2
      <4>6. CASE g = f1
        <5>1. \A q \in Procs, i \in Fds : ofile'[q][i] = g <=> q = p /\ i = d1
          <6> SUFFICES ASSUME NEW q \in Procs, NEW i \in Fds PROVE ofile'[q][i] = g <=> q = p /\ i = d1
            BY Zenon
          <6>1. CASE q = p /\ i = d0
            BY Zenon, <4>1, <4>3, <4>4, <4>6, <6>1
          <6>2. CASE q = p /\ i = d1
            BY Zenon, <4>1, <4>3, <4>4, <4>6, <6>2
          <6>3. CASE ~(q = p /\ i \in {d0, d1})
            <7>1. ofile'[q][i] = ofile[q][i] /\ ofile[q][i] # g
              BY <4>2, <4>4, <4>6, <6>3, Zenon
            <7> QED
              BY <6>3, <7>1
          <6> QED
            BY <6>1, <6>2, <6>3
        <5>2. Cardinality(Descriptors(g)) = 0 /\ Cardinality(Descriptors(g)') = 1
          <6>1. \A q \in Procs, i \in Fds : ofile[q][i] # g
            BY <4>2, <4>6, Zenon
          <6>2. d1 \in Fds
            BY <4>1
          <6> QED
            BY <5>1, <6>1, <6>2, FirstDescriptor, Zenon
        <5> QED
          BY <4>6, <5>2
      <4>7. CASE g # f0 /\ g # f1
        <5>0. g # 0
          BY Zenon, SlotFacts
        <5>1. \A q \in Procs, i \in Fds : ofile'[q][i] = g <=> ofile[q][i] = g
          <6> SUFFICES ASSUME NEW q \in Procs, NEW i \in Fds PROVE ofile'[q][i] = g <=> ofile[q][i] = g
            OBVIOUS
          <6> QED
            BY Zenon, <4>1, <4>2, <4>3, <4>4, <4>7, <5>0
        <5>2. Descriptors(g)' = Descriptors(g)
          BY Zenon, <5>1, KeptDescriptors
        <5> QED
          BY <2>2, <4>7, <5>2
      <4> QED
        BY <4>5, <4>6, <4>7
    <3>3. Descriptors(g)' # {} => obj'[g] # None
      <4>0. r # None /\ w # None
        BY <1>15, <2>5, ObjectFacts
      <4>1. CASE g = f0 \/ g = f1
        BY <1>19, <2>5, <4>0, <4>1
      <4>2. CASE g # f0 /\ g # f1
        BY Zenon, <1>0, <1>19, <2>5, <3>2, <4>2 DEF RefsAreDescriptors
      <4> QED
        BY Zenon, <4>1, <4>2
    <3>4. ref'[g] = IF g = f1 THEN 1 ELSE ref[g]
      BY Zenon, <1>18, <3>0
    <3>5. CASE g = f1
      BY <2>1, <2>2, <3>0, <3>1, <3>2, <3>3, <3>4, <3>5, SMTT(40)
    <3>6. CASE g # f1
      BY <2>1, <2>2, <3>0, <3>1, <3>2, <3>3, <3>4, <3>6, SMTT(40)
    <3> QED
      BY Zenon, <3>5, <3>6
  <2> QED
    BY Zenon, <1>13, <2>3, <2>4, <2>5
<1>27. ObjectsFollowFiles'
  <2>1. CASE Full \/ NoPage
    BY <1>0, <1>3, <1>4, <1>6, <2>1, SameObjects
  <2>2. CASE NoFd \/ Done
    <3>0. /\ ~Full /\ r \in Ends /\ w \in Ends /\ r # w /\ open[r] = 0 /\ open[w] = 0
          /\ f1 \in Slots /\ f1 # f0 /\ ref[f1] = 0 /\ obj[f1] = None
          /\ obj' = [obj EXCEPT ![f0] = r, ![f1] = w]
      BY <1>0, <1>7, <1>10, <1>11, <1>14, <1>15, <2>2 DEF FreeInv
    <3>1. ASSUME NEW e \in Ends, open[e] = 0
          PROVE  Files(e) = {} /\ Cardinality(Putting(e)) = 0
      <4>1. /\ Cardinality(Files(e)) \in Nat /\ Cardinality(Putting(e)) \in Nat /\ IsFiniteSet(Files(e))
            /\ open[e] = Cardinality(Files(e)) + Cardinality(Putting(e))
        BY Zenon, <1>0, Finite DEF ObjectsFollowFiles, Files, Putting
      <4>2. Cardinality(Files(e)) = 0 /\ Cardinality(Putting(e)) = 0
        BY <3>1, <4>1
      <4> QED
        BY Zenon, <4>1, <4>2, FS_EmptySet
    <3>2. \A o : Putting(o)' = Putting(o)
      BY <1>3 DEF Putting
    <3>3. ASSUME NEW o \in InodeObjects \cup Ends
          PROVE  /\ o = r \/ o = w => Cardinality(Files(o)') = 1
                 /\ o # r /\ o # w => Files(o)' = Files(o)
      <4>1. Files(r) = {} /\ Files(w) = {}
        BY Zenon, <3>0, <3>1
      <4>2. f0 \in Slots /\ f1 \in Slots /\ f0 # f1 /\ obj[f0] = None
        BY <1>1, <3>0
      <4>3. \A g \in Slots : obj'[g] = IF g = f0 THEN r ELSE IF g = f1 THEN w ELSE obj[g]
        BY Zenon, <1>19, <2>2
      <4>4. \A g \in Slots : obj[g] # r /\ obj[g] # w
        BY Zenon, <4>1 DEF Files
      <4>5. r # None /\ w # None /\ o # None
        BY <3>0, ObjectFacts
      <4>6. CASE o = r
        <5>1. \A y \in Slots : obj'[y] = o <=> y = f0
          BY Zenon, <3>0, <4>2, <4>3, <4>4, <4>5, <4>6
        <5> QED
          BY <3>0, <4>2, <4>6, <5>1, FirstFile
      <4>7. CASE o = w
        <5>1. \A y \in Slots : obj'[y] = o <=> y = f1
          BY <3>0, <4>2, <4>3, <4>4, <4>5, <4>7
        <5> QED
          BY <3>0, <4>2, <4>7, <5>1, FirstFile
      <4>8. CASE o # r /\ o # w
        <5>1. \A y \in Slots : obj'[y] = o <=> obj[y] = o
          BY <3>0, <4>2, <4>3, <4>5, <4>8
        <5> QED
          BY <4>8, <5>1 DEF Files
      <4> QED
        BY Zenon, <4>6, <4>7, <4>8
    <3>4. \A o \in InodeObjects : o # r /\ o # w
      BY Zenon, <3>0, ObjectFacts
    <3>5. ASSUME NEW e \in Ends PROVE open'[e] = Cardinality(Files(e)') + Cardinality(Putting(e)')
      <4>1. CASE e = r \/ e = w
        <5>1. open'[e] = 1 /\ Cardinality(Files(e)') = 1 /\ Cardinality(Putting(e)') = 0
          BY Zenon, <1>20, <2>2, <3>0, <3>1, <3>2, <3>3, <4>1
        <5> QED
          BY <5>1
      <4>2. CASE e # r /\ e # w
        BY Zenon, <1>0, <1>20, <2>2, <3>2, <3>3, <4>2 DEF ObjectsFollowFiles
      <4> QED
        BY <4>1, <4>2
    <3> QED
      BY <1>0, <1>3, <3>2, <3>3, <3>4, <3>5 DEF ObjectsFollowFiles
  <2> QED
    BY Zenon, <1>13, <2>1, <2>2
<1> QED
  BY Zenon, <1>21, <1>22, <1>23, <1>26, <1>27 DEF FilesInv

\* Every step of a process keeps the invariant.
LEMMA FilesStep == FilesInv /\ [FilesNext]_fileVars => FilesInv'
<1> SUFFICES ASSUME FilesInv, [FilesNext]_fileVars PROVE FilesInv'
  BY Zenon
<1>1. CASE UNCHANGED fileVars
  BY Zenon, <1>1, FilesStutter
<1>2. CASE FilesNext
  <2>1. PICK p \in Procs :
          \/ \E o \in InodeObjects : sys_open(p, o)
          \/ \E d \in Fds : sys_dup(p, d) \/ sys_close(p, d)
          \/ sys_pipe(p) \/ pipealloc(p)
          \/ \E c \in Procs : fork_files(p, c)
          \/ p # First /\ exit_files(p)
          \/ fileclose(p) \/ fileclose_object(p)
    BY Zenon, <1>2 DEF FilesNext
  <2> QED
    BY <2>1, OpenStep, DupStep, SysCloseStep, PipeStep, PipeAllocStep, ForkStep, ExitStep, FileCloseStep, CloseObjectStep
<1> QED
  BY Zenon, <1>1, <1>2

\* The reference counts of the file table are exact, through every call of dup,
\* fork, exit, close, open and pipe and each of their error paths, for any number
\* of processes, files, descriptors and pipes; and an inode or a pipe end is open
\* exactly as long as a file, or fileclose's copy of one, refers to it.
THEOREM FileCounts == FilesSpec => []FilesSound
<1>1. FilesInv => FilesSound
  BY Zenon DEF FilesInv, FilesSound
<1> QED
  BY <1>1, InitFiles, FilesStep, PTL DEF FilesSpec

=============================================================================
