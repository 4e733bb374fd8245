----------------------------- MODULE RingProofs -----------------------------
(***************************************************************************)
(* Proofs about rings, about the pipe of pipe.c and the input of the       *)
(* console (console.c): nobody sleeps when what they wait for has come, a  *)
(* full console ring can be read, a ^D that was put back stays in front,   *)
(* and the rings with their wrapping counters implement a byte stream and  *)
(* a line discipline.  They hold for any sets of processes, any PIPESIZE   *)
(* and INPUT_BUF and any width of the counters that these divide.          *)
(***************************************************************************)
EXTENDS Rings, Sequences, WellFoundedInduction, TLAPS


-----------------------------------------------------------------------------
(* Rings.  A slot is found by reducing a counter twice: first by its width *)
(* (an unsigned integer), then by the size of the ring.                    *)

(* An unsigned counter of the code, as an integer, is a multiple of the    *)
(* ring size and a rest: what the % of pipe.c:93 and console.c:228         *)
(* compute.                                                                *)
LEMMA DivMod == ASSUME NEW P \in Nat \ {0}, NEW x \in Int
  PROVE \E d \in Int, s \in 0..P-1 : x = P * d + s /\ x % P = s
<1>1. P > 0
  OBVIOUS
<1>2. x = P * (x \div P) + (x % P)
  BY <1>1
<1>3. x \div P \in Int /\ x % P \in 0..P-1
  OBVIOUS
<1>4. QED BY Zenon, <1>2, <1>3

(* The product of the ring size with a sum, for the provers. *)
LEMMA Distr == ASSUME NEW P \in Int, NEW z \in Int, NEW d \in Int
  PROVE P * (z + d) = P * z + P * d
OBVIOUS

(* The multiples of the ring size are at least that far apart. *)
LEMMA AtLeast == ASSUME NEW P \in Nat \ {0}, NEW z \in Int
  PROVE (z >= 1 => P * z >= P) /\ (z <= -1 => P * z <= -P)
OBVIOUS

(* Quotient and rest of the % by which the code finds a slot are unique. *)
LEMMA Unique == ASSUME NEW P \in Nat \ {0}, NEW a \in Int, NEW b \in Int, NEW s \in
  0..P-1, NEW t \in 0..P-1,
  P * a + s = P * b + t
  PROVE a = b /\ s = t
<1>1. P * (a - b) = t - s /\ a - b \in Int
  OBVIOUS
<1>2. (a - b >= 1 => P * (a - b) >= P) /\ (a - b <= -1 => P * (a - b) <= -P)
  BY Zenon, <1>1, AtLeast
<1>3. QED BY <1>1, <1>2

(* Going round the ring any number of times leads to the same slot ... *)
LEMMA AddMultiple == ASSUME NEW P \in Nat \ {0}, NEW z \in Int, NEW x \in Int
  PROVE (P * z + x) % P = x % P
<1>1. PICK d \in Int, s \in 0..P-1 : x = P * d + s /\ x % P = s
  BY Zenon, DivMod
<1>2. P * z + x \in Int /\ z + d \in Int
  OBVIOUS
<1>3. PICK f \in Int, t \in 0..P-1 : P * z + x = P * f + t /\ (P * z + x) % P = t
  BY Zenon, <1>2, DivMod
<1>4. P * f + t = P * (z + d) + s
  <2>1. P * (z + d) = P * z + P * d
    BY Distr
  <2>2. P * z \in Int /\ P * d \in Int
    OBVIOUS
  <2>3. QED BY <1>1, <1>3, <2>1, <2>2
<1>5. t = s
   BY <1>2, <1>4, Unique
<1>6. QED BY Zenon, <1>1, <1>3, <1>5

(* ... and so does going round once. *)
LEMMA AddOnce == ASSUME NEW P \in Nat \ {0}, NEW x \in Int
  PROVE (P + x) % P = x % P
<1>1. PICK z \in Int : z = 1
  OBVIOUS
<1>2. (P * z + x) % P = x % P
  BY Zenon, AddMultiple
<1>3. P * z + x = P + x
  BY <1>1
<1>4. QED BY Zenon, <1>2, <1>3

(* A counter that has wrapped leads to the same slot as one that has not,  *)
(* because the ring size divides the range of the counters (pipe.c:93,     *)
(* console.c:228).                                                         *)
LEMMA RingIndex == ASSUME NEW N \in Nat \ {0}, NEW P \in Nat \ {0}, N % P = 0, NEW x
  \in Int
  PROVE (x % N) % P = x % P
<1>1. PICK q \in Int : N = P * q
  BY DivMod
<1>2. PICK d \in Int, s \in 0..N-1 : x = N * d + s /\ x % N = s
  BY Zenon, DivMod
<1>3. PICK z \in Int : z = q * d
  OBVIOUS
<1>4. x = P * z + s
  BY <1>1, <1>2, <1>3
<1>5. s \in Int
  OBVIOUS
<1>6. (P * z + s) % P = s % P
  BY <1>5, AddMultiple, Zenon
<1>7. QED BY Zenon, <1>2, <1>4, <1>6

(* Counters that lead to the same slot are equal when they are less than   *)
(* the size of the ring apart.                                             *)
LEMMA RingDistinct == ASSUME NEW P \in Nat \ {0}, NEW a \in Int, NEW b \in Int, a %
  P = b % P, a - b < P, b - a < P
  PROVE a = b
<1>1. PICK c \in Int, s \in 0..P-1 : a = P * c + s /\ a % P = s
  BY Zenon, DivMod
<1>2. PICK d \in Int, t \in 0..P-1 : b = P * d + t /\ b % P = t
  BY Zenon, DivMod
<1>3. P * (c - d) = a - b /\ c - d \in Int
  BY <1>1, <1>2
<1>4. (c - d >= 1 => P * (c - d) >= P) /\ (c - d <= -1 => P * (c - d) <= -P)
  BY Zenon, <1>3, AtLeast
<1>5. c = d
  BY <1>3, <1>4
<1>6. QED BY Zenon, <1>1, <1>2, <1>5

(* A place counted from one counter, counted from another one. *)
LEMMA RingShift == ASSUME NEW N \in Nat \ {0}, NEW x \in 0..N-1, NEW y \in 0..N-1,
  NEW j \in Int
  PROVE (y + j) % N = (x + ((y - x) % N) + j) % N
<1>1. (y - x) % N = IF y >= x THEN y - x ELSE y - x + N
  OBVIOUS
<1>2. (N + (y + j)) % N = (y + j) % N
  <2>1. y + j \in Int
    OBVIOUS
  <2>2. QED
    BY <2>1, AddOnce, Zenon
<1>3. CASE y >= x
  BY <1>1, <1>3
<1>4. CASE y < x
  <2>1. x + ((y - x) % N) + j = N + (y + j)
    BY <1>1, <1>4
  <2>2. QED BY Zenon, <1>2, <2>1
<1>5. QED BY <1>3, <1>4

(* What an unsigned integer of N values is, of the sums and differences    *)
(* of two counters.                                                        *)
LEMMA RingUint ==
  ASSUME NEW N \in Nat \ {0}
  PROVE  /\ \A x \in Int : x % N \in 0..N-1
         /\ \A x \in 0..N-1 : x % N = x
         /\ \A x, y \in 0..N-1 : (y - x) % N = IF y >= x THEN y - x ELSE y - x + N
         /\ \A x \in 0..N-1, k \in 0..N :
              (x + k) % N = IF x + k < N THEN x + k ELSE x + k - N
<1>1. ASSUME NEW x \in 0..N-1, NEW k \in 0..N
      PROVE  (x + k) % N = IF x + k < N THEN x + k ELSE x + k - N
  <2>1. CASE x + k < N
    BY <2>1
  <2>2. CASE x + k >= N
    <3>1. (N + (x + k - N)) % N = (x + k - N) % N
      <4>1. x + k - N \in Int
        OBVIOUS
      <4>2. QED
        BY <4>1, AddOnce, Zenon
    <3>2. x + k - N \in 0..N /\ N + (x + k - N) = x + k
      BY <2>2
    <3>3. QED
      BY <2>2, <3>1, <3>2
  <2>3. QED
    BY <2>1, <2>2
<1>2. \A x \in Int : x % N \in 0..N-1
  OBVIOUS
<1>3. \A x \in 0..N-1 : x % N = x
  OBVIOUS
<1>4. \A x, y \in 0..N-1 : (y - x) % N = IF y >= x THEN y - x ELSE y - x + N
  OBVIOUS
<1>5. QED
  BY <1>1, <1>2, <1>3, <1>4, Zenon

(* The slots of a ring of P places that counters of N values lead to       *)
(* differ when they are less than P places apart.                          *)
LEMMA RingSlot ==
  ASSUME NEW N \in Nat \ {0}, NEW P \in Nat \ {0}, N % P = 0
  PROVE  /\ \A x, k \in Int : ((x + k) % N) % P \in 0..P-1
         /\ \A x, j, k \in Int : ((x + j) % N) % P = ((x + k) % N) % P
                                   /\ j - k < P /\ k - j < P => j = k
<1>1. ASSUME NEW x \in Int, NEW k \in Int PROVE ((x + k) % N) % P \in 0..P-1
  <2>1. (x + k) % N \in Int
    OBVIOUS
  <2>2. \A z \in Int : z % P \in 0..P-1
    OBVIOUS
  <2>3. QED
    BY Zenon, <2>1, <2>2
<1>2. ASSUME NEW x \in Int, NEW j \in Int, NEW k \in Int,
             ((x + j) % N) % P = ((x + k) % N) % P, j - k < P, k - j < P
      PROVE  j = k
  <2>1. PICK a \in Int, b \in Int : a = x + j /\ b = x + k
    OBVIOUS
  <2>2. (a % N) % P = a % P /\ (b % N) % P = b % P
    BY RingIndex, Zenon
  <2>3. a % P = b % P
    BY Zenon, <1>2, <2>1, <2>2
  <2>4. a - b < P /\ b - a < P
    BY <1>2, <2>1
  <2>5. a = b
    BY Zenon, <2>3, <2>4, RingDistinct
  <2>6. QED
    BY <2>1, <2>5
<1>3. QED
  BY Zenon, <1>1, <1>2

(* Two sequences with the same elements are the same. *)
LEMMA SameSeq ==
  ASSUME NEW S, NEW s \in Seq(S), NEW t \in Seq(S), Len(s) = Len(t),
         \A i \in 1..Len(t) : s[i] = t[i]
  PROVE  s = t
<1>1. s = [i \in 1..Len(t) |-> s[i]] /\ t = [i \in 1..Len(t) |-> t[i]]
  OBVIOUS
<1>2. QED
  BY Zenon, <1>1

(* What \o does, as a function: the bytes of pipewrite behind those that   *)
(* wait, the line being typed behind the lines that can be read.           *)
LEMMA Concat ==
  ASSUME NEW S, NEW s \in Seq(S), NEW t \in Seq(S)
  PROVE  s \o t = [i \in 1..Len(s) + Len(t) |-> IF i <= Len(s) THEN s[i] ELSE t[i - Len(s)]]
<1> DEFINE u == [i \in 1..Len(s) + Len(t) |-> IF i <= Len(s) THEN s[i] ELSE t[i - Len(s)]]
<1>1. /\ s \o t \in Seq(S) /\ Len(s \o t) = Len(s) + Len(t)
      /\ \A i \in 1..Len(s) + Len(t) :
           (s \o t)[i] = IF i <= Len(s) THEN s[i] ELSE t[i - Len(s)]
  OBVIOUS
<1>2. u \in Seq(S) /\ Len(u) = Len(s) + Len(t)
  <2>1. Len(s) \in Nat /\ Len(t) \in Nat
    OBVIOUS
  <2>2. \A i \in 1..Len(s) + Len(t) : u[i] \in S
    BY <2>1
  <2>3. QED
    BY <2>1, <2>2
<1>3. \A i \in 1..Len(u) : (s \o t)[i] = u[i]
  BY Zenon, <1>1, <1>2
<1> HIDE DEF u
<1>4. s \o t = u
  BY Zenon, <1>1, <1>2, <1>3, SameSeq
<1>5. QED
  BY Zenon, <1>4 DEF u

-----------------------------------------------------------------------------
(* The pipe. *)

(* The slot of the ring that is k places after the counter x. *)
Slot(x, k) == Pipe!uint(x + k) % PIPESIZE

(* The arithmetic of nread and nwrite (pipe.c:85, 106): unsigned, so that  *)
(* sums and differences wrap.                                              *)
LEMMA PipeUint ==
  /\ Pipe!Wrap \in Nat \ {0} /\ PIPESIZE \in Nat \ {0} /\ PIPESIZE < Pipe!Wrap
  /\ \A x \in Int : Pipe!uint(x) \in 0..Pipe!Wrap-1
  /\ \A x \in 0..Pipe!Wrap-1 : Pipe!uint(x) = x
  /\ \A x, y \in 0..Pipe!Wrap-1 : Pipe!uint(y - x) = IF y >= x THEN y - x ELSE y - x + Pipe!Wrap
  /\ \A x \in 0..Pipe!Wrap-1, k \in 0..Pipe!Wrap :
       Pipe!uint(x + k) = IF x + k < Pipe!Wrap THEN x + k ELSE x + k - Pipe!Wrap
<1>1. Pipe!Wrap \in Nat \ {0} /\ PIPESIZE \in Nat \ {0} /\ PIPESIZE < Pipe!Wrap
  BY PipeAssumption DEF Pipe!PipeConstants
<1>2. QED
  BY <1>1, RingUint, Zenon DEF Pipe!uint

(* The slots data[x % PIPESIZE] (pipe.c:93, 116): less than PIPESIZE       *)
(* places apart they differ, and they can be counted from any counter.     *)
LEMMA PipeSlot ==
  /\ \A x, k \in Int : Slot(x, k) \in 0..PIPESIZE-1
  /\ \A x, j, k \in Int :
       Slot(x, j) = Slot(x, k) /\ j - k < PIPESIZE /\ k - j < PIPESIZE => j = k
  /\ \A x, y \in 0..Pipe!Wrap-1, j \in Int : Slot(y, j) = Slot(x, Pipe!uint(y - x) + j)
<1>1. Pipe!Wrap \in Nat \ {0} /\ PIPESIZE \in Nat \ {0} /\ Pipe!Wrap % PIPESIZE = 0
  BY PipeAssumption DEF Pipe!PipeConstants
<1>2. \A x, k \in Int : Slot(x, k) \in 0..PIPESIZE-1
  BY <1>1, RingSlot, Zenon DEF Slot, Pipe!uint
<1>3. \A x, j, k \in Int :
        Slot(x, j) = Slot(x, k) /\ j - k < PIPESIZE /\ k - j < PIPESIZE => j = k
  BY <1>1, RingSlot, Zenon DEF Slot, Pipe!uint
<1>4. ASSUME NEW x \in 0..Pipe!Wrap-1, NEW y \in 0..Pipe!Wrap-1, NEW j \in Int
      PROVE  Slot(y, j) = Slot(x, Pipe!uint(y - x) + j)
  <2>1. (y + j) % Pipe!Wrap = (x + ((y - x) % Pipe!Wrap) + j) % Pipe!Wrap
    <3>1. Pipe!Wrap \in Nat \ {0}
      BY Zenon, <1>1
    <3>2. QED
      BY Zenon, <3>1, RingShift
  <2>2. (y - x) % Pipe!Wrap \in Int
    BY <1>1
  <2>3. x + ((y - x) % Pipe!Wrap) + j = x + (((y - x) % Pipe!Wrap) + j)
    BY <1>1, <2>2
  <2>4. QED
    BY <2>1, <2>3, Zenon DEF Slot, Pipe!uint
<1>5. QED
  BY <1>2, <1>3, <1>4, Zenon

(* The types of the ring, and of the processes and their calls. *)
PipeRing ==
  /\ data \in [0..PIPESIZE-1 -> 0..NB-1]
  /\ nread \in 0..Pipe!Wrap-1 /\ nwrite \in 0..Pipe!Wrap-1
  /\ Pipe!Used <= PIPESIZE
  /\ next \in 0..NB-1
  /\ pgot \in Seq(0..NB-1) /\ Len(pgot) <= PIPESIZE

PipeCalls ==
  /\ readopen \in {0, 1} /\ writeopen \in {0, 1}
  /\ rfd \subseteq Pipers /\ wfd \subseteq Pipers
  /\ plock \in Pipers \cup {0}
  /\ pstate \in [Pipers -> {"RUNNABLE", "SLEEPING"}]
  /\ pkilled \in [Pipers -> {0, 1}]
  /\ ppc \in [Pipers -> {"idle", "write", "write_sleep", "read", "read_sleep"}]
  /\ pn \in [Pipers -> 0..PipeMaxN]

(* A process in a call has its end of the pipe open. *)
PipeEnds ==
  /\ wfd \subseteq Writers
  /\ wfd # {} => writeopen = 1
  /\ rfd # {} => readopen = 1
  /\ \A p \in Pipers :
       /\ ppc[p] \in {"write", "write_sleep"} => p \in wfd
       /\ ppc[p] \in {"read", "read_sleep"} => p \in rfd /\ pn[p] > 0

(* On the way to sleep a process has p->lock, and a reason. *)
PipeWait ==
  \A p \in Pipers :
    /\ ppc[p] \in {"write_sleep", "read_sleep"} => plock = p
    /\ ppc[p] = "write_sleep" => Pipe!Full /\ readopen = 1
    /\ ppc[p] = "read_sleep" => Pipe!Empty /\ writeopen = 1
    /\ pstate[p] = "SLEEPING" => ppc[p] \in {"write", "read"}

PipeInv == PipeRing /\ PipeCalls /\ PipeEnds /\ PipeWait /\ Pipe!SleepsForAReason

(* pipealloc makes an empty pipe with both ends open (pipe.c:23-57). *)
LEMMA PipeInit ==
  ASSUME Pipe!Init
  PROVE  PipeInv
<1>1. Pipe!Wrap \in Nat \ {0} /\ PIPESIZE \in Nat \ {0} /\ Pipe!uint(0) = 0 /\ NB \in Nat \ {0}
  BY PipeUint, PipeAssumption DEF Pipe!PipeConstants
<1>2. PipeRing
  BY <1>1 DEF Pipe!Init, PipeRing, Pipe!Used
<1>3. PipeCalls
  BY PipeAssumption DEF Pipe!PipeConstants, Pipe!Init, PipeCalls
<1>4. QED
  BY Zenon, <1>2, <1>3 DEF Pipe!Init, PipeInv, PipeEnds, PipeWait, Pipe!SleepsForAReason

(* How the number of bytes in the ring follows from the counters. *)
LEMMA Counters ==
  ASSUME NEW x \in 0..Pipe!Wrap-1, NEW y \in 0..Pipe!Wrap-1, NEW u, u = Pipe!uint(y
    - x), u <= PIPESIZE
  PROVE  /\ u \in 0..PIPESIZE
         /\ u = 0 <=> x = y
         /\ u = PIPESIZE <=> y = Pipe!uint(x + PIPESIZE)
         /\ y = Pipe!uint(x + u)
<1>1. Pipe!Wrap \in Nat \ {0} /\ PIPESIZE \in Nat \ {0} /\ PIPESIZE < Pipe!Wrap
  BY Zenon, PipeUint
<1>2. u = IF y >= x THEN y - x ELSE y - x + Pipe!Wrap
  BY Zenon, <1>1, PipeUint
<1>3. u \in 0..PIPESIZE
  BY <1>1, <1>2
<1>4. \A k \in 0..Pipe!Wrap : Pipe!uint(x + k) = IF x + k < Pipe!Wrap THEN x + k ELSE x + k - Pipe!Wrap
  BY Zenon, <1>1, PipeUint
<1>5. u \in 0..Pipe!Wrap /\ PIPESIZE \in 0..Pipe!Wrap
  BY <1>1, <1>3
<1>6. y = Pipe!uint(x + u)
  BY <1>1, <1>2, <1>4, <1>5
<1>7. u = PIPESIZE <=> y = Pipe!uint(x + PIPESIZE)
  BY <1>1, <1>2, <1>4, <1>5
<1>8. QED
  BY <1>1, <1>2, <1>3, <1>6, <1>7

(* The tests of pipewrite and piperead for a full and an empty ring        *)
(* (pipe.c:85, 106) say how many bytes are in it ...                       *)
LEMMA UsedFacts ==
  ASSUME PipeRing
  PROVE  /\ Pipe!Used \in 0..PIPESIZE
         /\ Pipe!Used = 0 <=> Pipe!Empty
         /\ Pipe!Used = PIPESIZE <=> Pipe!Full
         /\ nwrite = Pipe!uint(nread + Pipe!Used)
BY Zenon, Counters DEF PipeRing, Pipe!Used, Pipe!Empty, Pipe!Full

(* ... also after a step. *)
LEMMA UsedNext ==
  ASSUME PipeRing'
  PROVE  (Pipe!Used' = 0 <=> Pipe!Empty') /\ (Pipe!Used' = PIPESIZE <=> Pipe!Full')
BY Zenon, Counters DEF PipeRing, Pipe!Used, Pipe!Empty, Pipe!Full

(* m bytes put into the ring ... *)
LEMMA PutFacts ==
  ASSUME PipeRing, NEW m \in 0..PIPESIZE-Pipe!Used, Pipe!put(m), UNCHANGED nread
  PROVE  /\ data' \in [0..PIPESIZE-1 -> 0..NB-1]
         /\ nwrite' \in 0..Pipe!Wrap-1 /\ next' \in 0..NB-1
         /\ Pipe!Used' = Pipe!Used + m
         /\ \A i \in 1..Pipe!Used : data'[Slot(nread, i - 1)] = data[Slot(nread, i - 1)]
         /\ \A i \in 1..m : data'[Slot(nread, Pipe!Used + i - 1)] = (next + i - 1) % NB
         /\ m = 0 => data' = data /\ nwrite' = nwrite /\ next' = next
<1>1. Pipe!Used \in 0..PIPESIZE /\ nread \in 0..Pipe!Wrap-1 /\ nwrite \in 0..Pipe!Wrap-1 /\ next \in 0..NB-1
  BY Zenon, UsedFacts DEF PipeRing
<1>2. NB \in Nat \ {0} /\ PIPESIZE \in Nat \ {0} /\ Pipe!Wrap \in Nat \ {0}
  BY Zenon, PipeAssumption, PipeUint DEF Pipe!PipeConstants
<1>3. \A x \in Int : x % NB \in 0..NB-1
  BY <1>2
<1>4. next % NB = next
  BY <1>1, <1>2
<1>5. nwrite' \in 0..Pipe!Wrap-1 /\ Pipe!Used' = Pipe!Used + m
  <2>1. m \in 0..Pipe!Wrap /\ PIPESIZE < Pipe!Wrap /\ nwrite' = Pipe!uint(nwrite + m)
    BY <1>1, <1>2, PipeUint DEF Pipe!put
  <2>2. nwrite' = IF nwrite + m < Pipe!Wrap THEN nwrite + m ELSE nwrite + m - Pipe!Wrap
    BY Zenon, <1>1, <2>1, PipeUint
  <2>3. nwrite' \in 0..Pipe!Wrap-1
    BY <1>1, <1>2, <2>1, <2>2
  <2>4. Pipe!Used = IF nwrite >= nread THEN nwrite - nread ELSE nwrite - nread + Pipe!Wrap
    BY Zenon, <1>1, PipeUint DEF Pipe!Used
  <2>5. Pipe!Used' = IF nwrite' >= nread THEN nwrite' - nread ELSE nwrite' - nread + Pipe!Wrap
    BY Zenon, <1>1, <2>3, PipeUint DEF Pipe!Used
  <2>6. QED
    BY <1>1, <1>2, <2>1, <2>2, <2>3, <2>4, <2>5
<1>6. next' \in 0..NB-1
  <2>1. next + m \in Int
    BY <1>1
  <2>2. QED
    BY <1>3, <2>1, Zenon DEF Pipe!put
<1>7. \A j \in Int : Pipe!uint(nwrite + j) % PIPESIZE = Slot(nread, Pipe!Used + j)
  BY Zenon, <1>1, PipeSlot DEF Slot, Pipe!Used
<1>8. data' = [i \in 0..PIPESIZE-1 |->
                IF \E j \in 0..m-1 : Slot(nread, Pipe!Used + j) = i
                  THEN (next + (CHOOSE j \in 0..m-1 : Slot(nread, Pipe!Used + j) =
                    i)) % NB
                  ELSE data[i]]
  <2>1. \A j \in 0..m-1 : Pipe!uint(nwrite + j) % PIPESIZE = Slot(nread, Pipe!Used + j)
    BY <1>7
  <2>2. ASSUME NEW i \in 0..PIPESIZE-1
        PROVE  (CHOOSE j \in 0..m-1 : Pipe!uint(nwrite + j) % PIPESIZE = i)
                 = (CHOOSE j \in 0..m-1 : Slot(nread, Pipe!Used + j) = i)
    BY Zenon, <2>1
  <2>3. QED
    BY Zenon, <2>1, <2>2 DEF Pipe!put
<1>9. \A j, k \in Int : Slot(nread, j) = Slot(nread, k) /\ j - k < PIPESIZE /\ k - j < PIPESIZE => j = k
  BY <1>1, PipeSlot
<1>10. \A k \in Int : Slot(nread, k) \in 0..PIPESIZE-1
  <2>1. nread \in Int
    BY <1>1
  <2>2. QED
    BY <2>1, PipeSlot, Zenon
<1>11. ASSUME NEW i \in 0..PIPESIZE-1 PROVE data'[i] \in 0..NB-1
  <2>1. CASE \E j \in 0..m-1 : Slot(nread, Pipe!Used + j) = i
    <3>1. PICK k \in 0..m-1 : k = CHOOSE j \in 0..m-1 : Slot(nread, Pipe!Used + j) = i
      BY Zenon, <2>1
    <3>2. data'[i] = (next + k) % NB
      BY Zenon, <1>8, <2>1, <3>1
    <3>3. QED
      BY <1>1, <1>3, <3>2
  <2>2. CASE ~\E j \in 0..m-1 : Slot(nread, Pipe!Used + j) = i
    BY Zenon, <1>8, <2>2 DEF PipeRing
  <2>3. QED
    BY Zenon, <2>1, <2>2
<1>12. data' \in [0..PIPESIZE-1 -> 0..NB-1]
  BY Zenon, <1>8, <1>11
<1>13. ASSUME NEW i \in 1..Pipe!Used
       PROVE  data'[Slot(nread, i - 1)] = data[Slot(nread, i - 1)]
  <2>1. ASSUME NEW j \in 0..m-1 PROVE Slot(nread, Pipe!Used + j) # Slot(nread, i - 1)
    BY <1>1, <1>2, <1>9
  <2>2. QED
    BY <1>8, <1>10, <2>1
<1>14. ASSUME NEW i \in 1..m
       PROVE  data'[Slot(nread, Pipe!Used + i - 1)] = (next + i - 1) % NB
  <2>1. PICK s \in 0..PIPESIZE-1 : s = Slot(nread, Pipe!Used + (i - 1))
    BY <1>1, <1>10
  <2>2. \E j \in 0..m-1 : Slot(nread, Pipe!Used + j) = s
    BY <2>1
  <2>3. PICK k \in 0..m-1 :
          k = (CHOOSE j \in 0..m-1 : Slot(nread, Pipe!Used + j) = s) /\ Slot(nread,
            Pipe!Used + k) = s
    BY Zenon, <2>2
  <2>4. k = i - 1
    <3>1. Pipe!Used + k = Pipe!Used + (i - 1)
      BY <1>1, <1>2, <1>9, <2>1, <2>3
    <3>2. QED
      BY <1>1, <3>1
  <2>5. data'[s] = (next + k) % NB
    BY Zenon, <1>8, <2>2, <2>3
  <2>6. Pipe!Used + (i - 1) = Pipe!Used + i - 1 /\ next + k = next + i - 1
    BY Zenon, <1>1, <2>4
  <2>7. QED
    BY Zenon, <2>1, <2>5, <2>6
<1>15. ASSUME m = 0 PROVE data' = data /\ nwrite' = nwrite /\ next' = next
  <2>1. next' = next /\ nwrite' = nwrite
    BY <1>1, <1>4, <1>15, PipeUint DEF Pipe!put
  <2>2. data' = data
    BY <1>8, <1>15 DEF PipeRing
  <2>3. QED
    BY Zenon, <2>1, <2>2
<1>16. QED
  BY Zenon, <1>5, <1>6, <1>12, <1>13, <1>14, <1>15

(* ... and m bytes taken from it. *)
LEMMA TakeFacts ==
  ASSUME PipeRing, NEW m \in 0..Pipe!Used, nread' = Pipe!uint(nread + m), UNCHANGED
    <<data, nwrite>>
  PROVE  /\ nread' \in 0..Pipe!Wrap-1
         /\ Pipe!Used' = Pipe!Used - m
         /\ \A i \in Int : Slot(nread', i - 1) = Slot(nread, m + i - 1)
<1>1. Pipe!Used \in 0..PIPESIZE /\ nread \in 0..Pipe!Wrap-1 /\ nwrite \in 0..Pipe!Wrap-1
  BY Zenon, UsedFacts DEF PipeRing
<1>2. PIPESIZE \in Nat \ {0} /\ Pipe!Wrap \in Nat \ {0}
  BY Zenon, PipeUint
<1>3. nread' \in 0..Pipe!Wrap-1 /\ Pipe!Used' = Pipe!Used - m /\ Pipe!uint(nread' - nread) = m
  <2>1. m \in 0..Pipe!Wrap /\ PIPESIZE < Pipe!Wrap
    BY <1>1, <1>2, PipeUint
  <2>2. nread' = IF nread + m < Pipe!Wrap THEN nread + m ELSE nread + m - Pipe!Wrap
    BY Zenon, <1>1, <2>1, PipeUint
  <2>3. nread' \in 0..Pipe!Wrap-1
    BY <1>1, <1>2, <2>1, <2>2
  <2>4. Pipe!Used = IF nwrite >= nread THEN nwrite - nread ELSE nwrite - nread + Pipe!Wrap
    BY Zenon, <1>1, PipeUint DEF Pipe!Used
  <2>5. Pipe!Used' = IF nwrite >= nread' THEN nwrite - nread' ELSE nwrite - nread' + Pipe!Wrap
    BY Zenon, <1>1, <2>3, PipeUint DEF Pipe!Used
  <2>6. Pipe!uint(nread' - nread) = IF nread' >= nread THEN nread' - nread ELSE nread' - nread + Pipe!Wrap
    BY Zenon, <1>1, <2>3, PipeUint
  <2>7. QED
    BY <1>1, <1>2, <2>1, <2>2, <2>3, <2>4, <2>5, <2>6
<1>4. ASSUME NEW i \in Int PROVE Slot(nread', i - 1) = Slot(nread, m + i - 1)
  <2>1. Slot(nread', i - 1) = Slot(nread, m + (i - 1))
    <3>1. i - 1 \in Int
      OBVIOUS
    <3>2. Slot(nread', i - 1) = Slot(nread, Pipe!uint(nread' - nread) + (i - 1))
      BY <1>1, <1>3, <3>1, PipeSlot, Zenon
    <3>3. QED
      BY Zenon, <1>3, <3>2
  <2>2. m + (i - 1) = m + i - 1
    BY Zenon, <1>1
  <2>3. QED
    BY Zenon, <2>1, <2>2
<1>5. QED
  BY Zenon, <1>3, <1>4

(* What pipewrite's loop does to the ring. *)
LEMMA PipeLoopFacts ==
  ASSUME PipeInv, NEW p \in Pipers, Pipe!pipewrite_loop(p)
  PROVE  \E m \in 0..PIPESIZE-Pipe!Used :
           /\ m <= pn[p] /\ m = Pipe!Min2(pn[p], PIPESIZE - Pipe!Used)
           /\ m < pn[p] => m = PIPESIZE - Pipe!Used
           /\ Pipe!put(m) /\ UNCHANGED nread
<1>1. Pipe!Used \in 0..PIPESIZE /\ PIPESIZE \in Nat
  BY Zenon, UsedFacts, PipeUint DEF PipeInv
<1>2. pn[p] \in Nat
  BY PipeAssumption DEF Pipe!PipeConstants, PipeInv, PipeCalls
<1>3. PICK m \in 0..PIPESIZE-Pipe!Used : m = Pipe!Min2(pn[p], PIPESIZE - Pipe!Used)
  BY <1>1, <1>2 DEF Pipe!Min2
<1>4. m <= pn[p] /\ (m < pn[p] => m = PIPESIZE - Pipe!Used)
  BY <1>1, <1>2, <1>3 DEF Pipe!Min2
<1>5. Pipe!put(m) /\ UNCHANGED nread
  BY Zenon, <1>3 DEF Pipe!pipewrite_loop
<1>6. QED
  BY Zenon, <1>3, <1>4, <1>5

(* pipewrite's loop up to its return or its sleep (pipe.c:84-97) keeps the *)
(* invariant: the readers it puts bytes in front of are awake, and it      *)
(* sleeps only on a full ring.                                             *)
LEMMA PipeLoopStep ==
  ASSUME PipeInv, NEW p \in Pipers, Pipe!pipewrite_loop(p)
  PROVE  PipeInv'
<1> PipeRing /\ PipeCalls /\ PipeEnds /\ PipeWait /\ Pipe!SleepsForAReason
  BY Zenon DEF PipeInv
<1>1. PICK m \in 0..PIPESIZE-Pipe!Used :
        /\ m <= pn[p] /\ m = Pipe!Min2(pn[p], PIPESIZE - Pipe!Used)
        /\ m < pn[p] => m = PIPESIZE - Pipe!Used
        /\ Pipe!put(m) /\ UNCHANGED nread
  BY Zenon, PipeLoopFacts
<1>2. /\ data' \in [0..PIPESIZE-1 -> 0..NB-1]
      /\ nwrite' \in 0..Pipe!Wrap-1 /\ next' \in 0..NB-1
      /\ Pipe!Used' = Pipe!Used + m
      /\ m = 0 => nwrite' = nwrite
  BY Zenon, <1>1, PutFacts
<1>3. Pipe!Used \in 0..PIPESIZE /\ PIPESIZE \in Nat /\ pn[p] \in 0..PipeMaxN /\ PipeMaxN \in Nat
  BY Zenon, UsedFacts, PipeUint, PipeAssumption DEF Pipe!PipeConstants, PipeCalls
<1>4. /\ ppc[p] = "write" /\ pstate[p] = "RUNNABLE" /\ p \in wfd /\ p \in Writers /\ plock = 0
      /\ UNCHANGED <<nread, readopen, writeopen, rfd, wfd, pkilled, pgot>>
  BY Zenon DEF PipeEnds, Pipe!pipewrite_loop, Pipe!At, Pipe!ends
<1>5. \A q \in Pipers : ppc[q] \notin {"write_sleep", "read_sleep"}
  BY Zenon, <1>4, PipeAssumption DEF Pipe!PipeConstants, PipeWait
<1>6. PipeRing'
  <2>1. Pipe!Used' <= PIPESIZE
    BY <1>1, <1>2, <1>3
  <2>2. QED
    BY Zenon, <1>2, <1>4, <2>1 DEF PipeRing
<1>7. m # 0 => \A q \in Pipers : pstate[q] = "SLEEPING" => ppc[q] = "read"
  BY <1>1, <1>3, UsedFacts DEF PipeWait, Pipe!SleepsForAReason
<1>8. Pipe!Full => Pipe!Full'
  BY <1>1, <1>2, <1>3, <1>4, UsedFacts DEF Pipe!Full
<1>10. CASE /\ m = pn[p] /\ pn' = [pn EXCEPT ![p] = 0] /\ ppc' = [ppc EXCEPT ![p] = "idle"]
            /\ pstate' = Pipe!WakeReaders /\ plock' = plock
  <2>1. PipeCalls'
    BY <1>3, <1>4, <1>10 DEF PipeCalls, Pipe!WakeReaders
  <2>2. PipeEnds'
    BY Zenon, <1>4, <1>10 DEF PipeCalls, PipeEnds
  <2>3. PipeWait'
    BY Zenon, <1>4, <1>5, <1>10 DEF PipeCalls, PipeWait, Pipe!WakeReaders
  <2>4. Pipe!SleepsForAReason'
    BY Zenon, <1>4, <1>8, <1>10 DEF PipeCalls, PipeWait, Pipe!SleepsForAReason,
      Pipe!WakeReaders
  <2>5. QED
    BY Zenon, <1>6, <2>1, <2>2, <2>3, <2>4 DEF PipeInv
<1>11. CASE /\ m < pn[p] /\ (readopen = 0 \/ pkilled[p] = 1)
            /\ pn' = [pn EXCEPT ![p] = 0] /\ ppc' = [ppc EXCEPT ![p] = "idle"]
            /\ UNCHANGED <<pstate, plock>>
  <2>1. PipeCalls'
    BY <1>3, <1>4, <1>11 DEF PipeCalls
  <2>2. PipeEnds'
    BY Zenon, <1>4, <1>11 DEF PipeCalls, PipeEnds
  <2>3. PipeWait'
    BY Zenon, <1>4, <1>5, <1>11 DEF PipeCalls, PipeWait
  <2>4. Pipe!SleepsForAReason'
    BY <1>4, <1>8, <1>11 DEF PipeCalls, PipeEnds, PipeWait, Pipe!SleepsForAReason
  <2>5. QED
    BY Zenon, <1>6, <2>1, <2>2, <2>3, <2>4 DEF PipeInv
<1>12. CASE /\ m < pn[p] /\ readopen = 1 /\ pkilled[p] = 0
            /\ pn' = [pn EXCEPT ![p] = @ - m] /\ ppc' = [ppc EXCEPT ![p] = "write_sleep"]
            /\ pstate' = Pipe!WakeReaders /\ plock' = p
  <2>1. PipeCalls'
    BY <1>1, <1>3, <1>4, <1>12 DEF PipeCalls, Pipe!WakeReaders
  <2>2. PipeEnds'
    BY Zenon, <1>4, <1>12 DEF PipeCalls, PipeEnds
  <2>3. Pipe!Full'
    <3>1. Pipe!Used' = PIPESIZE
      BY <1>1, <1>2, <1>3, <1>12
    <3>2. QED
      BY Zenon, <1>6, <3>1, UsedNext
  <2>4. PipeWait'
    BY Zenon, <1>4, <1>5, <1>12, <2>3 DEF PipeCalls, PipeWait, Pipe!WakeReaders
  <2>5. Pipe!SleepsForAReason'
    BY Zenon, <1>4, <1>8, <1>12 DEF PipeCalls, PipeWait, Pipe!SleepsForAReason,
      Pipe!WakeReaders
  <2>6. QED
    BY Zenon, <1>6, <2>1, <2>2, <2>4, <2>5 DEF PipeInv
<1>13. QED
  BY Zenon, <1>1, <1>10, <1>11, <1>12 DEF Pipe!pipewrite_loop

(* The calls, and the steps that leave the ring alone. *)
LEMMA PipeRingUnchanged ==
  ASSUME PipeRing, UNCHANGED <<data, nread, nwrite, next, pgot>>
  PROVE  PipeRing' /\ (Pipe!Full' <=> Pipe!Full) /\ (Pipe!Empty' <=> Pipe!Empty)
BY Zenon DEF PipeRing, Pipe!Used, Pipe!Full, Pipe!Empty

(* Entering pipewrite or piperead keeps the invariant. *)
LEMMA PipeCallStep ==
  ASSUME PipeInv, NEW p \in Pipers, NEW k \in 1..PipeMaxN, Pipe!pipewrite(p, k) \/
    Pipe!piperead(p, k)
  PROVE  PipeInv'
<1> PipeRing /\ PipeCalls /\ PipeEnds /\ PipeWait /\ Pipe!SleepsForAReason
  BY Zenon DEF PipeInv
<1>1. /\ PipeRing' /\ (Pipe!Full' <=> Pipe!Full) /\ (Pipe!Empty' <=> Pipe!Empty)
      /\ UNCHANGED <<readopen, writeopen, rfd, wfd, plock, pstate, pkilled>>
      /\ ppc[p] = "idle" /\ pstate[p] = "RUNNABLE"
      /\ pn' = [pn EXCEPT ![p] = k]
      /\ \/ p \in wfd /\ ppc' = [ppc EXCEPT ![p] = "write"]
         \/ p \in rfd /\ ppc' = [ppc EXCEPT ![p] = "read"]
  BY Zenon, PipeRingUnchanged DEF Pipe!pipewrite, Pipe!piperead, Pipe!At, Pipe!ring,
    Pipe!ends
<1>2. k \in 0..PipeMaxN /\ k > 0
  BY PipeAssumption DEF Pipe!PipeConstants
<1>3. PipeCalls'
  BY Zenon, <1>1, <1>2 DEF PipeCalls
<1>4. PipeEnds'
  BY Zenon, <1>1, <1>2 DEF PipeCalls, PipeEnds
<1>5. PipeWait' /\ Pipe!SleepsForAReason'
  BY <1>1 DEF PipeCalls, PipeWait, Pipe!SleepsForAReason
<1>6. QED
  BY Zenon, <1>1, <1>3, <1>4, <1>5 DEF PipeInv

(* The sleep of pipewrite and piperead (pipe.c:91, 111) keeps the          *)
(* invariant: p->lock was held since the test, so the reason is still      *)
(* there.                                                                  *)
LEMMA PipeSleepStep ==
  ASSUME PipeInv, NEW p \in Pipers, Pipe!pipewrite_sleep(p) \/ Pipe!piperead_sleep(p)
  PROVE  PipeInv'
<1> PipeRing /\ PipeCalls /\ PipeEnds /\ PipeWait /\ Pipe!SleepsForAReason
  BY Zenon DEF PipeInv
<1>1. /\ PipeRing' /\ (Pipe!Full' <=> Pipe!Full) /\ (Pipe!Empty' <=> Pipe!Empty)
      /\ UNCHANGED <<readopen, writeopen, rfd, wfd, pn, pkilled>>
      /\ pstate' = [pstate EXCEPT ![p] = "SLEEPING"] /\ plock' = 0
      /\ \/ ppc[p] = "write_sleep" /\ ppc' = [ppc EXCEPT ![p] = "write"]
         \/ ppc[p] = "read_sleep" /\ ppc' = [ppc EXCEPT ![p] = "read"]
  BY Zenon, PipeRingUnchanged DEF Pipe!pipewrite_sleep, Pipe!piperead_sleep, Pipe!At,
    Pipe!ring, Pipe!ends
<1>2. PipeCalls'
  BY Zenon, <1>1 DEF PipeCalls
<1>3. PipeEnds'
  BY Zenon, <1>1 DEF PipeCalls, PipeEnds
<1>4. plock = p /\ \A q \in Pipers \ {p} : ppc[q] \notin {"write_sleep", "read_sleep"}
  BY Zenon, <1>1 DEF PipeWait
<1>5. PipeWait'
  BY <1>1, <1>4 DEF PipeCalls, PipeWait
<1>6. Pipe!SleepsForAReason'
  BY Zenon, <1>1 DEF PipeCalls, PipeWait, Pipe!SleepsForAReason
<1>7. QED
  BY Zenon, <1>1, <1>2, <1>3, <1>5, <1>6 DEF PipeInv

(* piperead on an empty pipe (pipe.c:106-111) keeps the invariant. *)
LEMMA PipeWaitStep ==
  ASSUME PipeInv, NEW p \in Pipers, Pipe!piperead_wait(p)
  PROVE  PipeInv'
<1> PipeRing /\ PipeCalls /\ PipeEnds /\ PipeWait /\ Pipe!SleepsForAReason
  BY Zenon DEF PipeInv
<1>1. /\ PipeRing' /\ (Pipe!Full' <=> Pipe!Full) /\ (Pipe!Empty' <=> Pipe!Empty)
      /\ UNCHANGED <<readopen, writeopen, rfd, wfd, pstate, pkilled>>
      /\ ppc[p] = "read" /\ pstate[p] = "RUNNABLE" /\ plock = 0 /\ Pipe!Empty /\ writeopen = 1
      /\ \/ /\ ppc' = [ppc EXCEPT ![p] = "idle"] /\ pn' = [pn EXCEPT ![p] = 0] /\ plock' = plock
         \/ /\ ppc' = [ppc EXCEPT ![p] = "read_sleep"] /\ pn' = pn /\ plock' = p
  BY Zenon, PipeRingUnchanged DEF Pipe!piperead_wait, Pipe!At, Pipe!ring, Pipe!ends
<1>2. PipeCalls'
  BY <1>1, PipeAssumption DEF Pipe!PipeConstants, PipeCalls
<1>3. PipeEnds'
  BY Zenon, <1>1 DEF PipeCalls, PipeEnds
<1>4. \A q \in Pipers : ppc[q] \notin {"write_sleep", "read_sleep"}
  BY Zenon, <1>1, PipeAssumption DEF Pipe!PipeConstants, PipeWait
<1>5. PipeWait' /\ Pipe!SleepsForAReason'
  BY <1>1, <1>4 DEF PipeCalls, PipeWait, Pipe!SleepsForAReason
<1>6. QED
  BY Zenon, <1>1, <1>2, <1>3, <1>5 DEF PipeInv

(* pipeclose (pipe.c:60-75) keeps the invariant: it wakes the other end. *)
LEMMA PipeCloseStep ==
  ASSUME PipeInv, NEW p \in Pipers, NEW writable \in BOOLEAN, Pipe!pipeclose(p,
    writable)
  PROVE  PipeInv'
<1> PipeRing /\ PipeCalls /\ PipeEnds /\ PipeWait /\ Pipe!SleepsForAReason
  BY Zenon DEF PipeInv
<1>1. /\ PipeRing' /\ (Pipe!Full' <=> Pipe!Full) /\ (Pipe!Empty' <=> Pipe!Empty)
      /\ UNCHANGED <<pn, ppc, plock, pkilled>>
      /\ ppc[p] = "idle" /\ plock = 0
  BY Zenon, PipeRingUnchanged DEF Pipe!pipeclose, Pipe!At, Pipe!ring
<1>2. \A q \in Pipers : ppc[q] \notin {"write_sleep", "read_sleep"}
  BY Zenon, <1>1, PipeAssumption DEF Pipe!PipeConstants, PipeWait
<1>3. CASE writable
  <2>1. /\ wfd' = wfd \ {p} /\ writeopen' = IF wfd' = {} THEN 0 ELSE writeopen
        /\ pstate' = IF wfd' = {} THEN Pipe!WakeReaders ELSE pstate
        /\ UNCHANGED <<rfd, readopen>>
    BY Zenon, <1>3 DEF Pipe!pipeclose
  <2>2. PipeCalls'
    BY Zenon, <1>1, <2>1 DEF PipeCalls, Pipe!WakeReaders
  <2>3. PipeEnds'
    BY Zenon, <1>1, <2>1 DEF PipeCalls, PipeEnds
  <2>4. PipeWait'
    BY Zenon, <1>1, <1>2, <2>1 DEF PipeCalls, PipeWait, Pipe!WakeReaders
  <2>5. Pipe!SleepsForAReason'
    BY Zenon, <1>1, <1>2, <2>1 DEF PipeCalls, PipeWait, Pipe!SleepsForAReason,
      Pipe!WakeReaders
  <2>6. QED
    BY Zenon, <1>1, <2>2, <2>3, <2>4, <2>5 DEF PipeInv
<1>4. CASE ~writable
  <2>1. /\ rfd' = rfd \ {p} /\ readopen' = IF rfd' = {} THEN 0 ELSE readopen
        /\ pstate' = IF rfd' = {} THEN Pipe!WakeWriters ELSE pstate
        /\ UNCHANGED <<wfd, writeopen>>
    BY Zenon, <1>4 DEF Pipe!pipeclose
  <2>2. PipeCalls'
    BY Zenon, <1>1, <2>1 DEF PipeCalls, Pipe!WakeWriters
  <2>3. PipeEnds'
    BY Zenon, <1>1, <2>1 DEF PipeCalls, PipeEnds
  <2>4. PipeWait'
    BY Zenon, <1>1, <1>2, <2>1 DEF PipeCalls, PipeWait, Pipe!WakeWriters
  <2>5. Pipe!SleepsForAReason'
    BY Zenon, <1>1, <1>2, <2>1 DEF PipeCalls, PipeWait, Pipe!SleepsForAReason,
      Pipe!WakeWriters
  <2>6. QED
    BY Zenon, <1>1, <2>2, <2>3, <2>4, <2>5 DEF PipeInv
<1>5. QED
  BY Zenon, <1>3, <1>4

(* kill keeps the invariant: it makes the process RUNNABLE. *)
LEMMA PipeKillStep ==
  ASSUME PipeInv, NEW p \in Pipers, Pipe!kill(p)
  PROVE  PipeInv'
<1> PipeRing /\ PipeCalls /\ PipeEnds /\ PipeWait /\ Pipe!SleepsForAReason
  BY Zenon DEF PipeInv
<1>1. /\ PipeRing' /\ (Pipe!Full' <=> Pipe!Full) /\ (Pipe!Empty' <=> Pipe!Empty)
      /\ UNCHANGED <<readopen, writeopen, rfd, wfd, pn, ppc, plock>>
      /\ pkilled' = [pkilled EXCEPT ![p] = 1] /\ pstate' = [pstate EXCEPT ![p] = "RUNNABLE"]
  BY Zenon, PipeRingUnchanged DEF Pipe!kill, Pipe!ring, Pipe!ends
<1>2. PipeCalls' /\ PipeEnds' /\ PipeWait'
  BY Zenon, <1>1 DEF PipeCalls, PipeEnds, PipeWait
<1>3. \A q \in Writers : pkilled[q] = 1 => pkilled'[q] = 1
  BY Zenon, <1>1, PipeAssumption DEF Pipe!PipeConstants, PipeCalls
<1>4. Pipe!SleepsForAReason'
  BY Zenon, <1>1, <1>3 DEF PipeCalls, Pipe!SleepsForAReason
<1>5. QED
  BY Zenon, <1>1, <1>2, <1>4 DEF PipeInv

(* What piperead's loop takes out of the ring (pipe.c:113-117). *)
LEMMA PipeCopyFacts ==
  ASSUME PipeInv, NEW p \in Pipers, Pipe!piperead_copy(p)
  PROVE  \E m \in 0..Pipe!Used :
           /\ m = 0 => Pipe!Used = 0 /\ writeopen = 0
           /\ pgot' = [i \in 1..m |-> data[Slot(nread, i - 1)]]
           /\ nread' = Pipe!uint(nread + m) /\ UNCHANGED <<data, nwrite, next>>
<1>1. Pipe!Used \in 0..PIPESIZE /\ PIPESIZE \in Nat
  BY Zenon, UsedFacts, PipeUint DEF PipeInv
<1>2. pn[p] \in Nat /\ pn[p] > 0
  BY PipeAssumption DEF Pipe!PipeConstants, PipeInv, PipeCalls, PipeEnds,
    Pipe!piperead_copy, Pipe!At
<1>3. PICK m \in 0..Pipe!Used : m = Pipe!Min2(pn[p], Pipe!Used)
  BY <1>1, <1>2 DEF Pipe!Min2
<1>4. m = 0 => Pipe!Used = 0
  BY <1>1, <1>2, <1>3 DEF Pipe!Min2
<1>5. m = 0 => writeopen = 0
  BY Zenon, <1>4, UsedFacts DEF PipeInv, PipeCalls, Pipe!piperead_copy
<1>6. \A i \in 1..m : Pipe!uint(nread + i - 1) % PIPESIZE = Slot(nread, i - 1)
  <2>1. nread \in Int
    BY PipeUint DEF PipeInv, PipeRing
  <2>2. \A i \in 1..m : nread + i - 1 = nread + (i - 1)
    BY Zenon, <2>1
  <2>3. QED
    BY <2>2, Zenon DEF Slot
<1>7. pgot' = [i \in 1..m |-> data[Pipe!uint(nread + i - 1) % PIPESIZE]]
  BY Zenon, <1>3 DEF Pipe!piperead_copy
<1>8. pgot' = [i \in 1..m |-> data[Slot(nread, i - 1)]]
  BY Zenon, <1>6, <1>7
<1>9. nread' = Pipe!uint(nread + m) /\ UNCHANGED <<data, nwrite, next>>
  BY Zenon, <1>3 DEF Pipe!piperead_copy
<1>10. QED
  BY Zenon, <1>4, <1>5, <1>8, <1>9

(* piperead's copy (pipe.c:113-118) keeps the invariant: it wakes the      *)
(* writers that may go on.                                                 *)
LEMMA PipeCopyStep ==
  ASSUME PipeInv, NEW p \in Pipers, Pipe!piperead_copy(p)
  PROVE  PipeInv'
<1> PipeRing /\ PipeCalls /\ PipeEnds /\ PipeWait /\ Pipe!SleepsForAReason
  BY Zenon DEF PipeInv
<1>1. PICK m \in 0..Pipe!Used :
         /\ m = 0 => Pipe!Used = 0 /\ writeopen = 0
         /\ pgot' = [i \in 1..m |-> data[Slot(nread, i - 1)]]
         /\ nread' = Pipe!uint(nread + m) /\ UNCHANGED <<data, nwrite, next>>
  BY Zenon, PipeCopyFacts
<1>2. nread' \in 0..Pipe!Wrap-1 /\ Pipe!Used' = Pipe!Used - m
  BY Zenon, <1>1, TakeFacts
<1>3. Pipe!Used \in 0..PIPESIZE /\ PIPESIZE \in Nat
  BY Zenon, UsedFacts, PipeUint
<1>4. /\ ppc[p] = "read" /\ pstate[p] = "RUNNABLE" /\ plock = 0
      /\ UNCHANGED <<readopen, writeopen, rfd, wfd, pkilled, plock>>
      /\ ppc' = [ppc EXCEPT ![p] = "idle"] /\ pn' = [pn EXCEPT ![p] = 0]
      /\ pstate' = Pipe!WakeWriters
  BY Zenon DEF Pipe!piperead_copy, Pipe!At, Pipe!ends
<1>5. \A q \in Pipers : ppc[q] \notin {"write_sleep", "read_sleep"}
  BY Zenon, <1>4, PipeAssumption DEF Pipe!PipeConstants, PipeWait
<1>6. pgot' \in Seq(0..NB-1) /\ Len(pgot') <= PIPESIZE
  <2>1. nread \in Int
    BY PipeUint DEF PipeRing
  <2>2. \A i \in 1..m : i - 1 \in Int
    OBVIOUS
  <2>3. \A i \in 1..m : Slot(nread, i - 1) \in 0..PIPESIZE-1
    BY <2>1, <2>2, PipeSlot, Zenon
  <2>4. \A i \in 1..m : data[Slot(nread, i - 1)] \in 0..NB-1
    BY Zenon, <2>3 DEF PipeRing
  <2>5. m \in Nat /\ m <= PIPESIZE
    BY <1>3
  <2>6. QED
    BY <1>1, <2>4, <2>5
<1>7. PipeRing'
  <2>1. Pipe!Used' <= PIPESIZE
    BY <1>1, <1>2, <1>3
  <2>2. QED
    BY Zenon, <1>1, <1>2, <1>6, <2>1 DEF PipeRing
<1>8. PipeCalls'
  BY <1>4, PipeAssumption DEF Pipe!PipeConstants, PipeCalls, Pipe!WakeWriters
<1>9. PipeEnds'
  BY Zenon, <1>4 DEF PipeCalls, PipeEnds
<1>10. PipeWait'
  BY Zenon, <1>4, <1>5 DEF PipeCalls, PipeWait, Pipe!WakeWriters
<1>11. Pipe!Empty => Pipe!Empty'
  BY <1>1, <1>2, <1>3, <1>7, UsedFacts, UsedNext
<1>12. Pipe!SleepsForAReason'
  BY Zenon, <1>4, <1>11 DEF PipeCalls, PipeWait, Pipe!SleepsForAReason, Pipe!WakeWriters
<1>13. QED
  BY Zenon, <1>7, <1>8, <1>9, <1>10, <1>12 DEF PipeInv

(* A step of another part of the kernel keeps the invariant. *)
LEMMA PipeUnchanged ==
  ASSUME PipeInv, UNCHANGED Pipe!vars
  PROVE  PipeInv'
<1> PipeRing /\ PipeCalls /\ PipeEnds /\ PipeWait /\ Pipe!SleepsForAReason
  BY Zenon DEF PipeInv
<1>1. /\ PipeRing' /\ (Pipe!Full' <=> Pipe!Full) /\ (Pipe!Empty' <=> Pipe!Empty)
  BY Zenon, PipeRingUnchanged DEF Pipe!vars, Pipe!ring
<1>2. PipeCalls' /\ PipeEnds'
  BY Zenon DEF PipeCalls, PipeEnds, Pipe!vars, Pipe!ends
<1>3. PipeWait' /\ Pipe!SleepsForAReason'
  BY Zenon, <1>1 DEF PipeWait, Pipe!SleepsForAReason, Pipe!vars, Pipe!ends
<1>4. QED
  BY Zenon, <1>1, <1>2, <1>3 DEF PipeInv

(* Whatever happens next to a pipe keeps the invariant. *)
LEMMA PipeStep ==
  ASSUME PipeInv, [Pipe!Next]_(Pipe!vars)
  PROVE  PipeInv'
<1>1. ASSUME NEW p \in Pipers, NEW k \in 1..PipeMaxN, Pipe!pipewrite(p, k) \/
      Pipe!piperead(p, k)
      PROVE  PipeInv'
  BY Zenon, <1>1, PipeCallStep
<1>2. ASSUME NEW p \in Pipers, Pipe!pipewrite_loop(p) PROVE PipeInv'
  BY Zenon, <1>2, PipeLoopStep
<1>3. ASSUME NEW p \in Pipers, Pipe!pipewrite_sleep(p) \/ Pipe!piperead_sleep(p)
      PROVE PipeInv'
  BY Zenon, <1>3, PipeSleepStep
<1>4. ASSUME NEW p \in Pipers, Pipe!piperead_wait(p) PROVE PipeInv'
  BY Zenon, <1>4, PipeWaitStep
<1>5. ASSUME NEW p \in Pipers, Pipe!piperead_copy(p) PROVE PipeInv'
  BY Zenon, <1>5, PipeCopyStep
<1>6. ASSUME NEW p \in Pipers, NEW writable \in BOOLEAN, Pipe!pipeclose(p, writable)
      PROVE PipeInv'
  BY Zenon, <1>6, PipeCloseStep
<1>7. ASSUME NEW p \in Pipers, Pipe!kill(p) PROVE PipeInv'
  BY Zenon, <1>7, PipeKillStep
<1>8. CASE UNCHANGED Pipe!vars
  BY Zenon, <1>8, PipeUnchanged
<1>9. QED
  BY <1>1, <1>2, <1>3, <1>4, <1>5, <1>6, <1>7, <1>8, Zenon DEF Pipe!Next,
    Pipe!Finished

(* The invariant holds in every state of a pipe, for any numbers of        *)
(* readers and writers, any ring size and any width of nread and nwrite.   *)
THEOREM PipeInvariant == Pipe!Spec => []PipeInv
<1>1. PipeInv /\ [Pipe!Next]_(Pipe!vars) => PipeInv'
  BY Zenon, PipeStep
<1>2. Pipe!Init => PipeInv
  BY Zenon, PipeInit
<1>3. QED
  BY <1>1, <1>2, PTL DEF Pipe!Spec

(* Reading and writing the ring as a sequence. *)
LEMMA ContentsFacts ==
  ASSUME PipeRing
  PROVE  /\ Pipe!Contents \in Seq(0..NB-1) /\ Len(Pipe!Contents) = Pipe!Used
         /\ \A i \in 1..Pipe!Used : Pipe!Contents[i] = data[Slot(nread, i - 1)]
<1>1. Pipe!Used \in Nat
  BY UsedFacts, PipeUint
<1>2. nread \in Int
  BY PipeUint DEF PipeRing
<1>3. \A i \in 1..Pipe!Used : i - 1 \in Int /\ nread + i - 1 = nread + (i - 1)
  BY <1>2
<1>4. \A i \in 1..Pipe!Used : Pipe!uint(nread + i - 1) % PIPESIZE = Slot(nread, i - 1)
  BY <1>3, Zenon DEF Slot
<1>5. \A i \in 1..Pipe!Used : Slot(nread, i - 1) \in 0..PIPESIZE-1
  BY <1>2, <1>3, PipeSlot, Zenon
<1>6. \A i \in 1..Pipe!Used : data[Slot(nread, i - 1)] \in 0..NB-1
  BY Zenon, <1>5 DEF PipeRing
<1>7. Pipe!Contents = [i \in 1..Pipe!Used |-> data[Slot(nread, i - 1)]]
  BY Zenon, <1>4 DEF Pipe!Contents
<1>8. QED
  BY <1>1, <1>6, <1>7

(* ... also after a step. *)
LEMMA ContentsNext ==
  ASSUME PipeRing'
  PROVE  Pipe!Contents' = [i \in 1..Pipe!Used' |-> data'[Slot(nread', i - 1)]]
<1>1. nread' \in Int
  BY PipeUint DEF PipeRing
<1>2. \A i \in 1..Pipe!Used' : i - 1 \in Int /\ nread' + i - 1 = nread' + (i - 1)
  BY <1>1
<1>3. \A i \in 1..Pipe!Used' : Pipe!uint(nread' + i - 1) % PIPESIZE = Slot(nread', i - 1)
  BY <1>2, Zenon DEF Slot
<1>4. QED
  BY Zenon, <1>3 DEF Pipe!Contents

(* pipewrite's loop writes to the stream, if it writes at all. *)
LEMMA PipeLoopWrites ==
  ASSUME PipeInv, PipeInv', NEW p \in Pipers, Pipe!pipewrite_loop(p)
  PROVE  [Pipe!Stream!Next]_(Pipe!Stream!vars)
<1> PipeRing /\ PipeCalls /\ PipeEnds /\ PipeWait /\ Pipe!SleepsForAReason /\ PipeRing'
  BY Zenon DEF PipeInv
<1>1. PICK m \in 0..PIPESIZE-Pipe!Used : Pipe!put(m) /\ UNCHANGED nread
  BY Zenon, PipeLoopFacts
<1>2. /\ next' \in 0..NB-1
      /\ Pipe!Used' = Pipe!Used + m
      /\ \A i \in 1..Pipe!Used : data'[Slot(nread, i - 1)] = data[Slot(nread, i - 1)]
      /\ \A i \in 1..m : data'[Slot(nread, Pipe!Used + i - 1)] = (next + i - 1) % NB
      /\ m = 0 => data' = data /\ nwrite' = nwrite /\ next' = next
  BY Zenon, <1>1, PutFacts
<1>3. UNCHANGED <<readopen, writeopen, pgot>> /\ writeopen = 1
  BY Zenon DEF Pipe!pipewrite_loop, Pipe!ends, PipeEnds, Pipe!At
<1>4. Pipe!Used \in 0..PIPESIZE /\ PIPESIZE \in Nat
  BY Zenon, UsedFacts, PipeUint
<1>5. CASE m = 0
  <2>1. Pipe!Contents' = Pipe!Contents
    BY Zenon, <1>1, <1>2, <1>5 DEF Pipe!Contents, Pipe!Used
  <2>2. QED
    BY Zenon, <1>2, <1>3, <1>5, <2>1 DEF Pipe!Stream!vars
<1>6. CASE m # 0
  <2>1. Pipe!Contents \in Seq(0..NB-1) /\ Len(Pipe!Contents) = Pipe!Used
        /\ \A i \in 1..Pipe!Used : Pipe!Contents[i] = data[Slot(nread, i - 1)]
    BY Zenon, ContentsFacts
  <2>2. Pipe!Contents' = [i \in 1..Pipe!Used + m |-> data'[Slot(nread, i - 1)]]
    BY Zenon, <1>1, <1>2, ContentsNext
  <2> DEFINE new == [i \in 1..m |-> (next + i - 1) % NB]
  <2>3. new \in Seq(0..NB-1) /\ Len(new) = m
    <3>1. m \in Nat /\ \A i \in 1..m : (next + i - 1) % NB \in 0..NB-1
      BY PipeAssumption DEF Pipe!PipeConstants, PipeRing
    <3>2. QED
      BY <3>1
  <2>4. Pipe!Contents' = Pipe!Contents \o new
    <3>1. \A i \in 1..Pipe!Used + m :
            data'[Slot(nread, i - 1)] = IF i <= Pipe!Used THEN Pipe!Contents[i] ELSE
              new[i - Pipe!Used]
      <4> SUFFICES ASSUME NEW i \in 1..Pipe!Used + m
                   PROVE  data'[Slot(nread, i - 1)]
                            = IF i <= Pipe!Used THEN Pipe!Contents[i] ELSE new[i - Pipe!Used]
        BY Zenon
      <4>1. CASE i <= Pipe!Used
        BY <1>2, <1>4, <2>1, <4>1
      <4>2. CASE i > Pipe!Used
        <5>1. PICK k \in 1..m : k = i - Pipe!Used
          BY <1>4, <4>2
        <5>2. Pipe!Used + k - 1 = i - 1
          BY <1>4, <5>1
        <5>3. data'[Slot(nread, Pipe!Used + k - 1)] = new[k]
          BY Zenon, <1>2
        <5>4. QED
          BY <1>4, <4>2, <5>1, <5>2, <5>3
      <4>3. QED
        BY <1>4, <4>1, <4>2
    <3> HIDE DEF new
    <3>2. Pipe!Contents \o new
            = [i \in 1..Pipe!Used + m |-> IF i <= Pipe!Used THEN Pipe!Contents[i] ELSE new[i - Pipe!Used]]
      <4>1. Pipe!Contents \o new
              = [i \in 1..Len(Pipe!Contents) + Len(new) |->
                   IF i <= Len(Pipe!Contents) THEN Pipe!Contents[i] ELSE new[i - Len(Pipe!Contents)]]
        BY <2>1, <2>3, Concat, Zenon
      <4>2. QED
        BY Zenon, <2>1, <2>3, <4>1
    <3>3. QED
      BY Zenon, <2>2, <3>1, <3>2
  <2>5. next' = (next + m) % NB
    BY Zenon, <1>1 DEF Pipe!put
  <2>6. m \in 1..PIPESIZE /\ Len(Pipe!Contents) + m <= PIPESIZE
    BY <1>4, <1>6, <2>1
  <2>7. Pipe!Stream!Write(m)
    BY Zenon, <1>3, <2>4, <2>5, <2>6 DEF Pipe!Stream!Write
  <2>8. QED
    BY Zenon, <2>6, <2>7 DEF Pipe!Stream!Next
<1>7. QED
  BY Zenon, <1>5, <1>6

(* piperead returns the oldest bytes. *)
LEMMA PipeCopyReads ==
  ASSUME PipeInv, PipeInv', NEW p \in Pipers, Pipe!piperead_copy(p)
  PROVE  Pipe!Stream!Next
<1> PipeRing /\ PipeCalls /\ PipeEnds /\ PipeWait /\ Pipe!SleepsForAReason /\ PipeRing'
  BY Zenon DEF PipeInv
<1>1. PICK m \in 0..Pipe!Used :
         /\ m = 0 => Pipe!Used = 0 /\ writeopen = 0
         /\ pgot' = [i \in 1..m |-> data[Slot(nread, i - 1)]]
         /\ nread' = Pipe!uint(nread + m) /\ UNCHANGED <<data, nwrite, next>>
  BY Zenon, PipeCopyFacts
<1>2. /\ Pipe!Used' = Pipe!Used - m
      /\ \A i \in Int : Slot(nread', i - 1) = Slot(nread, m + i - 1)
  BY Zenon, <1>1, TakeFacts
<1>3. Pipe!Used \in 0..PIPESIZE /\ PIPESIZE \in Nat
  BY Zenon, UsedFacts, PipeUint
<1>4. UNCHANGED <<readopen, writeopen>> /\ readopen = 1
  BY Zenon DEF Pipe!piperead_copy, Pipe!ends, PipeEnds, Pipe!At
<1>5. Pipe!Contents \in Seq(0..NB-1) /\ Len(Pipe!Contents) = Pipe!Used
      /\ \A i \in 1..Pipe!Used : Pipe!Contents[i] = data[Slot(nread, i - 1)]
  BY Zenon, ContentsFacts
<1>6. pgot' = SubSeq(Pipe!Contents, 1, m)
  BY <1>1, <1>3, <1>5
<1>7. Pipe!Contents' = SubSeq(Pipe!Contents, m + 1, Pipe!Used)
  <2>1. Pipe!Contents' = [i \in 1..Pipe!Used - m |-> data[Slot(nread', i - 1)]]
    BY Zenon, <1>1, <1>2, ContentsNext
  <2>2. ASSUME NEW i \in 1..Pipe!Used - m PROVE data[Slot(nread', i - 1)] =
        Pipe!Contents[i + m]
    <3>1. PICK k \in 1..Pipe!Used : k = i + m
      BY <1>3
    <3>2. m + i - 1 = k - 1 /\ i \in Int
      BY <1>3, <3>1
    <3>3. QED
      BY Zenon, <1>2, <1>5, <3>1, <3>2
  <2>3. QED
    BY <1>3, <1>5, <2>1, <2>2
<1>8. m = 0 => Pipe!Contents = <<>>
  BY <1>1, <1>5
<1>9. Pipe!Stream!Read(m)
  BY <1>1, <1>3, <1>4, <1>5, <1>6, <1>7, <1>8 DEF Pipe!Stream!Read
<1>10. QED
  BY <1>1, <1>3, <1>9 DEF Pipe!Stream!Next

(* pipeclose closes an end of the stream when it was the last              *)
(* (pipe.c:60-75), and otherwise is not visible.                           *)
LEMMA CloseCloses ==
  ASSUME PipeInv, NEW p \in Pipers, NEW writable \in BOOLEAN, Pipe!pipeclose(p,
    writable)
  PROVE  [Pipe!Stream!Next]_(Pipe!Stream!vars)
<1>1. UNCHANGED <<Pipe!Contents, next, pgot>>
  BY Zenon DEF Pipe!pipeclose, Pipe!ring, Pipe!Contents, Pipe!Used
<1>2. CASE writable
  BY Zenon, <1>1, <1>2 DEF Pipe!pipeclose, PipeInv, PipeEnds, Pipe!Stream!Next,
    Pipe!Stream!Close, Pipe!Stream!vars
<1>3. CASE ~writable
  BY Zenon, <1>1, <1>3 DEF Pipe!pipeclose, PipeInv, PipeEnds, Pipe!Stream!Next,
    Pipe!Stream!Close, Pipe!Stream!vars
<1>4. QED
  BY Zenon, <1>2, <1>3

(* A step that leaves the ring and the open ends alone is not visible in   *)
(* the stream.                                                             *)
LEMMA PipeOthersStutter ==
  ASSUME UNCHANGED <<data, nread, nwrite, readopen, writeopen, next, pgot>>
  PROVE  UNCHANGED Pipe!Stream!vars
BY Zenon DEF Pipe!Stream!vars, Pipe!Contents, Pipe!Used

(* Every step of a pipe is one of the byte stream, or not visible in it. *)
LEMMA StreamStep ==
  ASSUME PipeInv, PipeInv', [Pipe!Next]_(Pipe!vars)
  PROVE  [Pipe!Stream!Next]_(Pipe!Stream!vars)
<1>1. ASSUME NEW p \in Pipers, NEW k \in 1..PipeMaxN, Pipe!pipewrite(p, k) \/
      Pipe!piperead(p, k)
      PROVE  UNCHANGED Pipe!Stream!vars
  BY Zenon, <1>1, PipeOthersStutter DEF Pipe!pipewrite, Pipe!piperead, Pipe!ring, Pipe!ends
<1>2. ASSUME NEW p \in Pipers, Pipe!pipewrite_loop(p) PROVE
      [Pipe!Stream!Next]_(Pipe!Stream!vars)
  BY Zenon, <1>2, PipeLoopWrites
<1>3. ASSUME NEW p \in Pipers, Pipe!pipewrite_sleep(p) \/ Pipe!piperead_sleep(p) \/
      Pipe!piperead_wait(p) \/ Pipe!kill(p)
      PROVE  UNCHANGED Pipe!Stream!vars
  BY Zenon, <1>3, PipeOthersStutter DEF Pipe!pipewrite_sleep, Pipe!piperead_sleep,
    Pipe!piperead_wait, Pipe!kill, Pipe!ring, Pipe!ends
<1>4. ASSUME NEW p \in Pipers, Pipe!piperead_copy(p) PROVE Pipe!Stream!Next
  BY Zenon, <1>4, PipeCopyReads
<1>5. ASSUME NEW p \in Pipers, NEW writable \in BOOLEAN, Pipe!pipeclose(p, writable)
      PROVE  [Pipe!Stream!Next]_(Pipe!Stream!vars)
  BY Zenon, <1>5, CloseCloses
<1>6. CASE UNCHANGED Pipe!vars
  BY Zenon, <1>6, PipeOthersStutter DEF Pipe!vars, Pipe!ring, Pipe!ends
<1>7. QED
  BY <1>1, <1>2, <1>3, <1>4, <1>5, <1>6, Zenon DEF Pipe!Next, Pipe!Finished

(* pipe.c implements the byte stream: bytes arrive once and in order, also *)
(* where nread and nwrite wrap, and an end of file comes only when no      *)
(* writer is left.                                                         *)
THEOREM PipeRefines == Pipe!Spec => Pipe!ImplementsByteStream
<1>1. Pipe!Init => Pipe!Stream!Init
  <2> SUFFICES ASSUME Pipe!Init PROVE Pipe!Stream!Init
    BY Zenon
  <2>1. Pipe!Used = 0
    BY PipeUint DEF Pipe!Init, Pipe!Used
  <2>2. Pipe!Contents = <<>>
    BY <2>1 DEF Pipe!Contents
  <2>3. QED
    BY Zenon, <2>2 DEF Pipe!Init, Pipe!Stream!Init
<1>2. PipeInv /\ PipeInv' /\ [Pipe!Next]_(Pipe!vars) => [Pipe!Stream!Next]_(Pipe!Stream!vars)
  BY Zenon, StreamStep
<1>3. QED
  BY <1>1, <1>2, PipeInvariant, PTL DEF Pipe!Spec, Pipe!ImplementsByteStream,
    Pipe!Stream!Spec

-----------------------------------------------------------------------------
(* The input of the console. *)


(* What Append does, for the provers. *)
LEMMA AppendOne ==
  ASSUME NEW S, NEW s \in Seq(S), NEW c \in S
  PROVE  /\ Append(s, c) \in Seq(S) /\ Len(Append(s, c)) = Len(s) + 1
         /\ \A i \in 1..Len(s) : Append(s, c)[i] = s[i]
         /\ Append(s, c)[Len(s) + 1] = c
OBVIOUS

(* A set of natural numbers has a least one. *)
LEMMA LeastOf ==
  ASSUME NEW T \in SUBSET Nat, T # {}
  PROVE  \E m \in T : \A k \in T : m <= k
<1> DEFINE Less == {ss \in Nat \X Nat : ss[1] < ss[2]}
<1>1. IsWellFoundedOn(Less, Nat)
  BY NatLessThanWellFounded, Zenon DEF OpToRel
<1>2. \A x, y \in Nat : y < x => <<y, x>> \in Less
  BY Zenon DEF Less
<1> HIDE DEF Less
<1>3. PICK m \in T : \A y \in T : ~(<<y, m>> \in Less)
  BY <1>1, WFMin, Zenon
<1>4. ASSUME NEW k \in T PROVE m <= k
  <2>1. k \in Nat /\ m \in Nat
    BY Zenon
  <2>2. ~(k < m)
    BY <1>2, <1>3, <2>1, Zenon
  <2>3. QED
    BY <2>1, <2>2
<1>5. QED
  BY Zenon, <1>4

-----------------------------------------------------------------------------
(* The console. *)

(* The slot of the ring that is k places after the index x. *)
InSlot(x, k) == Cons!uint(x + k) % INPUT_BUF

(* The arithmetic of input.r, input.w and input.e (console.c:226, 230):    *)
(* unsigned, so that sums and differences wrap.                            *)
LEMMA ConsUint ==
  /\ Cons!Wrap \in Nat \ {0} /\ INPUT_BUF \in Nat \ {0} /\ INPUT_BUF < Cons!Wrap
  /\ \A x \in Int : Cons!uint(x) \in 0..Cons!Wrap-1
  /\ \A x \in 0..Cons!Wrap-1 : Cons!uint(x) = x
  /\ \A x, y \in 0..Cons!Wrap-1 : Cons!uint(y - x) = IF y >= x THEN y - x ELSE y - x + Cons!Wrap
  /\ \A x \in 0..Cons!Wrap-1, k \in 0..Cons!Wrap :
       Cons!uint(x + k) = IF x + k < Cons!Wrap THEN x + k ELSE x + k - Cons!Wrap
<1>1. Cons!Wrap \in Nat \ {0} /\ INPUT_BUF \in Nat \ {0} /\ INPUT_BUF < Cons!Wrap
  BY ConsoleAssumption DEF Cons!ConsoleConstants
<1>2. QED
  BY <1>1, RingUint, Zenon DEF Cons!uint

(* The slots input.buf[x % INPUT_BUF] (console.c:228, 262): less than      *)
(* INPUT_BUF places apart they differ, and they can be counted from any    *)
(* index.                                                                  *)
LEMMA ConsSlot ==
  /\ \A x, k \in Int : InSlot(x, k) \in 0..INPUT_BUF-1
  /\ \A x, j, k \in Int :
       InSlot(x, j) = InSlot(x, k) /\ j - k < INPUT_BUF /\ k - j < INPUT_BUF => j = k
  /\ \A x, y \in 0..Cons!Wrap-1, j \in Int : InSlot(y, j) = InSlot(x, Cons!uint(y - x) + j)
<1>1. Cons!Wrap \in Nat \ {0} /\ INPUT_BUF \in Nat \ {0} /\ Cons!Wrap % INPUT_BUF = 0
  BY ConsoleAssumption DEF Cons!ConsoleConstants
<1>2. \A x, k \in Int : InSlot(x, k) \in 0..INPUT_BUF-1
  BY <1>1, RingSlot, Zenon DEF InSlot, Cons!uint
<1>3. \A x, j, k \in Int :
        InSlot(x, j) = InSlot(x, k) /\ j - k < INPUT_BUF /\ k - j < INPUT_BUF => j = k
  BY <1>1, RingSlot, Zenon DEF InSlot, Cons!uint
<1>4. ASSUME NEW x \in 0..Cons!Wrap-1, NEW y \in 0..Cons!Wrap-1, NEW j \in Int
      PROVE  InSlot(y, j) = InSlot(x, Cons!uint(y - x) + j)
  <2>1. (y + j) % Cons!Wrap = (x + ((y - x) % Cons!Wrap) + j) % Cons!Wrap
    <3>1. Cons!Wrap \in Nat \ {0}
      BY Zenon, <1>1
    <3>2. QED
      BY Zenon, <3>1, RingShift
  <2>2. (y - x) % Cons!Wrap \in Int
    BY <1>1
  <2>3. x + ((y - x) % Cons!Wrap) + j = x + (((y - x) % Cons!Wrap) + j)
    BY <1>1, <2>2
  <2>4. QED
    BY <2>1, <2>3, Zenon DEF InSlot, Cons!uint
<1>5. QED
  BY <1>2, <1>3, <1>4, Zenon

(* Three indices that follow each other in the ring. *)
LEMMA ConsCount ==
  ASSUME NEW x \in 0..Cons!Wrap-1, NEW y \in 0..Cons!Wrap-1, NEW z \in 0..Cons!Wrap-1,
         Cons!uint(y - x) + Cons!uint(z - y) <= INPUT_BUF
  PROVE  /\ Cons!uint(y - x) \in 0..INPUT_BUF /\ Cons!uint(z - y) \in 0..INPUT_BUF
         /\ Cons!uint(z - x) = Cons!uint(y - x) + Cons!uint(z - y)
         /\ Cons!uint(y - x) = 0 <=> x = y
         /\ Cons!uint(z - y) = 0 <=> y = z
         /\ Cons!uint(z - x) = INPUT_BUF <=> z = Cons!uint(x + INPUT_BUF)
<1>1. Cons!Wrap \in Nat \ {0} /\ INPUT_BUF \in Nat \ {0} /\ INPUT_BUF < Cons!Wrap
  BY Zenon, ConsUint
<1>2. /\ Cons!uint(y - x) = IF y >= x THEN y - x ELSE y - x + Cons!Wrap
      /\ Cons!uint(z - y) = IF z >= y THEN z - y ELSE z - y + Cons!Wrap
      /\ Cons!uint(z - x) = IF z >= x THEN z - x ELSE z - x + Cons!Wrap
  BY Zenon, <1>1, ConsUint
<1>3. Cons!uint(x + INPUT_BUF) = IF x + INPUT_BUF < Cons!Wrap THEN x + INPUT_BUF
                              ELSE x + INPUT_BUF - Cons!Wrap
  <2>1. INPUT_BUF \in 0..Cons!Wrap
    BY <1>1
  <2>2. QED
    BY <2>1, ConsUint, Zenon
<1>4. QED
  BY <1>1, <1>2, <1>3

(* The index k places on, seen from one behind it ... *)
LEMMA ConsAhead ==
  ASSUME NEW x \in 0..Cons!Wrap-1, NEW y \in 0..Cons!Wrap-1, NEW k \in 0..INPUT_BUF,
         Cons!uint(x - y) + k < Cons!Wrap
  PROVE  Cons!uint(x + k) \in 0..Cons!Wrap-1 /\ Cons!uint(Cons!uint(x + k) - y) = Cons!uint(x - y) + k
<1>1. Cons!Wrap \in Nat \ {0} /\ INPUT_BUF \in Nat \ {0} /\ INPUT_BUF < Cons!Wrap /\ k \in 0..Cons!Wrap
  BY ConsUint
<1>2. /\ Cons!uint(x - y) = IF x >= y THEN x - y ELSE x - y + Cons!Wrap
      /\ Cons!uint(x + k) = IF x + k < Cons!Wrap THEN x + k ELSE x + k - Cons!Wrap
  BY <1>1, ConsUint, Zenon
<1>3. PICK u \in 0..Cons!Wrap-1 : u = Cons!uint(x + k)
  BY <1>1, <1>2
<1>4. Cons!uint(u - y) = IF u >= y THEN u - y ELSE u - y + Cons!Wrap
  BY ConsUint, Zenon
<1>5. QED
  BY <1>1, <1>2, <1>3, <1>4

(* ... and from one ahead of it ... *)
LEMMA ConsBehind ==
  ASSUME NEW x \in 0..Cons!Wrap-1, NEW y \in 0..Cons!Wrap-1, NEW k \in 0..INPUT_BUF,
         k <= Cons!uint(y - x)
  PROVE  Cons!uint(x + k) \in 0..Cons!Wrap-1 /\ Cons!uint(y - Cons!uint(x + k)) = Cons!uint(y - x) - k
<1>1. Cons!Wrap \in Nat \ {0} /\ INPUT_BUF \in Nat \ {0} /\ INPUT_BUF < Cons!Wrap /\ k \in 0..Cons!Wrap
  BY ConsUint
<1>2. /\ Cons!uint(y - x) = IF y >= x THEN y - x ELSE y - x + Cons!Wrap
      /\ Cons!uint(x + k) = IF x + k < Cons!Wrap THEN x + k ELSE x + k - Cons!Wrap
  BY <1>1, ConsUint, Zenon
<1>3. PICK u \in 0..Cons!Wrap-1 : u = Cons!uint(x + k)
  BY <1>1, <1>2
<1>4. Cons!uint(y - u) = IF y >= u THEN y - u ELSE y - u + Cons!Wrap
  BY ConsUint, Zenon
<1>5. QED
  BY <1>1, <1>2, <1>3, <1>4

(* ... and the index k places back. *)
LEMMA ConsBack ==
  ASSUME NEW x \in 0..Cons!Wrap-1, NEW y \in 0..Cons!Wrap-1, NEW k \in 0..INPUT_BUF,
         k <= Cons!uint(x - y)
  PROVE  Cons!uint(x - k) \in 0..Cons!Wrap-1 /\ Cons!uint(Cons!uint(x - k) - y) = Cons!uint(x - y) - k
<1>1. Cons!Wrap \in Nat \ {0} /\ INPUT_BUF \in Nat \ {0} /\ INPUT_BUF < Cons!Wrap /\ k \in 0..Cons!Wrap-1
  BY ConsUint
<1>2. /\ Cons!uint(x - y) = IF x >= y THEN x - y ELSE x - y + Cons!Wrap
      /\ Cons!uint(x - k) = IF x >= k THEN x - k ELSE x - k + Cons!Wrap
  BY <1>1, ConsUint, Zenon
<1>3. PICK v \in 0..Cons!Wrap-1 : v = Cons!uint(x - k)
  BY <1>1, <1>2
<1>4. Cons!uint(v - y) = IF v >= y THEN v - y ELSE v - y + Cons!Wrap
  BY ConsUint, Zenon
<1>5. QED
  BY <1>1, <1>2, <1>3, <1>4

(* The types of the ring, and of the readers and their calls. *)
ConsRing ==
  /\ buf \in [0..INPUT_BUF-1 -> Chars \cup {"nul"}]
  /\ r \in 0..Cons!Wrap-1 /\ w \in 0..Cons!Wrap-1 /\ e \in 0..Cons!Wrap-1
  /\ Cons!uint(w - r) + Cons!uint(e - w) <= INPUT_BUF

ConsCalls ==
  /\ clock \in Typists \cup {0}
  /\ cstate \in [Typists -> {"RUNNABLE", "SLEEPING"}]
  /\ ckilled \in [Typists -> {0, 1}]
  /\ cpc \in [Typists -> {"idle", "read", "sleep"}]
  /\ cn \in [Typists -> 0..ConsMaxN] /\ target \in [Typists -> 0..ConsMaxN]
  /\ \A p \in Typists : cn[p] <= target[p]
  /\ owed \subseteq Typists

(* On the way to sleep a reader has cons.lock, and a reason. *)
ConsWait ==
  \A p \in Typists :
    /\ cpc[p] = "sleep" => clock = p /\ r = w
    /\ cstate[p] = "SLEEPING" => cpc[p] = "read"

ConsInv ==
  /\ ConsRing /\ ConsCalls /\ ConsWait
  /\ Cons!SleepsForAReason /\ Cons!FullIsReadable /\ Cons!EofForItsReader

(* The ring of the console starts empty and without readers. *)
LEMMA ConsInit ==
  ASSUME Cons!Init
  PROVE  ConsInv
<1>1. Cons!Wrap \in Nat \ {0} /\ INPUT_BUF \in Nat \ {0} /\ Cons!uint(0) = 0
  BY ConsUint
<1>2. ConsRing
  BY <1>1 DEF Cons!Init, ConsRing
<1>3. ConsCalls
  BY ConsoleAssumption DEF Cons!ConsoleConstants, Cons!Init, ConsCalls
<1>4. Cons!FullIsReadable
  BY Zenon, <1>1 DEF Cons!Init, Cons!FullIsReadable
<1>5. QED
  BY Zenon, <1>2, <1>3, <1>4 DEF Cons!Init, ConsInv, ConsWait, Cons!SleepsForAReason,
    Cons!EofForItsReader

(* How much of the ring is a line that can be read, or is being typed. *)
LEMMA ConsLengths ==
  ASSUME ConsRing
  PROVE  /\ Cons!uint(w - r) \in 0..INPUT_BUF /\ Cons!uint(e - w) \in 0..INPUT_BUF
         /\ Cons!uint(w - r) + Cons!uint(e - w) <= INPUT_BUF
         /\ Cons!uint(e - r) = Cons!uint(w - r) + Cons!uint(e - w)
         /\ Cons!uint(w - r) = 0 <=> r = w
         /\ Cons!uint(e - w) = 0 <=> w = e
         /\ INPUT_BUF \in Nat \ {0} /\ Cons!Wrap \in Nat \ {0} /\ INPUT_BUF < Cons!Wrap
<1>1. /\ r \in 0..Cons!Wrap-1 /\ w \in 0..Cons!Wrap-1 /\ e \in 0..Cons!Wrap-1
      /\ Cons!uint(w - r) + Cons!uint(e - w) <= INPUT_BUF
  BY Zenon DEF ConsRing
<1>2. /\ Cons!uint(w - r) \in 0..INPUT_BUF /\ Cons!uint(e - w) \in 0..INPUT_BUF
      /\ Cons!uint(e - r) = Cons!uint(w - r) + Cons!uint(e - w)
      /\ Cons!uint(w - r) = 0 <=> r = w
      /\ Cons!uint(e - w) = 0 <=> w = e
  BY <1>1, ConsCount
<1>3. QED
  BY <1>1, <1>2, ConsUint, Zenon

(* The character consoleread finds k places on (console.c:262). *)
LEMMA PeekSlot ==
  ASSUME NEW k \in Int
  PROVE  Cons!Peek(k) = buf[InSlot(r, k)] /\ Cons!Peek(k)' = buf'[InSlot(r', k)]
BY DEF Cons!Peek, InSlot

(* A character stored: it goes behind the others, which stay. *)
LEMMA StoreFacts ==
  ASSUME ConsRing, NEW c \in Chars \cup {"cr"}, Cons!store(c)
  PROVE  \E ch \in Chars :
           /\ ch = (IF c = "cr" THEN "nl" ELSE c)
           /\ Cons!uint(w - r) + Cons!uint(e - w) < INPUT_BUF
           /\ buf' \in [0..INPUT_BUF-1 -> Chars \cup {"nul"}]
           /\ e' \in 0..Cons!Wrap-1
           /\ Cons!uint(e' - r) = Cons!uint(w - r) + Cons!uint(e - w) + 1
           /\ Cons!uint(e' - w) = Cons!uint(e - w) + 1
           /\ \A k \in 0..Cons!uint(w - r) + Cons!uint(e - w) - 1 :
                buf'[InSlot(r, k)] = buf[InSlot(r, k)]
           /\ buf'[InSlot(r, Cons!uint(w - r) + Cons!uint(e - w))] = ch
           /\ e' = Cons!uint(r + INPUT_BUF) <=> Cons!uint(w - r) + Cons!uint(e - w) + 1 = INPUT_BUF
<1> DEFINE l == Cons!uint(w - r)
           t == Cons!uint(e - w)
<1>1. /\ l \in 0..INPUT_BUF /\ t \in 0..INPUT_BUF /\ Cons!uint(e - r) = l + t
      /\ INPUT_BUF \in Nat \ {0} /\ Cons!Wrap \in Nat \ {0} /\ INPUT_BUF < Cons!Wrap
      /\ r \in 0..Cons!Wrap-1 /\ w \in 0..Cons!Wrap-1 /\ e \in 0..Cons!Wrap-1
  BY ConsLengths DEF ConsRing
<1>2. PICK ch \in Chars : ch = (IF c = "cr" THEN "nl" ELSE c)
  BY Zenon, ConsoleAssumption DEF Cons!ConsoleConstants
<1>3. l + t < INPUT_BUF
  BY Zenon, <1>1 DEF Cons!store
<1>4. buf' = [buf EXCEPT ![e % INPUT_BUF] = ch] /\ e' = Cons!uint(e + 1)
  BY <1>2 DEF Cons!store
<1>5. e' \in 0..Cons!Wrap-1 /\ Cons!uint(e' - r) = l + t + 1 /\ Cons!uint(e' - w) = t + 1
  <2>1. 1 \in 0..INPUT_BUF /\ e \in 0..Cons!Wrap-1 /\ w \in 0..Cons!Wrap-1 /\ r \in 0..Cons!Wrap-1
    BY <1>1
  <2>2. Cons!uint(e - r) + 1 < Cons!Wrap /\ Cons!uint(e - w) + 1 < Cons!Wrap
    BY <1>1, <1>3
  <2>3. /\ Cons!uint(e + 1) \in 0..Cons!Wrap-1
        /\ Cons!uint(Cons!uint(e + 1) - r) = Cons!uint(e - r) + 1
        /\ Cons!uint(Cons!uint(e + 1) - w) = Cons!uint(e - w) + 1
    BY <2>1, <2>2, ConsAhead, Zenon
  <2>4. QED
    BY <1>1, <1>3, <1>4, <2>2, <2>3
<1>6. e % INPUT_BUF = InSlot(r, l + t)
  <2>1. InSlot(e, 0) = InSlot(r, Cons!uint(e - r) + 0)
    BY <1>1, ConsSlot
  <2>2. Cons!uint(e + 0) = e /\ Cons!uint(e - r) + 0 = l + t
    BY <1>1, ConsUint
  <2>3. QED
    BY Zenon, <2>1, <2>2 DEF InSlot
<1>7. PICK s \in 0..INPUT_BUF-1 : s = InSlot(r, l + t)
  <2>1. r \in Int /\ l + t \in Int
    BY <1>1
  <2>2. QED
    BY <2>1, ConsSlot, Zenon
<1>8. buf' = [buf EXCEPT ![s] = ch]
  BY Zenon, <1>4, <1>6, <1>7
<1>9. buf' \in [0..INPUT_BUF-1 -> Chars \cup {"nul"}] /\ buf'[s] = ch
  BY <1>8 DEF ConsRing
<1>10. ASSUME NEW k \in 0..l + t - 1 PROVE buf'[InSlot(r, k)] = buf[InSlot(r, k)]
  <2>1. InSlot(r, k) # s
    <3>1. r \in Int /\ k \in Int /\ l + t \in Int
          /\ k - (l + t) < INPUT_BUF /\ (l + t) - k < INPUT_BUF /\ k # l + t
      BY <1>1, <1>3
    <3>2. QED
      BY <1>7, <3>1, ConsSlot, Zenon
  <2>2. QED
    BY <1>8, <2>1 DEF ConsRing
<1>11. e' = Cons!uint(r + INPUT_BUF) <=> l + t + 1 = INPUT_BUF
  <2>1. Cons!uint(r - r) = 0 /\ Cons!uint(r - r) + Cons!uint(e' - r) <= INPUT_BUF
    BY <1>1, <1>3, <1>5, ConsUint
  <2>2. Cons!uint(e' - r) = INPUT_BUF <=> e' = Cons!uint(r + INPUT_BUF)
    BY <1>1, <1>5, <2>1, ConsCount
  <2>3. QED
    BY <1>5, <2>2
<1>12. QED
  BY <1>2, <1>3, <1>5, <1>7, <1>9, <1>10, <1>11

(* The steps that leave the ring alone. *)
LEMMA ConsRingUnchanged ==
  ASSUME ConsRing, Cons!FullIsReadable, UNCHANGED <<buf, r, w, e>>
  PROVE  ConsRing' /\ Cons!FullIsReadable' /\ (Cons!EofForItsReader /\ owed' = owed => Cons!EofForItsReader')
BY DEF ConsRing, Cons!FullIsReadable, Cons!EofForItsReader, Cons!Peek

(* consoleintr's store of a character (console.c:225-234) keeps the        *)
(* invariant: a line that can be read finds its readers awake, and a full  *)
(* ring can be read.                                                       *)
LEMMA ConsStoreStep ==
  ASSUME ConsInv, NEW c \in Chars \cup {"cr"}, Cons!store(c)
  PROVE  ConsInv'
<1> /\ ConsRing /\ ConsCalls /\ ConsWait
    /\ Cons!SleepsForAReason /\ Cons!FullIsReadable /\ Cons!EofForItsReader
  BY DEF ConsInv
<1> DEFINE l == Cons!uint(w - r)
           t == Cons!uint(e - w)
<1>1. /\ l \in 0..INPUT_BUF /\ t \in 0..INPUT_BUF
      /\ INPUT_BUF \in Nat \ {0} /\ Cons!Wrap \in Nat \ {0} /\ INPUT_BUF < Cons!Wrap
      /\ r \in 0..Cons!Wrap-1 /\ w \in 0..Cons!Wrap-1
      /\ (l = 0 <=> r = w)
  BY Zenon, ConsLengths DEF ConsRing
<1>2. PICK ch \in Chars :
           /\ ch = (IF c = "cr" THEN "nl" ELSE c)
           /\ l + t < INPUT_BUF
           /\ buf' \in [0..INPUT_BUF-1 -> Chars \cup {"nul"}]
           /\ e' \in 0..Cons!Wrap-1
           /\ Cons!uint(e' - r) = l + t + 1
           /\ Cons!uint(e' - w) = t + 1
           /\ \A k \in 0..l + t - 1 : buf'[InSlot(r, k)] = buf[InSlot(r, k)]
           /\ e' = Cons!uint(r + INPUT_BUF) <=> l + t + 1 = INPUT_BUF
  BY Zenon, StoreFacts
<1>3. clock = 0 /\ \A p \in Typists : cpc[p] # "sleep"
  BY ConsoleAssumption DEF Cons!ConsoleConstants, ConsWait, Cons!store
<1>4. UNCHANGED <<r, clock, ckilled, cpc, cn, target, cgot, owed>>
  BY DEF Cons!store
<1>5. Cons!EofForItsReader' \/ owed = {} \/ r' = w'
  <2>1. ASSUME owed # {} PROVE Cons!Peek(0)' = "eof"
    <3>1. 0 \in 0..l + t - 1
      BY <1>1, <2>1 DEF Cons!EofForItsReader
    <3>2. QED
      BY <1>2, <1>4, <2>1, <3>1, PeekSlot DEF Cons!EofForItsReader
  <2>2. QED
    BY Zenon, <1>4, <2>1 DEF Cons!EofForItsReader
<1>6. CASE /\ ch \in Cons!Ends \/ e' = Cons!uint(r + INPUT_BUF)
           /\ w' = e'
           /\ cstate' = [p \in Typists |-> IF cpc[p] = "read" THEN "RUNNABLE" ELSE cstate[p]]
  <2>1. Cons!uint(w' - r') = l + t + 1 /\ Cons!uint(e' - w') = 0
    BY <1>1, <1>2, <1>4, <1>6, ConsUint
  <2>2. r' # w'
    <3>1. Cons!uint(r - r) = 0
      BY <1>1, ConsUint
    <3>2. QED
      BY <1>1, <1>4, <2>1, <3>1
  <2>3. ConsRing'
    <3>1. Cons!uint(w' - r') + Cons!uint(e' - w') <= INPUT_BUF
      BY <1>1, <1>2, <2>1
    <3>2. QED
      BY <1>1, <1>2, <1>4, <1>6, <3>1 DEF ConsRing
  <2>4. ConsCalls' /\ ConsWait' /\ Cons!SleepsForAReason'
    BY <1>3, <1>4, <1>6 DEF ConsCalls, ConsWait, Cons!SleepsForAReason
  <2>5. Cons!FullIsReadable' /\ Cons!EofForItsReader'
    BY Zenon, <1>4, <1>5, <1>6, <2>2 DEF Cons!FullIsReadable, Cons!EofForItsReader
  <2>6. QED
    BY Zenon, <2>3, <2>4, <2>5 DEF ConsInv
<1>7. CASE e' # Cons!uint(r + INPUT_BUF) /\ UNCHANGED <<w, cstate>>
  <2>1. ConsRing'
    <3>1. Cons!uint(w' - r') + Cons!uint(e' - w') <= INPUT_BUF
      BY <1>1, <1>2, <1>4, <1>7
    <3>2. QED
      BY <1>1, <1>2, <1>4, <1>7, <3>1 DEF ConsRing
  <2>2. ConsCalls' /\ ConsWait' /\ Cons!SleepsForAReason'
    BY <1>3, <1>4, <1>7 DEF ConsCalls, ConsWait, Cons!SleepsForAReason
  <2>3. Cons!FullIsReadable'
    BY Zenon, <1>1, <1>2, <1>4, <1>7 DEF Cons!FullIsReadable
  <2>4. Cons!EofForItsReader'
    BY <1>4, <1>5, <1>7 DEF Cons!EofForItsReader
  <2>5. QED
    BY <2>1, <2>2, <2>3, <2>4 DEF ConsInv
<1>8. QED
  BY Zenon, <1>2, <1>6, <1>7 DEF Cons!store

(* Backspace and ^U move the edit index back, not past the write index. *)
LEMMA EraseFacts ==
  ASSUME ConsRing, Cons!backspace \/ Cons!kill_line
  PROVE  \E k \in 0..Cons!uint(e - w) :
           /\ e' = Cons!uint(e - k) /\ e' \in 0..Cons!Wrap-1
           /\ Cons!uint(e' - w) = Cons!uint(e - w) - k
           /\ UNCHANGED <<buf, r, w, clock, cstate, ckilled, cpc, cn, target, cgot, owed>>
<1>1. /\ Cons!uint(e - w) \in 0..INPUT_BUF /\ INPUT_BUF \in Nat /\ (Cons!uint(e - w) = 0 <=> w = e)
      /\ w \in 0..Cons!Wrap-1 /\ e \in 0..Cons!Wrap-1
  BY Zenon, ConsLengths DEF ConsRing
<1>2. PICK k \in 0..Cons!uint(e - w) : e' = Cons!uint(e - k)
  <2>1. CASE Cons!backspace
    <3>1. 1 \in 0..Cons!uint(e - w)
      BY <1>1, <2>1 DEF Cons!backspace
    <3>2. QED
      BY Zenon, <2>1, <3>1 DEF Cons!backspace
  <2>2. CASE Cons!kill_line
    BY <2>2 DEF Cons!kill_line
  <2>3. QED
    BY <2>1, <2>2
<1>3. k \in 0..INPUT_BUF /\ k <= Cons!uint(e - w)
  BY <1>1
<1>4. Cons!uint(e - k) \in 0..Cons!Wrap-1 /\ Cons!uint(Cons!uint(e - k) - w) = Cons!uint(e - w) - k
  BY <1>1, <1>3, ConsBack, Zenon
<1>5. UNCHANGED <<buf, r, w, clock, cstate, ckilled, cpc, cn, target, cgot, owed>>
  BY Zenon DEF Cons!backspace, Cons!kill_line
<1>6. QED
  BY <1>2, <1>4, <1>5

(* Backspace and ^U (console.c:212-224) keep the invariant. *)
LEMMA ConsEraseStep ==
  ASSUME ConsInv, Cons!backspace \/ Cons!kill_line
  PROVE  ConsInv'
<1> /\ ConsRing /\ ConsCalls /\ ConsWait
    /\ Cons!SleepsForAReason /\ Cons!FullIsReadable /\ Cons!EofForItsReader
  BY Zenon DEF ConsInv
<1>1. PICK k \in 0..Cons!uint(e - w) :
           /\ e' = Cons!uint(e - k) /\ e' \in 0..Cons!Wrap-1
           /\ Cons!uint(e' - w) = Cons!uint(e - w) - k
           /\ UNCHANGED <<buf, r, w, clock, cstate, ckilled, cpc, cn, target, cgot, owed>>
  BY Zenon, EraseFacts
<1>2. /\ Cons!uint(w - r) \in 0..INPUT_BUF /\ Cons!uint(e - w) \in 0..INPUT_BUF
      /\ Cons!uint(w - r) + Cons!uint(e - w) <= INPUT_BUF
      /\ Cons!uint(e - r) = Cons!uint(w - r) + Cons!uint(e - w)
      /\ INPUT_BUF \in Nat /\ w # e
      /\ r \in 0..Cons!Wrap-1 /\ w \in 0..Cons!Wrap-1 /\ e \in 0..Cons!Wrap-1
  BY ConsLengths DEF ConsRing, Cons!backspace, Cons!kill_line
<1>3. Cons!uint(w - r) + Cons!uint(e' - w) <= INPUT_BUF
  BY <1>1, <1>2
<1>4. ConsRing'
  BY Zenon, <1>1, <1>3 DEF ConsRing
<1>5. Cons!FullIsReadable'
  <2>1. Cons!uint(e' - r) = Cons!uint(w - r) + Cons!uint(e' - w) /\ (Cons!uint(e' - w) = 0 <=> w = e')
    BY <1>1, <1>2, <1>3, ConsCount
  <2>2. k = 0 => e' = e
    BY <1>1, <1>2, ConsUint
  <2>3. Cons!uint(e' - r) = INPUT_BUF => w = e'
    BY <1>1, <1>2, <2>1, <2>2 DEF Cons!FullIsReadable
  <2>4. QED
    BY Zenon, <1>1, <2>3 DEF Cons!FullIsReadable
<1>6. ConsCalls' /\ ConsWait' /\ Cons!SleepsForAReason' /\ Cons!EofForItsReader'
  BY Zenon, <1>1 DEF ConsCalls, ConsWait, Cons!SleepsForAReason, Cons!EofForItsReader,
    Cons!Peek
<1>7. QED
  BY <1>4, <1>5, <1>6 DEF ConsInv

(* Entering consoleread keeps the invariant. *)
LEMMA ConsCallStep ==
  ASSUME ConsInv, NEW p \in Typists, NEW k \in 1..ConsMaxN, Cons!consoleread(p, k)
  PROVE  ConsInv'
<1> /\ ConsRing /\ ConsCalls /\ ConsWait
    /\ Cons!SleepsForAReason /\ Cons!FullIsReadable /\ Cons!EofForItsReader
  BY Zenon DEF ConsInv
<1>1. /\ UNCHANGED <<buf, r, w, e, clock, cstate, ckilled, cgot, owed>>
      /\ cpc[p] = "idle" /\ cstate[p] = "RUNNABLE"
      /\ cpc' = [cpc EXCEPT ![p] = "read"]
      /\ cn' = [cn EXCEPT ![p] = k] /\ target' = [target EXCEPT ![p] = k]
  BY Zenon DEF Cons!consoleread, Cons!input, Cons!At
<1>2. k \in 0..ConsMaxN /\ k <= k
  BY ConsoleAssumption DEF Cons!ConsoleConstants
<1>3. ConsRing' /\ Cons!FullIsReadable' /\ Cons!EofForItsReader'
  BY <1>1, ConsRingUnchanged
<1>4. ConsCalls'
  BY Zenon, <1>1, <1>2 DEF ConsCalls
<1>5. ConsWait' /\ Cons!SleepsForAReason'
  BY Zenon, <1>1 DEF ConsCalls, ConsWait, Cons!SleepsForAReason
<1>6. QED
  BY <1>3, <1>4, <1>5 DEF ConsInv

(* consoleread with nothing to read (console.c:254-260) keeps the          *)
(* invariant.                                                              *)
LEMMA ConsWaitStep ==
  ASSUME ConsInv, NEW p \in Typists, Cons!consoleread_wait(p)
  PROVE  ConsInv'
<1> /\ ConsRing /\ ConsCalls /\ ConsWait
    /\ Cons!SleepsForAReason /\ Cons!FullIsReadable /\ Cons!EofForItsReader
  BY Zenon DEF ConsInv
<1>1. /\ UNCHANGED <<buf, r, w, e, cstate, ckilled, cgot, owed>>
      /\ cpc[p] = "read" /\ cstate[p] = "RUNNABLE" /\ clock \in {0, p} /\ r = w
      /\ \/ /\ cpc' = [cpc EXCEPT ![p] = "idle"] /\ clock' = 0
            /\ cn' = [cn EXCEPT ![p] = 0] /\ target' = [target EXCEPT ![p] = 0]
         \/ /\ cpc' = [cpc EXCEPT ![p] = "sleep"] /\ clock' = p
            /\ cn' = cn /\ target' = target
  BY Zenon DEF Cons!consoleread_wait, Cons!return, Cons!input, Cons!At
<1>2. ConsRing' /\ Cons!FullIsReadable' /\ Cons!EofForItsReader'
  BY <1>1, ConsRingUnchanged
<1>3. ConsCalls'
  BY <1>1, ConsoleAssumption DEF Cons!ConsoleConstants, ConsCalls
<1>4. \A q \in Typists : cpc[q] # "sleep"
  BY Zenon, <1>1, ConsoleAssumption DEF Cons!ConsoleConstants, ConsWait
<1>5. ConsWait' /\ Cons!SleepsForAReason'
  BY Zenon, <1>1, <1>4 DEF ConsCalls, ConsWait, Cons!SleepsForAReason
<1>6. QED
  BY <1>2, <1>3, <1>5 DEF ConsInv

(* The sleep of consoleread (console.c:260) keeps the invariant: cons.lock *)
(* was held since the test, so there is still nothing to read.             *)
LEMMA ConsSleepStep ==
  ASSUME ConsInv, NEW p \in Typists, Cons!consoleread_sleep(p)
  PROVE  ConsInv'
<1> /\ ConsRing /\ ConsCalls /\ ConsWait
    /\ Cons!SleepsForAReason /\ Cons!FullIsReadable /\ Cons!EofForItsReader
  BY Zenon DEF ConsInv
<1>1. /\ UNCHANGED <<buf, r, w, e, ckilled, cn, target, cgot, owed>>
      /\ cpc[p] = "sleep" /\ clock' = 0
      /\ cpc' = [cpc EXCEPT ![p] = "read"]
      /\ cstate' = [cstate EXCEPT ![p] = "SLEEPING"]
  BY DEF Cons!consoleread_sleep, Cons!input, Cons!At
<1>2. ConsRing' /\ Cons!FullIsReadable' /\ Cons!EofForItsReader'
  BY <1>1, ConsRingUnchanged
<1>3. ConsCalls'
  BY Zenon, <1>1 DEF ConsCalls
<1>4. clock = p /\ r = w /\ \A q \in Typists \ {p} : cpc[q] # "sleep"
  BY <1>1 DEF ConsWait
<1>5. ConsWait' /\ Cons!SleepsForAReason'
  BY <1>1, <1>4 DEF ConsCalls, ConsWait, Cons!SleepsForAReason
<1>6. QED
  BY Zenon, <1>2, <1>3, <1>5 DEF ConsInv

(* kill keeps the invariant: it makes the process RUNNABLE. *)
LEMMA ConsKillStep ==
  ASSUME ConsInv, NEW p \in Typists, Cons!kill(p)
  PROVE  ConsInv'
<1> /\ ConsRing /\ ConsCalls /\ ConsWait
    /\ Cons!SleepsForAReason /\ Cons!FullIsReadable /\ Cons!EofForItsReader
  BY Zenon DEF ConsInv
<1>1. /\ UNCHANGED <<buf, r, w, e, clock, cpc, cn, target, cgot, owed>>
      /\ ckilled' = [ckilled EXCEPT ![p] = 1] /\ cstate' = [cstate EXCEPT ![p] = "RUNNABLE"]
  BY DEF Cons!kill, Cons!input
<1>2. ConsRing' /\ Cons!FullIsReadable' /\ Cons!EofForItsReader'
  BY <1>1, ConsRingUnchanged
<1>3. ConsCalls' /\ ConsWait' /\ Cons!SleepsForAReason'
  BY Zenon, <1>1 DEF ConsCalls, ConsWait, Cons!SleepsForAReason
<1>4. QED
  BY Zenon, <1>2, <1>3 DEF ConsInv

(* consoleread's loop stops at the first of: n characters copied, the end  *)
(* of what can be read, a ^D, and just after a newline.                    *)
LEMMA CopiedFacts ==
  ASSUME ConsRing, ConsCalls, NEW p \in Typists
  PROVE  LET most == Cons!Min2(cn[p], Cons!uint(w - r))
             m == Cons!Copied(p) IN
         /\ m \in 0..most
         /\ \A j \in 0..m-1 : Cons!Peek(j) # "eof" /\ (Cons!Peek(j) = "nl" => j = m - 1)
         /\ m = most \/ Cons!Peek(m) = "eof" \/ (m > 0 /\ Cons!Peek(m - 1) = "nl")
<1> DEFINE most == Cons!Min2(cn[p], Cons!uint(w - r))
           Stops(m) == m = most \/ Cons!Peek(m) = "eof" \/ (m > 0 /\ Cons!Peek(m - 1) = "nl")
           Plain(m) == \A j \in 0..m-1 : Cons!Peek(j) # "eof" /\ (Cons!Peek(j) = "nl" => j = m - 1)
           T == {m \in 0..most : Stops(m)}
<1>1. most \in Nat
  BY ConsLengths, ConsoleAssumption DEF Cons!ConsoleConstants, ConsCalls, Cons!Min2
<1> HIDE DEF most
<1>2. T \in SUBSET Nat /\ T # {}
  <2>1. most \in T
    BY <1>1
  <2>2. QED
    BY <1>1, <2>1
<1>3. PICK m \in T : \A k \in T : m <= k
  BY Zenon, <1>2, LeastOf
<1>4. m \in 0..most /\ Stops(m) /\ \A k \in 0..m-1 : ~Stops(k)
  BY <1>1, <1>3
<1>5. Plain(m)
  <2>1. ASSUME NEW j \in 0..m-1 PROVE Cons!Peek(j) # "eof"
    BY <1>4
  <2>2. ASSUME NEW j \in 0..m-1, Cons!Peek(j) = "nl", j # m - 1 PROVE FALSE
    <3>1. j + 1 \in 0..m-1 /\ j + 1 > 0 /\ (j + 1) - 1 = j
      BY <1>4, <2>2
    <3>2. Stops(j + 1)
      BY <2>2, <3>1
    <3>3. QED
      BY Zenon, <1>4, <3>1, <3>2
  <2>3. QED
    BY <2>1, <2>2
<1> HIDE DEF Stops, Plain
<1>6. \E k \in 0..most : Plain(k) /\ Stops(k)
  BY Zenon, <1>4, <1>5
<1>7. Cons!Copied(p) = CHOOSE k \in 0..most : Plain(k) /\ Stops(k)
  BY Zenon DEF Cons!Copied, most, Plain, Stops
<1>8. Cons!Copied(p) \in 0..most /\ Plain(Cons!Copied(p)) /\ Stops(Cons!Copied(p))
  BY <1>6, <1>7, Zenon
<1>9. QED
  BY <1>8 DEF most, Plain, Stops

(* What consoleread takes out of the ring: m ordinary characters, or the   *)
(* ^D alone; and what it leaves in front when it keeps a ^D.               *)
LEMMA ConsCopyFacts ==
  ASSUME ConsRing, ConsCalls, NEW p \in Typists, Cons!consoleread_copy(p)
  PROVE  \E m \in 0..Cons!uint(w - r), b \in {0, 1}, sv \in BOOLEAN :
           /\ m <= cn[p] /\ m + b <= Cons!uint(w - r)
           /\ \A j \in 0..m-1 : Cons!Peek(j) # "eof" /\ (Cons!Peek(j) = "nl" => j = m - 1)
           /\ r' = Cons!uint(r + (m + b))
           /\ b = 1 => m = 0 /\ Cons!Peek(0) = "eof" /\ cgot' = <<"eof">>
           /\ b = 0 => cgot' = [i \in 1..m |-> Cons!Peek(i - 1)]
           /\ owed' = IF sv THEN {p} ELSE {}
           /\ sv => b = 0 /\ m < Cons!uint(w - r) /\ Cons!Peek(m) = "eof"
           /\ \/ Cons!return(p)
              \/ cn' = [cn EXCEPT ![p] = @ - m] /\ clock' = p /\ UNCHANGED <<cpc, target>>
<1>1. /\ Cons!uint(w - r) \in 0..INPUT_BUF /\ INPUT_BUF \in Nat
      /\ r \in 0..Cons!Wrap-1 /\ w \in 0..Cons!Wrap-1 /\ Cons!Wrap \in Nat \ {0} /\ INPUT_BUF < Cons!Wrap
  BY ConsLengths DEF ConsRing
<1>2. cn[p] \in Nat /\ target[p] \in Nat /\ cn[p] <= target[p]
  BY ConsoleAssumption DEF Cons!ConsoleConstants, ConsCalls
<1> DEFINE most == Cons!Min2(cn[p], Cons!uint(w - r))
           M == Cons!Copied(p)
           nl == M > 0 /\ Cons!Peek(M - 1) = "nl"
           eof == ~nl /\ M < cn[p] /\ Cons!uint(r + M) # w
           saved == eof /\ cn[p] - M < target[p]
<1>3. /\ M \in 0..most
      /\ \A j \in 0..M-1 : Cons!Peek(j) # "eof" /\ (Cons!Peek(j) = "nl" => j = M - 1)
      /\ M = most \/ Cons!Peek(M) = "eof" \/ nl
  BY Zenon, CopiedFacts
<1>4. most \in Nat /\ most <= cn[p] /\ most <= Cons!uint(w - r) /\ most \in {cn[p],
      Cons!uint(w - r)}
  BY <1>1, <1>2 DEF Cons!Min2
<1>5. /\ cgot' = IF eof /\ ~saved THEN <<"eof">> ELSE [i \in 1..M |-> Cons!Peek(i - 1)]
      /\ r' = Cons!uint(r + M + (IF eof /\ ~saved THEN 1 ELSE 0))
      /\ \/ Cons!return(p)
         \/ cn' = [cn EXCEPT ![p] = @ - M] /\ clock' = p /\ UNCHANGED <<cpc, target>>
      /\ owed' = IF saved THEN {p} ELSE {}
  BY Zenon DEF Cons!consoleread_copy
<1> HIDE DEF most, M, nl
<1>6. M \in 0..Cons!uint(w - r) /\ M <= cn[p]
  <2>1. PICK u \in Nat : u = Cons!uint(w - r)
    BY <1>1
  <2>2. M \in Nat /\ M <= most /\ most \in Nat /\ most <= u /\ most <= cn[p]
    BY <1>3, <1>4, <2>1
  <2>3. M \in 0..u /\ M <= cn[p]
    BY <1>2, <2>2
  <2>4. QED
    BY <2>1, <2>3
<1>7. eof => M < Cons!uint(w - r) /\ Cons!Peek(M) = "eof"
  <2> SUFFICES ASSUME eof PROVE M < Cons!uint(w - r) /\ Cons!Peek(M) = "eof"
    BY Zenon
  <2>1. M # Cons!uint(w - r)
    <3>1. Cons!uint(w - r) = IF w >= r THEN w - r ELSE w - r + Cons!Wrap
      BY <1>1, ConsUint
    <3>2. \A k \in 0..Cons!Wrap : Cons!uint(r + k) = IF r + k < Cons!Wrap THEN r + k ELSE r + k - Cons!Wrap
      BY <1>1, ConsUint, Zenon
    <3>3. M \in 0..Cons!Wrap
      BY <1>1, <1>6
    <3>4. QED
      BY <1>1, <3>1, <3>2, <3>3
  <2>2. M # most
    BY <1>4, <2>1
  <2>3. QED
    BY <1>1, <1>3, <1>6, <2>1, <2>2
<1>8. eof /\ ~saved => M = 0
  BY <1>1, <1>2, <1>6
<1>9. PICK b \in {0, 1}, sv \in BOOLEAN :
        b = (IF eof /\ ~saved THEN 1 ELSE 0) /\ (sv <=> saved)
  <2>1. CASE eof /\ ~saved
    BY <2>1
  <2>2. CASE saved
    BY Zenon, <2>2
  <2>3. CASE ~eof
    BY <2>3
  <2>4. QED
    BY <2>1, <2>2, <2>3
<1>10. r' = Cons!uint(r + (M + b)) /\ M + b <= Cons!uint(w - r)
  <2>1. r + M + b = r + (M + b)
    <3>1. r \in Int /\ M \in Int
      BY <1>1, <1>6
    <3>2. QED
      BY <3>1
  <2>2. M + b <= Cons!uint(w - r)
    <3>1. PICK u \in Nat : u = Cons!uint(w - r)
      BY <1>1
    <3>2. M \in 0..u /\ (b = 1 => M < u)
      BY <1>6, <1>7, <1>9, <3>1
    <3>3. M + b <= u
      BY <3>2
    <3>4. QED
      BY Zenon, <3>1, <3>3
  <2>3. QED
    BY <1>5, <1>9, <2>1, <2>2
<1>11. b = 1 => M = 0 /\ Cons!Peek(0) = "eof" /\ cgot' = <<"eof">>
  BY <1>5, <1>7, <1>8, <1>9
<1>12. b = 0 => cgot' = [i \in 1..M |-> Cons!Peek(i - 1)]
  BY <1>5, <1>9
<1>13. owed' = (IF sv THEN {p} ELSE {}) /\ (sv => b = 0 /\ M < Cons!uint(w - r) /\ Cons!Peek(M) = "eof")
  BY <1>5, <1>7, <1>9
<1>14. QED
  BY <1>3, <1>5, <1>6, <1>10, <1>11, <1>12, <1>13

(* consoleread's loop (console.c:253-276) keeps the invariant: nobody      *)
(* sleeps while there is something to read, and a ^D that it gives back is *)
(* what it leaves in front.                                                *)
LEMMA ConsCopyStep ==
  ASSUME ConsInv, NEW p \in Typists, Cons!consoleread_copy(p)
  PROVE  ConsInv'
<1> /\ ConsRing /\ ConsCalls /\ ConsWait
    /\ Cons!SleepsForAReason /\ Cons!FullIsReadable /\ Cons!EofForItsReader
  BY Zenon DEF ConsInv
<1>1. PICK m \in 0..Cons!uint(w - r), b \in {0, 1}, sv \in BOOLEAN :
           /\ m <= cn[p] /\ m + b <= Cons!uint(w - r)
           /\ r' = Cons!uint(r + (m + b))
           /\ owed' = IF sv THEN {p} ELSE {}
           /\ sv => b = 0 /\ m < Cons!uint(w - r) /\ Cons!Peek(m) = "eof"
           /\ \/ Cons!return(p)
              \/ cn' = [cn EXCEPT ![p] = @ - m] /\ clock' = p /\ UNCHANGED <<cpc, target>>
  BY ConsCopyFacts
<1>2. /\ cpc[p] = "read" /\ cstate[p] = "RUNNABLE" /\ clock \in {0, p} /\ r # w
      /\ UNCHANGED <<buf, w, e, cstate, ckilled>>
  BY Zenon DEF Cons!consoleread_copy, Cons!At
<1>3. /\ Cons!uint(w - r) \in 0..INPUT_BUF /\ Cons!uint(e - w) \in 0..INPUT_BUF
      /\ Cons!uint(w - r) + Cons!uint(e - w) <= INPUT_BUF
      /\ Cons!uint(e - r) = Cons!uint(w - r) + Cons!uint(e - w)
      /\ INPUT_BUF \in Nat
      /\ r \in 0..Cons!Wrap-1 /\ w \in 0..Cons!Wrap-1 /\ e \in 0..Cons!Wrap-1
  BY ConsLengths DEF ConsRing
<1>4. r' \in 0..Cons!Wrap-1 /\ Cons!uint(w - r') = Cons!uint(w - r) - (m + b)
  <2>1. m + b \in 0..INPUT_BUF
    BY <1>1, <1>3
  <2>2. QED
    BY <1>1, <1>3, <2>1, ConsBehind, Zenon
<1>5. Cons!uint(w - r') + Cons!uint(e - w) <= INPUT_BUF
  BY <1>1, <1>3, <1>4
<1>6. ConsRing'
  BY Zenon, <1>2, <1>3, <1>4, <1>5 DEF ConsRing
<1>7. Cons!FullIsReadable'
  <2>1. Cons!uint(e - r') = Cons!uint(w - r') + Cons!uint(e - w)
    BY <1>3, <1>4, <1>5, ConsCount
  <2>2. Cons!uint(e - r') = INPUT_BUF => Cons!uint(e - r) = INPUT_BUF
    BY <1>1, <1>3, <1>4, <2>1
  <2>3. QED
    BY <1>2, <2>2 DEF Cons!FullIsReadable
<1>8. Cons!EofForItsReader'
  <2> SUFFICES ASSUME sv PROVE r' # w /\ Cons!Peek(0)' = "eof"
    BY <1>1, <1>2 DEF Cons!EofForItsReader
  <2>1. b = 0 /\ m < Cons!uint(w - r) /\ Cons!Peek(m) = "eof" /\ r' = Cons!uint(r + m)
    BY <1>1
  <2>2. r' # w
    <3>1. Cons!uint(w - r') = 0 <=> r' = w
      BY <1>3, <1>4, <1>5, ConsCount
    <3>2. QED
      BY <1>3, <1>4, <2>1, <3>1
  <2>3. Cons!uint(r' + 0) = r'
    BY <1>4, ConsUint
  <2>4. Cons!Peek(0)' = Cons!Peek(m)
    BY Zenon, <1>2, <2>1, <2>3 DEF Cons!Peek
  <2>5. QED
    BY Zenon, <2>1, <2>2, <2>4
<1>9. cn[p] \in 0..ConsMaxN /\ target[p] \in 0..ConsMaxN /\ cn[p] <= target[p] /\ ConsMaxN \in Nat
      /\ m \in Nat
  BY <1>3, ConsoleAssumption DEF Cons!ConsoleConstants, ConsCalls
<1>10. ConsCalls'
  <2>1. CASE Cons!return(p)
    BY <1>1, <1>2, <1>9, <2>1 DEF Cons!return, ConsCalls
  <2>2. CASE cn' = [cn EXCEPT ![p] = @ - m] /\ clock' = p /\ UNCHANGED <<cpc, target>>
    <3>1. cn[p] - m \in 0..ConsMaxN /\ cn[p] - m <= target[p]
      BY <1>1, <1>9
    <3>2. QED
      BY <1>1, <1>2, <2>2, <3>1 DEF ConsCalls
  <2>3. QED
    BY <1>1, <2>1, <2>2
<1>11. \A q \in Typists : cpc[q] # "sleep" /\ cstate[q] # "SLEEPING"
  BY <1>2 DEF ConsWait, Cons!SleepsForAReason
<1>12. ConsWait' /\ Cons!SleepsForAReason'
  <2>1. \A q \in Typists : cpc'[q] # "sleep"
    BY Zenon, <1>1, <1>2, <1>11 DEF Cons!return, ConsCalls
  <2>2. QED
    BY Zenon, <1>2, <1>11, <2>1 DEF ConsWait, Cons!SleepsForAReason
<1>13. QED
  BY <1>6, <1>7, <1>8, <1>10, <1>12 DEF ConsInv

(* Whatever happens next to the console keeps the invariant. *)
LEMMA ConsStep ==
  ASSUME ConsInv, [Cons!Next]_(Cons!vars)
  PROVE  ConsInv'
<1>1. ASSUME NEW c \in Chars \cup {"cr"}, Cons!store(c) PROVE ConsInv'
  BY Zenon, <1>1, ConsStoreStep
<1>2. ASSUME Cons!backspace \/ Cons!kill_line PROVE ConsInv'
  BY <1>2, ConsEraseStep
<1>3. ASSUME NEW p \in Typists, NEW k \in 1..ConsMaxN, Cons!consoleread(p, k) PROVE
      ConsInv'
  BY <1>3, ConsCallStep
<1>4. ASSUME NEW p \in Typists, Cons!consoleread_wait(p) PROVE ConsInv'
  BY Zenon, <1>4, ConsWaitStep
<1>5. ASSUME NEW p \in Typists, Cons!consoleread_sleep(p) PROVE ConsInv'
  BY <1>5, ConsSleepStep
<1>6. ASSUME NEW p \in Typists, Cons!consoleread_copy(p) PROVE ConsInv'
  BY Zenon, <1>6, ConsCopyStep
<1>7. ASSUME NEW p \in Typists, Cons!kill(p) PROVE ConsInv'
  BY Zenon, <1>7, ConsKillStep
<1>8. ASSUME UNCHANGED Cons!vars PROVE ConsInv'
  <2> /\ ConsRing /\ ConsCalls /\ ConsWait
      /\ Cons!SleepsForAReason /\ Cons!FullIsReadable /\ Cons!EofForItsReader
    BY DEF ConsInv
  <2>1. ConsRing' /\ Cons!FullIsReadable' /\ Cons!EofForItsReader'
    BY Zenon, <1>8, ConsRingUnchanged DEF Cons!vars, Cons!input
  <2>2. ConsCalls' /\ ConsWait' /\ Cons!SleepsForAReason'
    BY Zenon, <1>8 DEF Cons!vars, Cons!input, ConsCalls, ConsWait, Cons!SleepsForAReason
  <2>3. QED
    BY Zenon, <2>1, <2>2 DEF ConsInv
<1>9. QED
  BY <1>1, <1>2, <1>3, <1>4, <1>5, <1>6, <1>7, <1>8, Zenon DEF Cons!Next

(* The invariant holds in every state of the console, for any number of    *)
(* readers, any ring size and any width of the indices.                    *)
THEOREM ConsInvariant == Cons!Spec => []ConsInv
<1>1. ConsInv /\ [Cons!Next]_(Cons!vars) => ConsInv'
  BY Zenon, ConsStep
<1>2. Cons!Init => ConsInv
  BY Zenon, ConsInit
<1>3. QED
  BY <1>1, <1>2, PTL DEF Cons!Spec

(* The ring read as the line that can be read and the one being typed. *)
LEMMA LineFacts ==
  ASSUME ConsRing
  PROVE  /\ Cons!Line \in Seq(Chars \cup {"nul"}) /\ Len(Cons!Line) = Cons!uint(w - r)
         /\ Cons!Edit \in Seq(Chars \cup {"nul"}) /\ Len(Cons!Edit) = Cons!uint(e - w)
         /\ \A i \in 1..Cons!uint(w - r) : Cons!Line[i] = buf[InSlot(r, i - 1)]
         /\ \A i \in 1..Cons!uint(e - w) : Cons!Edit[i] = buf[InSlot(r, Cons!uint(w - r) + i - 1)]
<1>1. /\ Cons!uint(w - r) \in Nat /\ Cons!uint(e - w) \in Nat
      /\ r \in 0..Cons!Wrap-1 /\ w \in 0..Cons!Wrap-1 /\ r \in Int /\ w \in Int
  BY ConsLengths DEF ConsRing
<1>2. \A i \in 1..Cons!uint(w - r) : i - 1 \in Int
  OBVIOUS
<1>3. \A i \in 1..Cons!uint(w - r) : InSlot(r, i - 1) \in 0..INPUT_BUF-1
  BY <1>1, <1>2, ConsSlot, Zenon
<1>4. Cons!Line = [i \in 1..Cons!uint(w - r) |-> buf[InSlot(r, i - 1)]]
  BY Zenon DEF Cons!Line, Cons!Peek, InSlot
<1>5. \A i \in 1..Cons!uint(w - r) : buf[InSlot(r, i - 1)] \in Chars \cup {"nul"}
  BY <1>3 DEF ConsRing
<1>6. /\ Cons!Line \in Seq(Chars \cup {"nul"}) /\ Len(Cons!Line) = Cons!uint(w - r)
      /\ \A i \in 1..Cons!uint(w - r) : Cons!Line[i] = buf[InSlot(r, i - 1)]
  BY <1>1, <1>4, <1>5
<1>7. ASSUME NEW i \in 1..Cons!uint(e - w)
      PROVE  /\ Cons!uint(w + i - 1) % INPUT_BUF = InSlot(r, Cons!uint(w - r) + i - 1)
             /\ buf[InSlot(r, Cons!uint(w - r) + i - 1)] \in Chars \cup {"nul"}
  <2>1. i - 1 \in Int /\ w + i - 1 = w + (i - 1)
        /\ Cons!uint(w - r) + i - 1 = Cons!uint(w - r) + (i - 1) /\ Cons!uint(w - r) + i - 1 \in Int
    BY <1>1
  <2>2. InSlot(w, i - 1) = InSlot(r, Cons!uint(w - r) + (i - 1))
    BY <1>1, <2>1, ConsSlot, Zenon
  <2>3. InSlot(r, Cons!uint(w - r) + i - 1) \in 0..INPUT_BUF-1
    BY <1>1, <2>1, ConsSlot, Zenon
  <2>4. QED
    BY Zenon, <2>1, <2>2, <2>3 DEF InSlot, ConsRing
<1>8. Cons!Edit = [i \in 1..Cons!uint(e - w) |-> buf[InSlot(r, Cons!uint(w - r) + i
      - 1)]]
  BY <1>7 DEF Cons!Edit
<1>9. /\ Cons!Edit \in Seq(Chars \cup {"nul"}) /\ Len(Cons!Edit) = Cons!uint(e - w)
      /\ \A i \in 1..Cons!uint(e - w) : Cons!Edit[i] = buf[InSlot(r, Cons!uint(w - r) + i - 1)]
  BY <1>1, <1>7, <1>8, SMTT(40)
<1>10. QED
  BY <1>6, <1>9

(* ... also after a step. *)
LEMMA LineNext ==
  ASSUME ConsRing'
  PROVE  /\ Cons!Line' = [i \in 1..Cons!uint(w' - r') |-> buf'[InSlot(r', i - 1)]]
         /\ Cons!Edit' = [i \in 1..Cons!uint(e' - w') |-> buf'[InSlot(r', Cons!uint(w' - r') + i - 1)]]
<1>1. r' \in 0..Cons!Wrap-1 /\ w' \in 0..Cons!Wrap-1 /\ w' \in Int
  BY ConsUint DEF ConsRing
<1>2. Cons!uint(w' - r') \in Int
  <2>1. \A x, y \in 0..Cons!Wrap-1 : Cons!uint(y - x) = IF y >= x THEN y - x ELSE y - x + Cons!Wrap
    BY Zenon, ConsUint
  <2>2. QED
    BY <1>1, <2>1, ConsUint
<1>3. ASSUME NEW i \in 1..Cons!uint(e' - w')
      PROVE  Cons!uint(w' + i - 1) % INPUT_BUF = InSlot(r', Cons!uint(w' - r') + i -
        1)
  <2>1. i - 1 \in Int /\ w' + i - 1 = w' + (i - 1)
        /\ Cons!uint(w' - r') + i - 1 = Cons!uint(w' - r') + (i - 1)
    BY <1>1, <1>2
  <2>2. InSlot(w', i - 1) = InSlot(r', Cons!uint(w' - r') + (i - 1))
    BY <1>1, <2>1, ConsSlot, Zenon
  <2>3. QED
    BY Zenon, <2>1, <2>2 DEF InSlot
<1>4. QED
  BY Zenon, <1>3 DEF Cons!Line, Cons!Edit, Cons!Peek, InSlot

(* A character that is stored is typed. *)
LEMMA StoreTypes ==
  ASSUME ConsRing, ConsRing', NEW c \in Chars \cup {"cr"}, Cons!store(c)
  PROVE  Cons!Discipline!Next
<1> DEFINE l == Cons!uint(w - r)
           t == Cons!uint(e - w)
           CC == Chars \cup {"nul"}
<1>1. /\ l \in Nat /\ t \in Nat /\ INPUT_BUF \in Nat
      /\ r \in 0..Cons!Wrap-1 /\ w \in 0..Cons!Wrap-1 /\ Cons!Wrap \in Nat \ {0}
  <2>1. l \in 0..INPUT_BUF /\ t \in 0..INPUT_BUF /\ INPUT_BUF \in Nat \ {0} /\ Cons!Wrap \in Nat \ {0}
    BY Zenon, ConsLengths
  <2>2. r \in 0..Cons!Wrap-1 /\ w \in 0..Cons!Wrap-1
    BY Zenon DEF ConsRing
  <2> HIDE DEF l, t
  <2>3. QED
    BY <2>1, <2>2
<1>2. PICK ch \in Chars :
           /\ ch = (IF c = "cr" THEN "nl" ELSE c)
           /\ l + t < INPUT_BUF
           /\ e' \in 0..Cons!Wrap-1
           /\ Cons!uint(e' - r) = l + t + 1
           /\ Cons!uint(e' - w) = t + 1
           /\ \A k \in 0..l + t - 1 : buf'[InSlot(r, k)] = buf[InSlot(r, k)]
           /\ buf'[InSlot(r, l + t)] = ch
           /\ e' = Cons!uint(r + INPUT_BUF) <=> l + t + 1 = INPUT_BUF
  BY Zenon, StoreFacts
<1>3. /\ Cons!Line \in Seq(CC) /\ Len(Cons!Line) = l
      /\ Cons!Edit \in Seq(CC) /\ Len(Cons!Edit) = t
      /\ \A i \in 1..l : Cons!Line[i] = buf[InSlot(r, i - 1)]
      /\ \A i \in 1..t : Cons!Edit[i] = buf[InSlot(r, l + i - 1)]
  BY LineFacts
<1>4. UNCHANGED <<r, cgot>>
  BY DEF Cons!store
<1>5. /\ Cons!Line' = [i \in 1..Cons!uint(w' - r) |-> buf'[InSlot(r, i - 1)]]
      /\ Cons!Edit' = [i \in 1..Cons!uint(e' - w') |-> buf'[InSlot(r, Cons!uint(w' - r) + i - 1)]]
  BY Zenon, <1>4, LineNext
<1> HIDE DEF l, t, CC
<1>6. PICK new \in Seq(CC) :
        /\ new = Append(Cons!Edit, ch) /\ Len(new) = t + 1
        /\ \A i \in 1..t : new[i] = Cons!Edit[i]
        /\ new[t + 1] = ch
  <2>1. ch \in CC /\ Cons!Edit \in Seq(CC)
    BY <1>3 DEF CC
  <2>2. /\ Append(Cons!Edit, ch) \in Seq(CC) /\ Len(Append(Cons!Edit, ch)) = Len(Cons!Edit) + 1
        /\ \A i \in 1..Len(Cons!Edit) : Append(Cons!Edit, ch)[i] = Cons!Edit[i]
        /\ Append(Cons!Edit, ch)[Len(Cons!Edit) + 1] = ch
    BY <2>1, AppendOne, Zenon
  <2>3. QED
    BY <1>3, <2>2, Zenon
<1>7. ASSUME NEW i \in 1..t+1
      PROVE  buf'[InSlot(r, l + i - 1)] = new[i]
  <2>1. CASE i <= t
    <3>1. l + i - 1 \in 0..l + t - 1 /\ i \in 1..t
      BY <1>1, <2>1
    <3>2. QED
      BY <1>2, <1>3, <1>6, <3>1
  <2>2. CASE i = t + 1
    <3>1. l + i - 1 = l + t
      BY <1>1, <2>2
    <3>2. QED
      BY Zenon, <1>2, <1>6, <2>2, <3>1
  <2>3. i <= t \/ i = t + 1
    BY <1>1
  <2>4. QED
    BY <2>1, <2>2, <2>3, Zenon
<1>8. ASSUME NEW i \in 1..l PROVE buf'[InSlot(r, i - 1)] = Cons!Line[i]
  <2>1. i - 1 \in 0..l + t - 1
    BY <1>1
  <2>2. QED
    BY Zenon, <1>2, <1>3, <2>1
<1>9. CASE (ch \in Cons!Ends \/ e' = Cons!uint(r + INPUT_BUF)) /\ w' = e'
  <2>1. Cons!uint(w' - r) = l + t + 1 /\ Cons!uint(e' - w') = 0
    BY <1>2, <1>9, ConsUint, SMTT(40)
  <2>2. Cons!Edit' = <<>>
    BY <1>5, <2>1
  <2>3. Cons!Line' = Cons!Line \o new
    <3>1. Cons!Line \o new
            = [i \in 1..Len(Cons!Line) + Len(new) |->
                 IF i <= Len(Cons!Line) THEN Cons!Line[i] ELSE new[i - Len(Cons!Line)]]
      <4>1. Cons!Line \in Seq(CC) /\ new \in Seq(CC)
        BY <1>3, <1>6
      <4>2. QED
        BY <4>1, Concat, Zenon
    <3>2. Len(Cons!Line) + Len(new) = l + t + 1
      BY <1>1, <1>3, <1>6
    <3>3. ASSUME NEW i \in 1..l + t + 1
          PROVE  buf'[InSlot(r, i - 1)]
                   = IF i <= Len(Cons!Line) THEN Cons!Line[i] ELSE new[i - Len(Cons!Line)]
      <4>1. CASE i <= l
        BY <1>1, <1>3, <1>8, <4>1
      <4>2. CASE i > l
        <5>1. PICK k \in 1..t+1 : k = i - l
          BY <1>1, <4>2
        <5>2. l + k - 1 = i - 1
          BY <1>1, <5>1
        <5>3. buf'[InSlot(r, i - 1)] = new[i - l] /\ ~(i <= Len(Cons!Line))
          BY <1>1, <1>3, <1>7, <4>2, <5>1, <5>2
        <5>4. QED
          BY Zenon, <1>3, <5>3
      <4>3. i <= l \/ i > l
        BY <1>1
      <4>4. QED
        BY <4>1, <4>2, <4>3, Zenon
    <3>4. QED
      BY <1>5, <2>1, <3>1, <3>2, <3>3
  <2>4. ch \in Cons!Discipline!Ends \/ Len(Cons!Line) + Len(Cons!Edit) + 1 = INPUT_BUF
    BY <1>2, <1>3, <1>9 DEF Cons!Ends, Cons!Discipline!Ends
  <2>5. Cons!Discipline!Type(ch)
    BY <1>2, <1>3, <1>4, <1>6, <2>2, <2>3, <2>4 DEF Cons!Discipline!Type
  <2>6. QED
    BY <2>5 DEF Cons!Discipline!Next
<1>10. CASE ch \notin Cons!Ends /\ e' # Cons!uint(r + INPUT_BUF) /\ w' = w
  <2>1. Cons!uint(w' - r) = l /\ Cons!uint(e' - w') = t + 1
    BY <1>2, <1>10 DEF l
  <2>2. Cons!Line' = Cons!Line
    <3>1. Cons!Line = [i \in 1..l |-> Cons!Line[i]]
      BY <1>1, <1>3
    <3>2. QED
      BY Zenon, <1>5, <1>8, <2>1, <3>1
  <2>3. Cons!Edit' = new
    <3>1. new = [i \in 1..Len(new) |-> new[i]] /\ Len(new) = t + 1
      <4>1. \A a \in Seq(CC) : a = [i \in 1..Len(a) |-> a[i]]
        OBVIOUS
      <4>2. QED
        BY <1>6, <4>1, Zenon
    <3>2. QED
      BY <1>5, <1>7, <2>1, <3>1
  <2>4. ~(ch \in Cons!Discipline!Ends \/ Len(Cons!Line) + Len(Cons!Edit) + 1 = INPUT_BUF)
    BY Zenon, <1>2, <1>3, <1>10 DEF Cons!Ends, Cons!Discipline!Ends
  <2>5. Cons!Discipline!Type(ch)
    BY Zenon, <1>2, <1>3, <1>4, <1>6, <2>2, <2>3, <2>4 DEF Cons!Discipline!Type
  <2>6. QED
    BY Zenon, <2>5 DEF Cons!Discipline!Next
<1>11. QED
  BY <1>2, <1>9, <1>10 DEF Cons!store

(* Backspace and ^U rub out characters of the line being typed. *)
LEMMA EraseErases ==
  ASSUME ConsRing, ConsRing', Cons!backspace \/ Cons!kill_line
  PROVE  Cons!Discipline!Next
<1>1. PICK k \in 0..Cons!uint(e - w) :
           /\ Cons!uint(e' - w) = Cons!uint(e - w) - k
           /\ UNCHANGED <<buf, r, w, cgot>>
  BY EraseFacts
<1>2. /\ Cons!uint(e - w) \in Nat /\ Cons!uint(e - w) <= INPUT_BUF /\ INPUT_BUF \in Nat
  BY ConsLengths
<1>3. /\ Cons!Line \in Seq(Chars \cup {"nul"}) /\ Len(Cons!Line) = Cons!uint(w - r)
      /\ Cons!Edit \in Seq(Chars \cup {"nul"}) /\ Len(Cons!Edit) = Cons!uint(e - w)
      /\ \A i \in 1..Cons!uint(w - r) : Cons!Line[i] = buf[InSlot(r, i - 1)]
      /\ \A i \in 1..Cons!uint(e - w) : Cons!Edit[i] = buf[InSlot(r, Cons!uint(w - r) + i - 1)]
  BY LineFacts
<1>4. /\ Cons!Line' = [i \in 1..Cons!uint(w - r) |-> buf[InSlot(r, i - 1)]]
      /\ Cons!Edit' = [i \in 1..Cons!uint(e - w) - k |-> buf[InSlot(r, Cons!uint(w - r) + i - 1)]]
  BY Zenon, <1>1, LineNext
<1>5. Cons!Line' = Cons!Line
  <2>1. Cons!Line = [i \in 1..Cons!uint(w - r) |-> Cons!Line[i]]
    BY <1>3
  <2>2. QED
    BY <1>3, <1>4, <2>1
<1>6. Cons!Edit' = SubSeq(Cons!Edit, 1, Len(Cons!Edit) - k)
  <2>1. \A i \in 1..Cons!uint(e - w) - k : buf[InSlot(r, Cons!uint(w - r) + i - 1)] = Cons!Edit[i]
    BY <1>2, <1>3
  <2>2. QED
    BY <1>2, <1>3, <1>4, <2>1
<1>7. k \in 0..INPUT_BUF /\ k <= Len(Cons!Edit)
  BY <1>2, <1>3
<1>8. Cons!Discipline!Erase(k)
  BY <1>1, <1>5, <1>6, <1>7 DEF Cons!Discipline!Erase
<1>9. QED
  BY <1>7, <1>8 DEF Cons!Discipline!Next

(* A read takes characters of one line, and a ^D only alone. *)
LEMMA ConsCopyTakes ==
  ASSUME ConsRing, ConsRing', ConsCalls, NEW p \in Typists, Cons!consoleread_copy(p)
  PROVE  Cons!Discipline!Next
<1>1. PICK m \in 0..Cons!uint(w - r), b \in {0, 1} :
           /\ m + b <= Cons!uint(w - r)
           /\ \A j \in 0..m-1 : Cons!Peek(j) # "eof" /\ (Cons!Peek(j) = "nl" => j = m - 1)
           /\ r' = Cons!uint(r + (m + b))
           /\ b = 1 => m = 0 /\ Cons!Peek(0) = "eof" /\ cgot' = <<"eof">>
           /\ b = 0 => cgot' = [i \in 1..m |-> Cons!Peek(i - 1)]
  BY ConsCopyFacts
<1>2. /\ Cons!uint(w - r) \in 0..INPUT_BUF /\ Cons!uint(e - w) \in Nat /\ INPUT_BUF \in Nat
      /\ r \in 0..Cons!Wrap-1 /\ w \in 0..Cons!Wrap-1 /\ Cons!Wrap \in Nat \ {0} /\ INPUT_BUF < Cons!Wrap
  <2>1. /\ Cons!uint(w - r) \in 0..INPUT_BUF /\ Cons!uint(e - w) \in 0..INPUT_BUF
        /\ INPUT_BUF \in Nat \ {0} /\ Cons!Wrap \in Nat \ {0} /\ INPUT_BUF < Cons!Wrap
    BY ConsLengths, Zenon
  <2>2. r \in 0..Cons!Wrap-1 /\ w \in 0..Cons!Wrap-1
    BY Zenon DEF ConsRing
  <2>3. QED
    BY <2>1, <2>2
<1>3. PICK k \in 0..INPUT_BUF : k = m + b
  BY <1>1, <1>2
<1>4. UNCHANGED <<buf, w, e>>
  BY DEF Cons!consoleread_copy
<1>5. r' \in 0..Cons!Wrap-1 /\ Cons!uint(w - r') = Cons!uint(w - r) - k /\ Cons!uint(r' - r) = k
  <2>1. k <= Cons!uint(w - r) /\ r' = Cons!uint(r + k)
    BY <1>1, <1>3
  <2>2. r' \in 0..Cons!Wrap-1 /\ Cons!uint(w - r') = Cons!uint(w - r) - k
    BY <1>2, <2>1, ConsBehind, Zenon
  <2>3. Cons!uint(r - r) = 0
    BY <1>2, ConsUint
  <2>4. Cons!uint(r - r) + k < Cons!Wrap
    BY <1>2, <2>3
  <2>5. Cons!uint(Cons!uint(r + k) - r) = Cons!uint(r - r) + k
    BY <1>2, <2>4, ConsAhead, Zenon
  <2>6. QED
    BY <1>2, <2>1, <2>2, <2>3, <2>5
<1>6. /\ Cons!Line \in Seq(Chars \cup {"nul"}) /\ Len(Cons!Line) = Cons!uint(w - r)
      /\ Cons!Edit \in Seq(Chars \cup {"nul"}) /\ Len(Cons!Edit) = Cons!uint(e - w)
      /\ \A i \in 1..Cons!uint(w - r) : Cons!Line[i] = buf[InSlot(r, i - 1)]
      /\ \A i \in 1..Cons!uint(e - w) : Cons!Edit[i] = buf[InSlot(r, Cons!uint(w - r) + i - 1)]
  BY Zenon, LineFacts
<1>7. /\ Cons!Line' = [i \in 1..Cons!uint(w - r) - k |-> buf[InSlot(r', i - 1)]]
      /\ Cons!Edit' = [i \in 1..Cons!uint(e - w) |-> buf[InSlot(r', (Cons!uint(w - r) - k) + i - 1)]]
  BY <1>4, <1>5, LineNext
<1>8. \A j \in Int : InSlot(r', j) = InSlot(r, k + j)
  BY <1>2, <1>5, ConsSlot, Zenon
<1>9. Cons!Line' = SubSeq(Cons!Line, k + 1, Len(Cons!Line))
  <2>1. ASSUME NEW i \in 1..Cons!uint(w - r) - k PROVE buf[InSlot(r', i - 1)] =
        Cons!Line[i + k]
    <3>1. i - 1 \in Int /\ k + (i - 1) = (i + k) - 1 /\ i + k \in 1..Cons!uint(w - r)
      BY <1>2
    <3>2. QED
      BY Zenon, <1>6, <1>8, <3>1
  <2>2. k <= Cons!uint(w - r)
    BY <1>1, <1>3
  <2>3. Cons!Line' = [i \in 1..Cons!uint(w - r) - k |-> Cons!Line[i + k]]
    BY Zenon, <1>7, <2>1
  <2>4. /\ Cons!uint(w - r) \in Nat /\ k \in Nat
        /\ Cons!Line \in Seq(Chars \cup {"nul"}) /\ Len(Cons!Line) = Cons!uint(w - r)
    BY <1>2, <1>6
  <2>5. QED
    BY <2>2, <2>3, <2>4
<1>10. Cons!Edit' = Cons!Edit
  <2>1. ASSUME NEW i \in 1..Cons!uint(e - w)
        PROVE  buf[InSlot(r', (Cons!uint(w - r) - k) + i - 1)] = Cons!Edit[i]
    <3>1. /\ (Cons!uint(w - r) - k) + i - 1 \in Int
          /\ k + ((Cons!uint(w - r) - k) + i - 1) = Cons!uint(w - r) + i - 1
      BY <1>2
    <3>2. QED
      BY <1>6, <1>8, <3>1
  <2>2. Cons!Edit = [i \in 1..Cons!uint(e - w) |-> Cons!Edit[i]]
    BY <1>6
  <2>3. QED
    BY Zenon, <1>7, <2>1, <2>2
<1>11. \A i \in 1..Cons!uint(w - r) : Cons!Peek(i - 1) = Cons!Line[i]
  BY Zenon, <1>6 DEF Cons!Peek, InSlot
<1>12. \A i \in 1..k : Cons!Line[i] \in {"nl", "eof"} => i = k /\ (Cons!Line[i] = "eof" => k = 1)
  <2>1. CASE b = 1
    BY <1>1, <1>2, <1>3, <2>1
  <2>2. CASE b = 0
    <3>1. k = m
      BY <1>1, <1>2, <1>3, <2>2
    <3>2. ASSUME NEW i \in 1..m PROVE Cons!Line[i] # "eof" /\ (Cons!Line[i] = "nl" => i = m)
      <4>1. i - 1 \in 0..m-1 /\ i \in 1..Cons!uint(w - r)
        BY <1>2
      <4>2. QED
        BY <1>1, <1>2, <1>11, <4>1
    <3>3. QED
      BY Zenon, <3>1, <3>2
  <2>3. QED
    BY <2>1, <2>2
<1>13. cgot' = SubSeq(Cons!Line, 1, k)
  <2>1. CASE b = 1
    <3>1. k = 1 /\ cgot' = <<"eof">> /\ 1 \in 1..Cons!uint(w - r)
      BY <1>1, <1>2, <1>3, <2>1
    <3>2. Cons!Line[1] = "eof"
      <4>1. Cons!Peek(1 - 1) = Cons!Line[1]
        BY Zenon, <1>11, <3>1
      <4>2. QED
        BY <1>1, <2>1, <4>1
    <3>3. QED
      BY <1>2, <1>6, <3>1, <3>2
  <2>2. CASE b = 0
    <3>1. k = m /\ cgot' = [i \in 1..m |-> Cons!Peek(i - 1)]
      BY <1>1, <1>2, <1>3, <2>2
    <3>2. \A i \in 1..m : i \in 1..Cons!uint(w - r)
      BY <1>2
    <3>3. cgot' = [i \in 1..m |-> Cons!Line[i]]
      BY <1>11, <3>1, <3>2
    <3>4. QED
      BY <1>2, <1>6, <3>1, <3>3
  <2>3. QED
    BY <2>1, <2>2
<1>14. Cons!Discipline!Take(k)
  <2>1. k <= Len(Cons!Line)
    BY <1>1, <1>3, <1>6
  <2>2. QED
    BY <1>9, <1>10, <1>12, <1>13, <2>1 DEF Cons!Discipline!Take, Cons!Discipline!Ends
<1>15. QED
  BY Zenon, <1>14 DEF Cons!Discipline!Next

(* A step that leaves the ring alone is not visible to the line            *)
(* discipline.                                                             *)
LEMMA ConsOthersStutter ==
  ASSUME UNCHANGED <<buf, r, w, e, cgot>>
  PROVE  UNCHANGED Cons!Discipline!vars
BY DEF Cons!Discipline!vars, Cons!Line, Cons!Edit, Cons!Peek

(* Every step of the console is one of the line discipline, or not visible *)
(* in it.                                                                  *)
LEMMA DisciplineStep ==
  ASSUME ConsInv, ConsInv', [Cons!Next]_(Cons!vars)
  PROVE  [Cons!Discipline!Next]_(Cons!Discipline!vars)
<1> ConsRing /\ ConsRing' /\ ConsCalls
  BY DEF ConsInv
<1>1. ASSUME NEW c \in Chars \cup {"cr"}, Cons!store(c) PROVE Cons!Discipline!Next
  BY <1>1, StoreTypes
<1>2. ASSUME Cons!backspace \/ Cons!kill_line PROVE Cons!Discipline!Next
  BY Zenon, <1>2, EraseErases
<1>3. ASSUME NEW p \in Typists, Cons!consoleread_copy(p) PROVE Cons!Discipline!Next
  BY <1>3, ConsCopyTakes
<1>4. ASSUME NEW p \in Typists, NEW k \in 1..ConsMaxN, Cons!consoleread(p, k)
      PROVE  UNCHANGED Cons!Discipline!vars
  BY <1>4, ConsOthersStutter DEF Cons!consoleread, Cons!input
<1>5. ASSUME NEW p \in Typists, Cons!consoleread_wait(p) \/
      Cons!consoleread_sleep(p) \/ Cons!kill(p)
      PROVE  UNCHANGED Cons!Discipline!vars
  BY Zenon, <1>5, ConsOthersStutter DEF Cons!consoleread_wait, Cons!consoleread_sleep,
    Cons!kill, Cons!input
<1>6. ASSUME UNCHANGED Cons!vars PROVE UNCHANGED Cons!Discipline!vars
  BY <1>6, ConsOthersStutter DEF Cons!vars, Cons!input
<1>7. QED
  BY <1>1, <1>2, <1>3, <1>4, <1>5, <1>6, Zenon DEF Cons!Next

(* console.c implements the line discipline: characters arrive once and in *)
(* order, also where the indices wrap, only the line being typed can be    *)
(* corrected, and a read takes characters of one line or a ^D alone.       *)
THEOREM ConsRefines == Cons!Spec => Cons!ImplementsLineInput
<1>1. Cons!Init => Cons!Discipline!Init
  <2>1. ASSUME Cons!Init PROVE Cons!Line = <<>> /\ Cons!Edit = <<>> /\ cgot = <<>>
    <3>1. Cons!uint(w - r) = 0 /\ Cons!uint(e - w) = 0
      BY <2>1, ConsUint DEF Cons!Init
    <3>2. QED
      BY <2>1, <3>1 DEF Cons!Init, Cons!Line, Cons!Edit
  <2>2. QED
    BY Zenon, <2>1 DEF Cons!Discipline!Init
<1>2. ConsInv /\ ConsInv' /\ [Cons!Next]_(Cons!vars) => [Cons!Discipline!Next]_(Cons!Discipline!vars)
  BY Zenon, DisciplineStep
<1>3. QED
  BY <1>1, <1>2, ConsInvariant, PTL DEF Cons!Spec, Cons!ImplementsLineInput,
    Cons!Discipline!Spec

-----------------------------------------------------------------------------
(* The two rings together. *)

(* sleep and wakeup as pipes and the console use them (proc.c:521-598):    *)
(* nobody is asleep when what they wait for has come; a full console ring  *)
(* can be read, and a ^D met after other characters is left to the read it *)
(* is meant for (console.c:265).                                           *)
THEOREM RingsAreSound == RingsSpec => []RingsSound
<1>1. PipeInv => Pipe!TypeOK /\ Pipe!SleepsForAReason
  BY Zenon DEF PipeInv, PipeRing, PipeCalls, Pipe!TypeOK
<1>2. ConsInv => /\ Cons!TypeOK /\ Cons!SleepsForAReason
                 /\ Cons!FullIsReadable /\ Cons!EofForItsReader
  BY Zenon DEF ConsInv, ConsRing, ConsCalls, Cons!TypeOK
<1>3. PipeInv /\ ConsInv => RingsSound
  BY Zenon, <1>1, <1>2 DEF RingsSound
<1>4. QED
  BY <1>3, PipeInvariant, ConsInvariant, PTL DEF RingsSpec

(* The ring of a pipe is a bounded byte stream (pipe.c:60-120). *)
THEOREM PipeIsByteStream == RingsSpec => ImplementsByteStream
BY PipeRefines, PTL DEF RingsSpec, ImplementsByteStream

(* The ring of the console is a line discipline (console.c:201-280). *)
THEOREM ConsoleIsLineInput == RingsSpec => ImplementsLineInput
BY ConsRefines, PTL DEF RingsSpec, ImplementsLineInput
=============================================================================
