-------------------------------- MODULE Pipe --------------------------------
(***************************************************************************)
(* A pipe (pipe.c) between processes that hold its read end, its write end *)
(* or both.  The code between two acquires of p->lock is one step, except  *)
(* that the decision to sleep and the sleep are two: kill needs only       *)
(* ptable.lock and can come in between.  nread and nwrite are unsigned     *)
(* integers of W bits.                                                     *)
(***************************************************************************)
EXTENDS Integers, Sequences, FiniteSets

CONSTANTS Procs,
          Readers, Writers,  \* who holds an end at first
          PIPESIZE,
          W,        \* width of a uint, so that it wraps within the bounds
          NB,       \* the bytes written are numbered modulo NB
          MaxN,     \* bound: the n of a read or a write
          Victims   \* the processes that kill is called for

(* Unsigned integers are numbers modulo this. *)
Wrap == 2^W
uint(x) == x % Wrap

(* PIPESIZE divides 2^W: the ring index survives the wrap of the counters. *)
PipeConstants ==
  /\ Readers \subseteq Procs /\ Writers \subseteq Procs /\ 0 \notin Procs
  /\ PIPESIZE \in Nat \ {0} /\ NB \in Nat \ {0} /\ MaxN \in Nat
  /\ W \in Nat /\ Wrap \in Nat /\ Wrap % PIPESIZE = 0 /\ Wrap > PIPESIZE

VARIABLES
  data, nread, nwrite, readopen, writeopen,   \* struct pipe
  lock,       \* holder of p->lock, 0 for none
  rfd, wfd,   \* the processes that have the read end, the write end open
  state,      \* "SLEEPING" or "RUNNABLE" (or running)
  killed,
  pc,
  n,          \* the bytes a write still has to put, or a read asked for
  next,       \* the number of the next byte to be written
  got         \* the bytes the last read, of any process, has returned

ring == <<data, nread, nwrite>>
ends == <<readopen, writeopen, rfd, wfd>>
vars == <<ring, ends, lock, state, killed, pc, n, next, got>>

Min2(a, b) == IF a < b THEN a ELSE b

-----------------------------------------------------------------------------

(* pipealloc has succeeded, and fork has given both ends away. *)
Init ==
  /\ data = [i \in 0..PIPESIZE-1 |-> 0]
  /\ nread = 0 /\ nwrite = 0
  /\ readopen = 1 /\ writeopen = 1
  /\ rfd = Readers /\ wfd = Writers
  /\ lock = 0
  /\ state = [p \in Procs |-> "RUNNABLE"]
  /\ killed = [p \in Procs |-> 0]
  /\ pc = [p \in Procs |-> "idle"]
  /\ n = [p \in Procs |-> 0]
  /\ next = 0
  /\ got = <<>>

At(p, l) == pc[p] = l /\ state[p] = "RUNNABLE"

(* state after wakeup(&p->nread), wakeup(&p->nwrite) *)
WakeReaders == [p \in Procs |-> IF pc[p] = "read" THEN "RUNNABLE" ELSE state[p]]
WakeWriters == [p \in Procs |-> IF pc[p] = "write" THEN "RUNNABLE" ELSE state[p]]

Used == uint(nwrite - nread)
Empty == nread = nwrite
Full == nwrite = uint(nread + PIPESIZE)

pipewrite(p, k) ==
  /\ At(p, "idle") /\ p \in wfd /\ killed[p] = 0
  /\ pc' = [pc EXCEPT ![p] = "write"]
  /\ n' = [n EXCEPT ![p] = k]
  /\ UNCHANGED <<ring, ends, lock, state, killed, next, got>>

(* The ring and the numbering after m bytes have been put. *)
put(m) ==
  /\ data' = [i \in 0..PIPESIZE-1 |->
                IF \E j \in 0..m-1 : uint(nwrite + j) % PIPESIZE = i
                  THEN (next + (CHOOSE j \in 0..m-1 : uint(nwrite + j) % PIPESIZE = i)) % NB
                  ELSE data[i]]
  /\ nwrite' = uint(nwrite + m)
  /\ next' = (next + m) % NB

(* The loop of pipewrite from an acquire of p->lock, by acquire or inside  *)
(* sleep, to the next sleep or return.                                     *)
pipewrite_loop(p) ==
  LET m == Min2(n[p], PIPESIZE - Used) IN
  /\ At(p, "write") /\ lock = 0
  /\ put(m)
  /\ \/ /\ m = n[p]                          \* all written
        /\ n' = [n EXCEPT ![p] = 0]
        /\ pc' = [pc EXCEPT ![p] = "idle"]
        /\ state' = WakeReaders
        /\ UNCHANGED lock
     \/ /\ m < n[p]                          \* full, return -1
        /\ readopen = 0 \/ killed[p] = 1
        /\ n' = [n EXCEPT ![p] = 0]
        /\ pc' = [pc EXCEPT ![p] = "idle"]
        /\ UNCHANGED <<state, lock>>
     \/ /\ m < n[p]                          \* full, go to sleep
        /\ readopen = 1 /\ killed[p] = 0
        /\ n' = [n EXCEPT ![p] = @ - m]
        /\ pc' = [pc EXCEPT ![p] = "write_sleep"]
        /\ state' = WakeReaders
        /\ lock' = p
  /\ UNCHANGED <<nread, ends, killed, got>>

(* sleep(&p->nwrite, &p->lock) *)
pipewrite_sleep(p) ==
  /\ At(p, "write_sleep")
  /\ state' = [state EXCEPT ![p] = "SLEEPING"]
  /\ pc' = [pc EXCEPT ![p] = "write"]
  /\ lock' = 0
  /\ UNCHANGED <<ring, ends, killed, n, next, got>>

piperead(p, k) ==
  /\ At(p, "idle") /\ p \in rfd /\ killed[p] = 0
  /\ pc' = [pc EXCEPT ![p] = "read"]
  /\ n' = [n EXCEPT ![p] = k]
  /\ UNCHANGED <<ring, ends, lock, state, killed, next, got>>

(* Nothing to read: return -1 when killed, or get ready to sleep. *)
piperead_wait(p) ==
  /\ At(p, "read") /\ lock = 0
  /\ Empty /\ writeopen = 1
  /\ IF killed[p] = 1
       THEN /\ pc' = [pc EXCEPT ![p] = "idle"]
            /\ n' = [n EXCEPT ![p] = 0]
            /\ UNCHANGED lock
       ELSE /\ pc' = [pc EXCEPT ![p] = "read_sleep"]
            /\ lock' = p
            /\ UNCHANGED n
  /\ UNCHANGED <<ring, ends, state, killed, next, got>>

(* sleep(&p->nread, &p->lock) *)
piperead_sleep(p) ==
  /\ At(p, "read_sleep")
  /\ state' = [state EXCEPT ![p] = "SLEEPING"]
  /\ pc' = [pc EXCEPT ![p] = "read"]
  /\ lock' = 0
  /\ UNCHANGED <<ring, ends, killed, n, next, got>>

mutant_piperead_copy_from_zero(p) ==
  /\ At(p, "read") /\ lock = 0
  /\ ~Empty \/ writeopen = 0
  /\ LET m == Min2(n[p], Used) IN
     /\ got' = [i \in 1..m |-> data[(i - 1) % PIPESIZE]]
     /\ nread' = uint(nread + m)
  /\ pc' = [pc EXCEPT ![p] = "idle"]
  /\ n' = [n EXCEPT ![p] = 0]
  /\ state' = WakeWriters
  /\ UNCHANGED <<data, nwrite, ends, lock, killed, next>>

piperead_copy(p) ==
  /\ At(p, "read") /\ lock = 0
  /\ ~Empty \/ writeopen = 0
  /\ LET m == Min2(n[p], Used) IN
     /\ got' = [i \in 1..m |-> data[uint(nread + i - 1) % PIPESIZE]]
     /\ nread' = uint(nread + m)
  /\ pc' = [pc EXCEPT ![p] = "idle"]
  /\ n' = [n EXCEPT ![p] = 0]
  /\ state' = WakeWriters
  /\ UNCHANGED <<data, nwrite, ends, lock, killed, next>>

mutant_pipeclose_silent(p, writable) ==
  /\ At(p, "idle") /\ lock = 0
  /\ IF writable
       THEN /\ p \in wfd /\ wfd' = wfd \ {p}
            /\ writeopen' = IF wfd' = {} THEN 0 ELSE writeopen
            /\ UNCHANGED <<rfd, readopen>>
       ELSE /\ p \in rfd /\ rfd' = rfd \ {p}
            /\ readopen' = IF rfd' = {} THEN 0 ELSE readopen
            /\ UNCHANGED <<wfd, writeopen>>
  /\ UNCHANGED <<ring, lock, state, killed, pc, n, next, got>>

(* fileclose of one process's end; the last one closes the pipe's end and  *)
(* wakes the other side up.                                                *)
pipeclose(p, writable) ==
  /\ At(p, "idle") /\ lock = 0
  /\ IF writable
       THEN /\ p \in wfd /\ wfd' = wfd \ {p}
            /\ writeopen' = IF wfd' = {} THEN 0 ELSE writeopen
            /\ state' = IF wfd' = {} THEN WakeReaders ELSE state
            /\ UNCHANGED <<rfd, readopen>>
       ELSE /\ p \in rfd /\ rfd' = rfd \ {p}
            /\ readopen' = IF rfd' = {} THEN 0 ELSE readopen
            /\ state' = IF rfd' = {} THEN WakeWriters ELSE state
            /\ UNCHANGED <<wfd, writeopen>>
  /\ UNCHANGED <<ring, lock, killed, pc, n, next, got>>

kill(p) ==
  /\ p \in Victims /\ killed[p] = 0
  /\ killed' = [killed EXCEPT ![p] = 1]
  /\ state' = [state EXCEPT ![p] = "RUNNABLE"]
  /\ UNCHANGED <<ring, ends, lock, pc, n, next, got>>

(* Everybody has closed everything. *)
Finished == rfd = {} /\ wfd = {} /\ UNCHANGED vars

Next ==
  \/ \E p \in Procs :
       \/ \E k \in 1..MaxN : pipewrite(p, k) \/ piperead(p, k)
       \/ pipewrite_loop(p) \/ pipewrite_sleep(p)
       \/ piperead_wait(p) \/ piperead_sleep(p) \/ piperead_copy(p)
       \/ \E writable \in BOOLEAN : pipeclose(p, writable)
       \/ kill(p)
  \/ Finished

Spec == Init /\ [][Next]_vars

(* The steps of a call that need p->lock, and the ones that do not: what   *)
(* a fairness assumption is about.                                         *)
Calls(p) == pipewrite_loop(p) \/ piperead_wait(p) \/ piperead_copy(p)
Sleeps(p) == pipewrite_sleep(p) \/ piperead_sleep(p)

-----------------------------------------------------------------------------

TypeOK ==
  /\ data \in [0..PIPESIZE-1 -> 0..NB-1]
  /\ nread \in 0..Wrap-1 /\ nwrite \in 0..Wrap-1
  /\ Used <= PIPESIZE
  /\ readopen \in {0, 1} /\ writeopen \in {0, 1}
  /\ rfd \subseteq Procs /\ wfd \subseteq Procs
  /\ lock \in Procs \cup {0}
  /\ state \in [Procs -> {"RUNNABLE", "SLEEPING"}]
  /\ killed \in [Procs -> {0, 1}]
  /\ pc \in [Procs -> {"idle", "write", "write_sleep", "read", "read_sleep"}]
  /\ n \in [Procs -> 0..MaxN]
  /\ next \in 0..NB-1
  /\ got \in Seq(0..NB-1) /\ Len(got) <= PIPESIZE

(* The pipe is a bounded byte stream: no byte is lost, repeated or         *)
(* overtaken, also where the counters wrap, and a read returns 0 only when *)
(* the pipe is empty and its write end is closed.                          *)
Contents == [i \in 1..Used |-> data[uint(nread + i - 1) % PIPESIZE]]
Stream == INSTANCE ByteStream
            WITH Capacity <- PIPESIZE, q <- Contents, ropen <- readopen, wopen <- writeopen
ImplementsByteStream == Stream!Spec

(* A writer sleeps only while the pipe is full and someone can read it; a  *)
(* reader only while it is empty and someone can write to it.  The one     *)
(* exception is what a killed writer leaves behind: it fills the pipe and  *)
(* returns -1 without a wakeup (pipe.c:86).                                *)
SleepsForAReason ==
  \A p \in Procs : state[p] = "SLEEPING" =>
    /\ pc[p] = "write" => Full /\ readopen = 1
    /\ pc[p] = "read" => /\ writeopen = 1
                         /\ Empty \/ \E w \in Writers : killed[w] = 1

(* Nobody is stuck in a call for ever: the other side's reads, writes and  *)
(* closes get everyone out.                                                *)
CallsEnd == \A p \in Procs : pc[p] # "idle" ~> pc[p] = "idle"
=============================================================================
