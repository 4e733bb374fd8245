------------------------------ MODULE Console ------------------------------
(***************************************************************************)
(* Console input (console.c): the ring with its read, write and edit index *)
(* between the keyboard interrupt and the processes in consoleread.  The   *)
(* indices are unsigned integers of W bits.  The code between two acquires *)
(* of cons.lock is one step, except that the decision to sleep and the     *)
(* sleep are two, since kill needs only ptable.lock.  consoleintr takes    *)
(* the characters one by one; that it keeps cons.lock over all that are    *)
(* ready only removes interleavings.  Echo and ^P are left out.            *)
(***************************************************************************)
EXTENDS Integers, Sequences, FiniteSets

CONSTANTS Procs,
          Chars,      \* the characters that are stored, "nl" and "eof" (^D) included
          INPUT_BUF,
          W,          \* width of a uint, so that it wraps within the bounds
          MaxN,       \* bound: the n of a read
          Victims     \* the processes that kill is called for

(* Unsigned integers are numbers modulo this. *)
Wrap == 2^W
uint(x) == x % Wrap

(* INPUT_BUF divides 2^W: the ring index survives the wrap of the indices. *)
ConsoleConstants ==
  /\ {"nl", "eof"} \subseteq Chars /\ "cr" \notin Chars /\ 0 \notin Procs
  /\ INPUT_BUF \in Nat \ {0} /\ MaxN \in Nat
  /\ W \in Nat /\ Wrap \in Nat /\ Wrap % INPUT_BUF = 0 /\ Wrap > INPUT_BUF

VARIABLES
  buf, r, w, e,   \* struct input
  lock,           \* holder of cons.lock across a step, 0 for none
  state, killed,
  pc,
  n, target,      \* consoleread's locals
  got,            \* the characters the last reader took in one go
  owed            \* who last stopped in front of a ^D, if nobody has read since

input == <<buf, r, w, e>>
vars == <<input, lock, state, killed, pc, n, target, got, owed>>

Ends == {"nl", "eof"}
Min2(x, y) == IF x < y THEN x ELSE y

Init ==
  /\ buf = [i \in 0..INPUT_BUF-1 |-> "nul"]
  /\ r = 0 /\ w = 0 /\ e = 0
  /\ lock = 0
  /\ state = [p \in Procs |-> "RUNNABLE"]
  /\ killed = [p \in Procs |-> 0]
  /\ pc = [p \in Procs |-> "idle"]
  /\ n = [p \in Procs |-> 0] /\ target = [p \in Procs |-> 0]
  /\ got = <<>>
  /\ owed = {}

At(p, l) == pc[p] = l /\ state[p] = "RUNNABLE" /\ lock \in {0, p}

(* The k-th character a reader would find, from 0. *)
Peek(k) == buf[uint(r + k) % INPUT_BUF]

-----------------------------------------------------------------------------
(* consoleintr, one character *)

(* An ordinary character; the end of a line, or a full ring, makes the     *)
(* line readable and wakes the readers up.                                 *)
store(c) ==
  LET ch == IF c = "cr" THEN "nl" ELSE c IN
  /\ lock = 0
  /\ uint(e - r) < INPUT_BUF
  /\ buf' = [buf EXCEPT ![e % INPUT_BUF] = ch]
  /\ e' = uint(e + 1)
  /\ IF ch \in Ends \/ e' = uint(r + INPUT_BUF)
       THEN /\ w' = e'
            /\ state' = [p \in Procs |-> IF pc[p] = "read" THEN "RUNNABLE" ELSE state[p]]
       ELSE UNCHANGED <<w, state>>
  /\ UNCHANGED <<r, lock, killed, pc, n, target, got, owed>>

mutant_backspace_past_line ==
  /\ lock = 0
  /\ e # r
  /\ e' = uint(e - 1)
  /\ UNCHANGED <<buf, r, w, lock, state, killed, pc, n, target, got, owed>>

backspace ==
  /\ lock = 0
  /\ e # w
  /\ e' = uint(e - 1)
  /\ UNCHANGED <<buf, r, w, lock, state, killed, pc, n, target, got, owed>>

(* ^U: back to the write index or to just after a newline. *)
kill_line ==
  /\ lock = 0
  /\ e # w
  /\ \E k \in 0..uint(e - w) :
       /\ \A j \in 1..k : buf[uint(e - j) % INPUT_BUF] # "nl"
       /\ k = uint(e - w) \/ buf[uint(e - k - 1) % INPUT_BUF] = "nl"
       /\ e' = uint(e - k)
  /\ UNCHANGED <<buf, r, w, lock, state, killed, pc, n, target, got, owed>>

-----------------------------------------------------------------------------
(* consoleread *)

consoleread(p, k) ==
  /\ At(p, "idle") /\ killed[p] = 0
  /\ pc' = [pc EXCEPT ![p] = "read"]
  /\ n' = [n EXCEPT ![p] = k]
  /\ target' = [target EXCEPT ![p] = k]
  /\ UNCHANGED <<input, lock, state, killed, got, owed>>

(* p's call is over. *)
return(p) ==
  /\ pc' = [pc EXCEPT ![p] = "idle"]
  /\ n' = [n EXCEPT ![p] = 0]
  /\ target' = [target EXCEPT ![p] = 0]
  /\ lock' = 0

(* Nothing to read: return -1 when killed, or get ready to sleep. *)
consoleread_wait(p) ==
  /\ At(p, "read")
  /\ r = w
  /\ IF killed[p] = 1
       THEN return(p) /\ UNCHANGED owed
       ELSE /\ pc' = [pc EXCEPT ![p] = "sleep"]
            /\ lock' = p
            /\ UNCHANGED <<n, target, owed>>
  /\ UNCHANGED <<input, state, killed, got>>

(* sleep(&input.r, &cons.lock) *)
consoleread_sleep(p) ==
  /\ At(p, "sleep")
  /\ state' = [state EXCEPT ![p] = "SLEEPING"]
  /\ pc' = [pc EXCEPT ![p] = "read"]
  /\ lock' = 0
  /\ UNCHANGED <<input, killed, n, target, got, owed>>

(* How many ordinary characters, and newlines as the last, can be copied.  *)
Copied(p) ==
  LET most == Min2(n[p], uint(w - r)) IN
  CHOOSE m \in 0..most :
    /\ \A j \in 0..m-1 : Peek(j) # "eof" /\ (Peek(j) = "nl" => j = m - 1)
    /\ m = most \/ Peek(m) = "eof" \/ (m > 0 /\ Peek(m - 1) = "nl")

(* The loop of consoleread while there is something to read.  A ^D ends    *)
(* the read; it is left in the ring when something was read before it.     *)
consoleread_copy(p) ==
  LET m == Copied(p)
      nl == m > 0 /\ Peek(m - 1) = "nl"
      eof == ~nl /\ m < n[p] /\ uint(r + m) # w      \* stopped by a ^D
      saved == eof /\ n[p] - m < target[p]
  IN
  /\ At(p, "read") /\ r # w
  /\ got' = IF eof /\ ~saved THEN <<"eof">> ELSE [i \in 1..m |-> Peek(i - 1)]
  /\ r' = uint(r + m + (IF eof /\ ~saved THEN 1 ELSE 0))
  /\ IF m = n[p] \/ nl \/ eof
       THEN return(p)
       ELSE /\ n' = [n EXCEPT ![p] = @ - m]
            /\ lock' = p
            /\ UNCHANGED <<pc, target>>
  /\ owed' = IF saved THEN {p} ELSE {}
  /\ UNCHANGED <<buf, w, e, state, killed>>

(* proc.c: kill sets the flag and wakes the process if it sleeps. *)
kill(p) ==
  /\ p \in Victims /\ killed[p] = 0
  /\ killed' = [killed EXCEPT ![p] = 1]
  /\ state' = [state EXCEPT ![p] = "RUNNABLE"]
  /\ UNCHANGED <<input, lock, pc, n, target, got, owed>>

Next ==
  \/ \E c \in Chars \cup {"cr"} : store(c)
  \/ backspace
  \/ kill_line
  \/ \E p \in Procs :
       \/ \E k \in 1..MaxN : consoleread(p, k)
       \/ consoleread_wait(p) \/ consoleread_sleep(p) \/ consoleread_copy(p)
       \/ kill(p)

Spec == Init /\ [][Next]_vars

-----------------------------------------------------------------------------

TypeOK ==
  /\ buf \in [0..INPUT_BUF-1 -> Chars \cup {"nul"}]
  /\ {r, w, e} \subseteq 0..Wrap-1
  /\ uint(w - r) + uint(e - w) <= INPUT_BUF
  /\ lock \in Procs \cup {0}
  /\ state \in [Procs -> {"RUNNABLE", "SLEEPING"}]
  /\ killed \in [Procs -> {0, 1}]
  /\ pc \in [Procs -> {"idle", "read", "sleep"}]
  /\ n \in [Procs -> 0..MaxN] /\ target \in [Procs -> 0..MaxN]
  /\ \A p \in Procs : n[p] <= target[p]
  /\ owed \subseteq Procs

(* The ring is a line discipline: characters arrive once and in order also *)
(* where the indices wrap, correction stops at the line being typed, and a *)
(* read stops at the end of a line or of the file (console.c:206, 253).    *)
Line == [i \in 1..uint(w - r) |-> Peek(i - 1)]
Edit == [i \in 1..uint(e - w) |-> buf[uint(w + i - 1) % INPUT_BUF]]
Discipline == INSTANCE LineInput WITH Capacity <- INPUT_BUF, line <- Line, edit <- Edit
ImplementsLineInput == Discipline!Spec

(* A full ring can be read: when no more characters can be stored, so that *)
(* the line can never be ended, all of it is already given to the readers. *)
FullIsReadable == uint(e - r) = INPUT_BUF => w = e

(* A reader sleeps only while there is nothing to read: neither consoleintr *)
(* nor another reader that leaves characters behind forgets to wake it.    *)
SleepsForAReason == \A p \in Procs : state[p] = "SLEEPING" => r = w

(* "Save ^D for next time, to make sure caller gets a 0-byte result"       *)
(* (console.c:265): as long as no other process reads, whatever is typed,  *)
(* erased or killed, the reader that stopped in front of a ^D finds that   *)
(* ^D first in its next read.                                              *)
EofForItsReader == owed # {} => r # w /\ Peek(0) = "eof"

(* As long as lines are typed every read returns. *)
ReadsEnd == \A p \in Procs : pc[p] # "idle" ~> pc[p] = "idle"
=============================================================================
