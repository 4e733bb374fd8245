----------------------------- MODULE ByteStream -----------------------------
(* What a pipe promises: a bounded first-in first-out stream of bytes with *)
(* two ends.  The bytes written are numbered modulo NB, so that a lost,    *)
(* repeated or reordered byte shows.                                       *)
EXTENDS Integers, Sequences

CONSTANTS Capacity, NB

VARIABLES q,      \* the bytes in the pipe
          next,   \* the number of the next byte to be written
          ropen, wopen,   \* 1 while the end is open
          got     \* what the last read returned

vars == <<q, next, ropen, wopen, got>>

Init ==
  /\ q = <<>> /\ next = 0
  /\ ropen = 1 /\ wopen = 1
  /\ got = <<>>

(* k more bytes enter, in order, if there is room for them. *)
Write(k) ==
  /\ wopen = 1
  /\ Len(q) + k <= Capacity
  /\ q' = q \o [i \in 1..k |-> (next + i - 1) % NB]
  /\ next' = (next + k) % NB
  /\ UNCHANGED <<ropen, wopen, got>>

(* A read returns the k oldest bytes, and none only at the end of file. *)
Read(k) ==
  /\ ropen = 1
  /\ k <= Len(q)
  /\ k = 0 => q = <<>> /\ wopen = 0
  /\ got' = SubSeq(q, 1, k)
  /\ q' = SubSeq(q, k + 1, Len(q))
  /\ UNCHANGED <<next, ropen, wopen>>

Close ==
  /\ UNCHANGED <<q, next, got>>
  /\ \/ ropen = 1 /\ ropen' = 0 /\ UNCHANGED wopen
     \/ wopen = 1 /\ wopen' = 0 /\ UNCHANGED ropen

Next ==
  \/ \E k \in 1..Capacity : Write(k)
  \/ \E k \in 0..Capacity : Read(k)
  \/ Close

Spec == Init /\ [][Next]_vars
=============================================================================
