----------------------------- MODULE LineInput -----------------------------
(* What the console promises to its readers: the characters typed arrive   *)
(* once and in order, what has been typed can be corrected until the line  *)
(* is ended, and a read never goes past the end of a line.                 *)
EXTENDS Integers, Sequences

CONSTANTS Capacity, Chars

VARIABLES line,   \* the characters that can be read
          edit,   \* the characters of the line being typed
          got     \* the characters the last reader took

vars == <<line, edit, got>>

Ends == {"nl", "eof"}

Init == line = <<>> /\ edit = <<>> /\ got = <<>>

Type(c) ==
  /\ Len(line) + Len(edit) < Capacity
  /\ IF c \in Ends \/ Len(line) + Len(edit) + 1 = Capacity
       THEN line' = line \o Append(edit, c) /\ edit' = <<>>
       ELSE edit' = Append(edit, c) /\ UNCHANGED line
  /\ UNCHANGED got

(* k characters of the line being typed are rubbed out. *)
Erase(k) ==
  /\ k <= Len(edit)
  /\ edit' = SubSeq(edit, 1, Len(edit) - k)
  /\ UNCHANGED <<line, got>>

(* A read takes characters of one line, and an end of file only alone. *)
Take(k) ==
  /\ k <= Len(line)
  /\ \A i \in 1..k : line[i] \in Ends => i = k /\ (line[i] = "eof" => k = 1)
  /\ got' = SubSeq(line, 1, k)
  /\ line' = SubSeq(line, k + 1, Len(line))
  /\ UNCHANGED edit

Next ==
  \/ \E c \in Chars : Type(c)
  \/ \E k \in 0..Capacity : Erase(k) \/ Take(k)

Spec == Init /\ [][Next]_vars
=============================================================================
