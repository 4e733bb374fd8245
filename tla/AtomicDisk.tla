----------------------------- MODULE AtomicDisk -----------------------------
(***************************************************************************)
(* What the logging layer of log.c promises to the file system above it: a *)
(* disk whose updates become durable in one step, and only while no file   *)
(* system call is in progress (log.c:9-15).                                *)
(***************************************************************************)
EXTENDS Naturals

CONSTANTS Blocks,   \* block numbers outside the log
          Contents  \* what a block can hold

VARIABLES view,     \* what the running system reads from each block
          durable,  \* what a reboot would find in each block
          open      \* how many file system calls are in progress

vars == <<view, durable, open>>

Init == /\ view = durable
        /\ durable \in [Blocks -> Contents]
        /\ open = 0

Begin == open' = open + 1 /\ UNCHANGED <<view, durable>>

\* Only a call in progress writes, and the write is volatile.
Write(b) == /\ open > 0
            /\ \E c \in Contents : view' = [view EXCEPT ![b] = c]
            /\ UNCHANGED <<durable, open>>

End == open > 0 /\ open' = open - 1 /\ UNCHANGED <<view, durable>>

\* The commit point: every block at once, with no call in progress.
Commit == open = 0 /\ durable' = view /\ UNCHANGED <<view, open>>

\* A crash loses exactly what was not durable.
Crash == view' = durable /\ open' = 0 /\ UNCHANGED durable

Next == \/ Begin
        \/ \E b \in Blocks : Write(b)
        \/ End
        \/ Commit
        \/ Crash

Spec == Init /\ [][Next]_vars
=============================================================================
