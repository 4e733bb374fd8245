------------------------------ MODULE Resources ------------------------------
(***************************************************************************)
(* What the models of the kernel's resources share: the processes, the one *)
(* that runs at the start, and which of the resources a behaviour is       *)
(* about.  They are kept apart by their locks.                             *)
(***************************************************************************)
CONSTANTS Procs, First
VARIABLE part   \* "files", "data" or "memory"
=============================================================================
