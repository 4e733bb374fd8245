------------------------------- MODULE MCProc -------------------------------
(* One or two CPUs and a table of up to four slots, one of them init's. *)
EXTENDS Proc, TLC

CONSTANTS c1, c2

MCCPUs == {c1, c2}
CPUSymmetry == Permutations(MCCPUs)
=============================================================================
