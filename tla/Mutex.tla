------------------------------- MODULE Mutex --------------------------------
(* What a lock promises: it has at most one owner, it is taken only when it *)
(* is free, and only its owner gives it back.                              *)

CONSTANT Procs

VARIABLE owner    \* 0 when the lock is free

Init == owner = 0

Take(p) == owner = 0 /\ owner' = p
Give(p) == owner = p /\ owner' = 0

Next == \E p \in Procs : Take(p) \/ Give(p)

Spec == Init /\ [][Next]_owner
=============================================================================
