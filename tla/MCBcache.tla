------------------------------ MODULE MCBcache ------------------------------
(* More blocks than buffers, of which the log may pin two: with two        *)
(* processes bget may run out of buffers.                                  *)
EXTENDS Bcache, TLC

CONSTANTS p1, p2, p3, k1, k2, k3, k4

Symm == Permutations({p1, p2, p3}) \cup Permutations({k1, k2, k3, k4})
=============================================================================
