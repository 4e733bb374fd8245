------------------------------- MODULE MCLog --------------------------------
EXTENDS LogInv, TLC

\* Neither processes nor blocks are told apart by any action or property.
Symm == Permutations(Procs) \cup Permutations(Blocks)
=============================================================================
