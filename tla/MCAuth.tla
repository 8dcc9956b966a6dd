------------------------------- MODULE MCAuth --------------------------------
(* Model-checking instance of Auth; the threads are interchangeable.       *)
EXTENDS Auth, TLC

Symmetry == Permutations(Threads)
=============================================================================
