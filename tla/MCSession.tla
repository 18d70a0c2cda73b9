------------------------------ MODULE MCSession ------------------------------
(* The workers of the pool, and the application's threads, are alike.          *)
EXTENDS Session, TLC

ThreadSymmetry == Permutations(Workers) \cup Permutations(Callers)
==============================================================================
