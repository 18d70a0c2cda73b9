----------------------------- MODULE MCHandlePool -----------------------------
(* Instances of HandlePool for TLC.  Workers are interchangeable, and so are *)
(* the registered handles.                                                  *)
EXTENDS HandlePool, TLC

PoolSymmetry == Permutations(Workers) \cup Permutations(Handles)
===============================================================================
