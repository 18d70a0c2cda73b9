------------------------------- MODULE MCSends -------------------------------
(* Instances of Sends for TLC.  Pool threads are interchangeable. *)
EXTENDS Sends

WorkerSymmetry == Permutations(Workers)
==============================================================================
