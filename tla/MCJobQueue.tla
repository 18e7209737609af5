----------------------------- MODULE MCJobQueue -----------------------------
(* Symmetric model values for the safety runs of JobQueue. *)
EXTENDS JobQueue, TLC

Symmetry == Permutations(Threads) \cup Permutations(Queues) \cup Permutations(Jobs)
==============================================================================
