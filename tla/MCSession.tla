------------------------------ MODULE MCSession ------------------------------
(* Symmetric model values for the safety runs of Session. *)
EXTENDS Session, TLC

Symmetry == Permutations(Threads) \cup Permutations(Sessions) \cup Permutations(Buffers)
==============================================================================
