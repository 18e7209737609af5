---------------------------- MODULE MCSendBuffer ----------------------------
(* Symmetric model values for SendBuffer. *)
EXTENDS SendBuffer, TLC

Symmetry == Permutations(Threads) \cup Permutations(Chunks) \cup Permutations(Packets)
==============================================================================
