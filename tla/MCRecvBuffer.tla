----------------------------- MODULE MCRecvBuffer -----------------------------
(* The sizes of the packets for the run of RecvBuffer: a bare header, and
   the largest. *)
EXTENDS RecvBuffer

MCPackets == 1 .. 2
MCSize == [p \in MCPackets |-> p + 1]
==============================================================================
