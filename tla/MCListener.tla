----------------------------- MODULE MCListener -----------------------------
(* Symmetric model values for the safety run of Listener, and for its
   liveness run, where TLC's symmetry is not sound, a specification with the
   same behaviours up to the names of threads, sessions and buffers. *)
EXTENDS Listener, TLC

Symmetry == Permutations(Threads) \cup Permutations(Sessions) \cup Permutations(Buffers)
                                 \cup Permutations(Slots)
------------------------------------------------------------------------------
First(S) == CHOOSE x \in S : TRUE

(* What has no state yet is taken in one order: the session of a slot, the
   buffer of a Broadcast, the thread that goes on when all threads are idle.
   A behaviour that takes another becomes one that takes First by renaming
   what is alike at that moment; neither ListenerFairness nor AcceptsGoOn
   names any of them alone. *)
NamesInTurn ==
    /\ \A e \in Slots : slot'[e] # slot[e] => slot'[e] = First(fresh' \cup {slot'[e]})
    /\ \A b \in unsent \ unsent' : b = First(unsent)
    /\ (\A t \in Threads : todo[t] = <<>>)
          => \A t \in Threads \ {First(Threads)} : todo'[t] = <<>>

(* No further client can come: every slot is armed for good, and what the
   threads do from here on does not matter to AcceptsGoOn. *)
LastSlotArmed == fresh = {} /\ \A e \in Slots : acceptOp[e] = "pending"

(* Bound: a CloseService is called next to one Broadcast at most. *)
CloseBound == closes' = 0 \/ Cardinality(Buffers \ unsent') <= 1

InTurnNext == ListenerNext /\ ~LastSlotArmed /\ NamesInTurn /\ CloseBound

InTurnSpec == ListenerInit /\ [][InTurnNext]_listenerAllVars /\ ListenerFairness
==============================================================================
