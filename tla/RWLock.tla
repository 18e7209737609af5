------------------------------- MODULE RWLock -------------------------------
(***************************************************************************)
(* What Lock promises: a reentrant reader-writer lock.  held[t] counts the *)
(* read and the write guards of thread t.  A thread that has only read     *)
(* guards cannot become the writer, and the writer cannot give up a write  *)
(* guard while it has read guards.                                         *)
(***************************************************************************)
EXTENDS Integers

CONSTANT Threads

VARIABLE held   (* held[t]: how often t holds the lock for reading and writing *)

Init == held = [t \in Threads |-> [read |-> 0, write |-> 0]]

Free(t) == held[t].read = 0 /\ held[t].write = 0

AcquireWrite(t) ==
    /\ \A u \in Threads \ {t} : Free(u)
    /\ held[t].write > 0 \/ Free(t)
    /\ held' = [held EXCEPT ![t].write = @ + 1]

AcquireRead(t) ==
    /\ \A u \in Threads \ {t} : held[u].write = 0
    /\ held' = [held EXCEPT ![t].read = @ + 1]

ReleaseWrite(t) ==
    /\ held[t].write > 0 /\ held[t].read = 0
    /\ held' = [held EXCEPT ![t].write = @ - 1]

ReleaseRead(t) ==
    /\ held[t].read > 0
    /\ held' = [held EXCEPT ![t].read = @ - 1]

Next == \E t \in Threads : AcquireWrite(t) \/ AcquireRead(t)
                           \/ ReleaseWrite(t) \/ ReleaseRead(t)

Spec == Init /\ [][Next]_held
==============================================================================
