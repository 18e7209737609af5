-------------------------------- MODULE Lock --------------------------------
(***************************************************************************)
(* The reader-writer spin lock (Lock.cpp) under its RAII guards (Lock.h).  *)
(*                                                                         *)
(* _lockFlag packs the writer's thread id and the number of read locks in  *)
(* one atomic word; _writeCount, the writer's reentrancy, is an ordinary   *)
(* field that is safe only if the owner alone touches it.  Each access to  *)
(* either field is an action.  A thread's guards are a stack, because      *)
(* scopes nest: the last constructed is the first destroyed.               *)
(*                                                                         *)
(* The clock is abstracted: a thread that waits may at any time find that  *)
(* ACQUIRE_TIMEOUT_TICK has passed, and CRASH ends the process.            *)
(***************************************************************************)
EXTENDS Integers, Sequences, FiniteSets

CONSTANTS Threads,  (* the threads, by LThreadId (at least 1)          *)
          Nobody,   (* the thread id 0 of a lock without a writer      *)
          MaxNest   (* bound: how deep a thread nests guards           *)

ASSUME ThreadsAssumption == IsFiniteSet(Threads)
ASSUME NobodyAssumption == Nobody \notin Threads
ASSUME NestAssumption == MaxNest \in Nat

VARIABLES
    flag,        (* _lockFlag: its two halves, the writer and the readers  *)
    writeCount,  (* _writeCount                                            *)
    pc,          (* pc[t]: where t is inside the lock, "user" outside      *)
    sampled,     (* sampled[t]: `expected' of ReadLock's loop              *)
    guards,      (* guards[t]: the guards of t, innermost last             *)
    crash        (* the CRASH that ended the process, or "none"            *)

vars == <<flag, writeCount, pc, sampled, guards, crash>>

EmptyFlag == [writer |-> Nobody, readers |-> 0]

Init ==
    /\ flag = EmptyFlag
    /\ writeCount = 0
    /\ pc = [t \in Threads |-> "user"]
    /\ sampled = [t \in Threads |-> 0]
    /\ guards = [t \in Threads |-> <<>>]
    /\ crash = "none"

------------------------------------------------------------------------------
At(t, l) == crash = "none" /\ pc[t] = l

Goto(t, l) == pc' = [pc EXCEPT ![t] = l]

(* The guard's constructor, or its destructor, returns. *)
Constructed(t, kind) ==
    guards' = [guards EXCEPT ![t] = Append(@, kind)] /\ Goto(t, "user")

Destroyed(t) ==
    guards' = [guards EXCEPT ![t] = SubSeq(@, 1, Len(@) - 1)] /\ Goto(t, "user")

Innermost(t, kind) == guards[t] # <<>> /\ guards[t][Len(guards[t])] = kind

(* WriteLock, to the load that tells whether t is the writer already. *)
WriteLock(t) ==
    /\ At(t, "user") /\ Len(guards[t]) < MaxNest
    /\ Goto(t, IF flag.writer = t THEN "countWrite" ELSE "casWrite")
    /\ UNCHANGED <<flag, writeCount, sampled, guards, crash>>

(* compare_exchange_strong(EMPTY_FLAG, desired) succeeds. *)
CasWrite(t) ==
    /\ At(t, "casWrite")
    /\ flag = EmptyFlag
    /\ flag' = [writer |-> t, readers |-> 0]
    /\ Goto(t, "countWrite")
    /\ UNCHANGED <<writeCount, sampled, guards, crash>>

(* _writeCount++ *)
CountWrite(t) ==
    /\ At(t, "countWrite")
    /\ writeCount' = writeCount + 1
    /\ Constructed(t, "write")
    /\ UNCHANGED <<flag, sampled, crash>>

(* ReadLock, to the load that tells whether t is the writer. *)
ReadLock(t) ==
    /\ At(t, "user") /\ Len(guards[t]) < MaxNest
    /\ Goto(t, IF flag.writer = t THEN "addReader" ELSE "sample")
    /\ UNCHANGED <<flag, writeCount, sampled, guards, crash>>

(* The writer's _lockFlag.fetch_add(1). *)
AddReader(t) ==
    /\ At(t, "addReader")
    /\ flag' = [flag EXCEPT !.readers = @ + 1]
    /\ Constructed(t, "read")
    /\ UNCHANGED <<writeCount, sampled, crash>>

(* expected = _lockFlag.load() & READ_COUNT_MASK *)
Sample(t) ==
    /\ At(t, "sample")
    /\ sampled' = [sampled EXCEPT ![t] = flag.readers]
    /\ Goto(t, "casRead")
    /\ UNCHANGED <<flag, writeCount, guards, crash>>

(* Mistakes: only the count is compared; the count is stored, not compared. *)
CasReadCount(t) ==
    /\ At(t, "casRead")
    /\ flag.readers = sampled[t]
    /\ flag' = [flag EXCEPT !.readers = @ + 1]
    /\ sampled' = [sampled EXCEPT ![t] = 0]
    /\ Constructed(t, "read")
    /\ UNCHANGED <<writeCount, crash>>

CasReadStore(t) ==
    /\ At(t, "casRead")
    /\ flag.writer = Nobody
    /\ flag' = [flag EXCEPT !.readers = sampled[t] + 1]
    /\ sampled' = [sampled EXCEPT ![t] = 0]
    /\ Constructed(t, "read")
    /\ UNCHANGED <<writeCount, crash>>

(* compare_exchange_strong(expected, expected + 1) succeeds, or fails; either
   way `expected' goes out of scope. *)
CasRead(t) ==
    /\ At(t, "casRead")
    /\ flag = [writer |-> Nobody, readers |-> sampled[t]]
    /\ flag' = [flag EXCEPT !.readers = @ + 1]
    /\ sampled' = [sampled EXCEPT ![t] = 0]
    /\ Constructed(t, "read")
    /\ UNCHANGED <<writeCount, crash>>

(* Mistake: the count is not loaded again. *)
CasReadRepeats(t) ==
    /\ At(t, "casRead")
    /\ flag # [writer |-> Nobody, readers |-> sampled[t]]
    /\ UNCHANGED vars

CasReadFails(t) ==
    /\ At(t, "casRead")
    /\ flag # [writer |-> Nobody, readers |-> sampled[t]]
    /\ sampled' = [sampled EXCEPT ![t] = 0]
    /\ Goto(t, "sample")
    /\ UNCHANGED <<flag, writeCount, guards, crash>>

Waiting(t) == pc[t] \in {"casWrite", "sample", "casRead"}

(* MAX_SPIN_COUNT attempts failed and the time is over. *)
Timeout(t) ==
    /\ At(t, "casWrite") \/ At(t, "sample")
    /\ crash' = "LOCK_TIMEOUT"
    /\ UNCHANGED <<flag, writeCount, pc, sampled, guards>>

(* WriteUnlock, to the load that refuses while there are readers. *)
WriteUnlock(t) ==
    /\ At(t, "user") /\ Innermost(t, "write")
    /\ IF flag.readers # 0
         THEN crash' = "INVALID_UNLOCK_ORDER" /\ UNCHANGED pc
         ELSE Goto(t, "uncount") /\ UNCHANGED crash
    /\ UNCHANGED <<flag, writeCount, sampled, guards>>

(* Mistake: the end of an inner scope gives the lock back. *)
UncountAll(t) ==
    /\ At(t, "uncount")
    /\ writeCount' = writeCount - 1
    /\ Goto(t, "store")
    /\ UNCHANGED <<flag, sampled, guards, crash>>

(* lockCount = --_writeCount; an inner guard keeps the lock. *)
Uncount(t) ==
    /\ At(t, "uncount")
    /\ writeCount' = writeCount - 1
    /\ IF writeCount - 1 = 0
         THEN Goto(t, "store") /\ UNCHANGED guards
         ELSE Destroyed(t)
    /\ UNCHANGED <<flag, sampled, crash>>

(* _lockFlag.store(EMPTY_FLAG) *)
Store(t) ==
    /\ At(t, "store")
    /\ flag' = EmptyFlag
    /\ Destroyed(t)
    /\ UNCHANGED <<writeCount, sampled, crash>>

(* Mistake: the count after the subtraction is tested. *)
ReadUnlockLate(t) ==
    /\ At(t, "user") /\ Innermost(t, "read")
    /\ flag' = [flag EXCEPT !.readers = @ - 1]
    /\ IF flag.readers - 1 = 0
         THEN crash' = "MULTIPLE_UNLOCK" /\ UNCHANGED <<pc, guards>>
         ELSE Destroyed(t) /\ UNCHANGED crash
    /\ UNCHANGED <<writeCount, sampled>>

(* ReadUnlock: _lockFlag.fetch_sub(1), which must have found a reader. *)
ReadUnlock(t) ==
    /\ At(t, "user") /\ Innermost(t, "read")
    /\ flag' = [flag EXCEPT !.readers = @ - 1]
    /\ IF flag.readers = 0
         THEN crash' = "MULTIPLE_UNLOCK" /\ UNCHANGED <<pc, guards>>
         ELSE Destroyed(t) /\ UNCHANGED crash
    /\ UNCHANGED <<writeCount, sampled>>

------------------------------------------------------------------------------
(* What a thread does inside the lock, and to leave its scopes. *)
LockStep(t) ==
    \/ CasWrite(t) \/ CountWrite(t) \/ AddReader(t)
    \/ Sample(t) \/ CasRead(t) \/ CasReadFails(t)
    \/ Uncount(t) \/ Store(t)

Unlock(t) == WriteUnlock(t) \/ ReadUnlock(t)

Next == \E t \in Threads : \/ WriteLock(t) \/ ReadLock(t)
                           \/ LockStep(t) \/ Timeout(t) \/ Unlock(t)

Spec == Init /\ [][Next]_vars

(* Threads are scheduled and leave their scopes.  The spin gives no thread a
   turn, so nothing stronger is assumed of the contended exchanges. *)
Fairness == \A t \in Threads : WF_vars(LockStep(t)) /\ WF_vars(Unlock(t))

FairSpec == Spec /\ Fairness
------------------------------------------------------------------------------
Labels == {"user", "casWrite", "countWrite", "addReader", "sample", "casRead",
           "uncount", "store"}

(* Every variable has the type its declaration gives it. *)
TypeOK ==
    /\ flag \in [writer : Threads \cup {Nobody}, readers : Nat]
    /\ writeCount \in Nat
    /\ pc \in [Threads -> Labels]
    /\ sampled \in [Threads -> Int]
    /\ guards \in [Threads -> Seq({"read", "write"})]
    /\ crash \in {"none", "LOCK_TIMEOUT", "INVALID_UNLOCK_ORDER", "MULTIPLE_UNLOCK"}

GuardsOf(t, kind) == {i \in 1 .. Len(guards[t]) : guards[t][i] = kind}
Holds(t, kind) == GuardsOf(t, kind) # {}

(* While a thread is inside a write scope no other thread is inside any. *)
MutualExclusion ==
    \A t, u \in Threads : Holds(t, "write") /\ t # u => guards[u] = <<>>

ReadGuards == {g \in Threads \X (1 .. MaxNest) :
                  g[2] <= Len(guards[g[1]]) /\ guards[g[1]][g[2]] = "read"}

(* The counters are exact: the read half of _lockFlag counts the read guards
   of all threads, and _writeCount, which needs no atomicity because only the
   writer touches it, the write guards of that thread. *)
CountersExact ==
    /\ crash # "MULTIPLE_UNLOCK" => flag.readers = Cardinality(ReadGuards)
    /\ \A t \in Threads :
          /\ pc[t] \in {"countWrite", "uncount", "store"} => flag.writer = t
          /\ flag.writer = t =>
                writeCount = Cardinality(GuardsOf(t, "write"))
                             - IF pc[t] = "store" THEN 1 ELSE 0

(* A read scope left is never found unlocked already, and an unlock comes in
   the wrong order only when a write scope was opened inside a read scope. *)
CrashJustified ==
    /\ crash # "MULTIPLE_UNLOCK"
    /\ crash = "INVALID_UNLOCK_ORDER" =>
          \E t \in Threads : \E i, k \in 1 .. Len(guards[t]) :
              i < k /\ guards[t][i] = "read" /\ guards[t][k] = "write"

(* The spin lock, with its several steps, is a reader-writer lock. *)
Abstract == INSTANCE RWLock WITH
    held <- [t \in Threads |-> [read |-> Cardinality(GuardsOf(t, "read")),
                                write |-> Cardinality(GuardsOf(t, "write"))]]
ImplementsRWLock == Abstract!Spec

(* A free lock that somebody waits for is taken by somebody: the contenders
   never all back off, and no stale sample keeps a reader out for ever. *)
FreeIsTaken ==
    flag = EmptyFlag /\ (\E t \in Threads : Waiting(t))
        ~> flag # EmptyFlag \/ crash # "none"
==============================================================================
