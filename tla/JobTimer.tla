------------------------------ MODULE JobTimer ------------------------------
(***************************************************************************)
(* The job timer: JobQueue::DoTimer reserves a job for a later tick, and   *)
(* every worker, once a turn, pushes the jobs that are due to their        *)
(* queues.  What a queue does with a pushed job is the subject of          *)
(* JobQueue; here the pushes are a history.                                *)
(*                                                                         *)
(* The lock guards the heap only.  A deadline is computed before the lock  *)
(* is taken, `now' is read before _distributing is set, and the jobs are   *)
(* pushed after the lock was left: these are the steps below.              *)
(*                                                                         *)
(* A reservation keeps a weak pointer to the queue, so the queue may be    *)
(* gone when the job is due.  A job that calls a member function of the    *)
(* queue keeps its queue alive, a plain callback does not.                 *)
(***************************************************************************)
EXTENDS Integers, SequencesExt

CONSTANTS Workers,     (* the threads that run DoWorkerJob                   *)
          Jobs,        (* the jobs; each is reserved at most once            *)
          Owners,      (* the job queues                                     *)
          Owner,       (* Owner[j]: the queue j is reserved by               *)
          MemberJobs,  (* the jobs that are member functions of their queue  *)
          MaxTick      (* bound: the last tick of the clock                  *)

ASSUME JobsAssumption ==
    IsFiniteSet(Jobs) /\ Owner \in [Jobs -> Owners] /\ MemberJobs \subseteq Jobs
ASSUME TickAssumption == MaxTick \in Nat

VARIABLES
    now,           (* GetTickCount64                                         *)
    held,          (* the queues that something other than the timer keeps   *)
    reserving,     (* the jobs whose Reserve has yet to take the lock        *)
    executeTick,   (* executeTick[j]: the deadline Reserve computed          *)
    items,         (* _items                                                 *)
    distributing,  (* _distributing                                          *)
    pc,            (* pc[w]: where w is in DistributeReservedJobs            *)
    sampled,       (* sampled[w]: its `now'                                  *)
    batch,         (* batch[w]: Distribute's local items still to push       *)
    pushed,        (* history, the jobs pushed to their queues               *)
    lost,          (* history, the jobs whose queue was gone when due        *)
    cleared,       (* history, the jobs Clear has dropped                    *)
    before         (* before[j]: history, the jobs taken out before j was in *)

vars == <<now, held, reserving, executeTick, items, distributing, pc, sampled, batch,
          pushed, lost, cleared, before>>

Init ==
    /\ now = 0 /\ held = Owners
    /\ reserving = {} /\ items = {} /\ distributing = FALSE
    /\ executeTick = [j \in Jobs |-> 0]
    /\ pc = [w \in Workers |-> "idle"]
    /\ sampled = [w \in Workers |-> 0]
    /\ batch = [w \in Workers |-> <<>>]
    /\ pushed = <<>> /\ lost = {} /\ cleared = {}
    /\ before = [j \in Jobs |-> {}]

InBatches == UNION {Range(batch[w]) : w \in Workers}
Taken == InBatches \cup Range(pushed) \cup lost \cup cleared
Fresh == Jobs \ (reserving \cup items \cup Taken)

(* The thread that reserves and the jobs that call q's functions have
   pointers to q. *)
Alive(q) ==
    \/ q \in held
    \/ \E j \in reserving : Owner[j] = q
    \/ \E j \in items \cup InBatches : j \in MemberJobs /\ Owner[j] = q
------------------------------------------------------------------------------
Tick ==
    /\ now < MaxTick
    /\ now' = now + 1
    /\ UNCHANGED <<held, reserving, executeTick, items, distributing, pc, sampled, batch,
                   pushed, lost, cleared, before>>

(* The last pointer outside of the timer goes. *)
Release(q) ==
    /\ q \in held
    /\ held' = held \ {q}
    /\ UNCHANGED <<now, reserving, executeTick, items, distributing, pc, sampled, batch,
                   pushed, lost, cleared, before>>

(* DoTimer and Reserve up to the lock. *)
DoTimer(j, tickAfter) ==
    /\ j \in Fresh /\ Owner[j] \in held
    /\ now + tickAfter <= MaxTick
    /\ executeTick' = [executeTick EXCEPT ![j] = now + tickAfter]
    /\ reserving' = reserving \cup {j}
    /\ UNCHANGED <<now, held, items, distributing, pc, sampled, batch,
                   pushed, lost, cleared, before>>

(* Reserve's critical section. *)
Reserve(j) ==
    /\ j \in reserving
    /\ reserving' = reserving \ {j}
    /\ items' = items \cup {j}
    /\ before' = [before EXCEPT ![j] = Taken]
    /\ UNCHANGED <<now, held, executeTick, distributing, pc, sampled, batch,
                   pushed, lost, cleared>>

(* DistributeReservedJobs reads the clock. *)
DistributeReservedJobs(w) ==
    /\ pc[w] = "idle"
    /\ sampled' = [sampled EXCEPT ![w] = now]
    /\ pc' = [pc EXCEPT ![w] = "enter"]
    /\ UNCHANGED <<now, held, reserving, executeTick, items, distributing, batch,
                   pushed, lost, cleared, before>>

(* Mistake: two workers may distribute. *)
EnterAnyway(w) ==
    /\ pc[w] = "enter"
    /\ distributing' = TRUE
    /\ pc' = [pc EXCEPT ![w] = "collect"]
    /\ UNCHANGED <<now, held, reserving, executeTick, items, sampled, batch,
                   pushed, lost, cleared, before>>

(* Distribute's exchange: only one worker goes on. *)
Enter(w) ==
    /\ pc[w] = "enter"
    /\ distributing' = TRUE
    /\ pc' = [pc EXCEPT ![w] = IF distributing THEN "idle" ELSE "collect"]
    /\ UNCHANGED <<now, held, reserving, executeTick, items, sampled, batch,
                   pushed, lost, cleared, before>>

(* The items that have become due by the given tick. *)
Due(tick) == {j \in items : executeTick[j] <= tick}

(* The orders in which the heap may give up S; it is not stable. *)
HeapOrders(S) ==
    {s \in SetToSeqs(S) : \A i, k \in DOMAIN s : i < k => executeTick[s[i]] <= executeTick[s[k]]}

(* Mistake: what was taken is not popped. *)
CollectCopies(w) ==
    /\ pc[w] = "collect"
    /\ \E s \in HeapOrders(Due(sampled[w])) : batch' = [batch EXCEPT ![w] = s]
    /\ pc' = [pc EXCEPT ![w] = "push"]
    /\ UNCHANGED <<now, held, reserving, executeTick, items, distributing, sampled,
                   pushed, lost, cleared, before>>

(* Distribute's critical section. *)
Collect(w) ==
    /\ pc[w] = "collect"
    /\ \E s \in HeapOrders(Due(sampled[w])) : batch' = [batch EXCEPT ![w] = s]
    /\ items' = items \ Due(sampled[w])
    /\ pc' = [pc EXCEPT ![w] = "push"]
    /\ UNCHANGED <<now, held, reserving, executeTick, distributing, sampled,
                   pushed, lost, cleared, before>>

(* A turn of Distribute's loop; a pushed job's queue is runnable and so kept
   by the global queue. *)
Push(w) ==
    /\ pc[w] = "push" /\ batch[w] # <<>>
    /\ LET j == Head(batch[w]) IN
          \/ /\ Alive(Owner[j])
             /\ pushed' = Append(pushed, j)
             /\ held' = held \cup {Owner[j]}
             /\ UNCHANGED lost
          \/ /\ ~Alive(Owner[j])
             /\ lost' = lost \cup {j}
             /\ UNCHANGED <<pushed, held>>
    /\ batch' = [batch EXCEPT ![w] = Tail(@)]
    /\ UNCHANGED <<now, reserving, executeTick, items, distributing, pc, sampled, cleared, before>>

(* Mistake: _distributing stays set. *)
LeaveClosed(w) ==
    /\ pc[w] = "push" /\ batch[w] = <<>>
    /\ pc' = [pc EXCEPT ![w] = "idle"]
    /\ UNCHANGED <<now, held, reserving, executeTick, items, distributing, sampled, batch,
                   pushed, lost, cleared, before>>

Leave(w) ==
    /\ pc[w] = "push" /\ batch[w] = <<>>
    /\ distributing' = FALSE
    /\ pc' = [pc EXCEPT ![w] = "idle"]
    /\ UNCHANGED <<now, held, reserving, executeTick, items, sampled, batch,
                   pushed, lost, cleared, before>>

(* Nothing in the repository calls it. *)
Clear ==
    /\ items # {}
    /\ cleared' = cleared \cup items
    /\ items' = {}
    /\ UNCHANGED <<now, held, reserving, executeTick, distributing, pc, sampled, batch,
                   pushed, lost, before>>

WorkerTurn(w) ==
    DistributeReservedJobs(w) \/ Enter(w) \/ Collect(w) \/ Push(w) \/ Leave(w)

Next ==
    \/ Tick
    \/ \E q \in Owners : Release(q)
    \/ \E j \in Jobs : Reserve(j) \/ \E tickAfter \in 0 .. MaxTick : DoTimer(j, tickAfter)
    \/ \E w \in Workers : WorkerTurn(w)
    \/ Clear

Spec == Init /\ [][Next]_vars

(* The clock moves on, a Reserve that has begun ends, and every worker takes
   its turns. *)
FairSpec ==
    /\ Spec
    /\ WF_vars(Tick)
    /\ \A j \in Jobs : WF_vars(Reserve(j))
    /\ \A w \in Workers : WF_vars(WorkerTurn(w))
------------------------------------------------------------------------------
(* Every variable has the type its declaration gives it, and no job is in two
   places of the timer or pushed twice, so none is deleted twice. *)
TypeOK ==
    /\ now \in 0 .. MaxTick /\ held \subseteq Owners /\ distributing \in BOOLEAN
    /\ executeTick \in [Jobs -> 0 .. MaxTick] /\ before \in [Jobs -> SUBSET Jobs]
    /\ pc \in [Workers -> {"idle", "enter", "collect", "push"}]
    /\ sampled \in [Workers -> 0 .. MaxTick]
    /\ batch \in [Workers -> Seq(Jobs)] /\ \A w \in Workers : IsInjective(batch[w])
    /\ pushed \in Seq(Jobs) /\ IsInjective(pushed)
    /\ \A v, w \in Workers : v # w => Range(batch[v]) \cap Range(batch[w]) = {}
    /\ LET places == <<reserving, items, InBatches, Range(pushed), lost, cleared>> IN
          /\ \A i \in DOMAIN places : places[i] \subseteq Jobs
          /\ \A i, k \in DOMAIN places : i # k => places[i] \cap places[k] = {}

(* Jobs are pushed in the order of their deadlines, whichever workers push
   them, unless the earlier one came into the heap after the later one had
   been taken out. *)
PushedInOrder ==
    \A i, k \in DOMAIN pushed :
        i < k => \/ executeTick[pushed[i]] <= executeTick[pushed[k]]
                 \/ pushed[i] \in before[pushed[k]]

(* Every reserved job is pushed, unless Clear drops it or it is a plain
   callback whose queue is gone by then. *)
ReservedIsPushed ==
    \A j \in Jobs :
        j \in reserving ~> \/ j \in Range(pushed) \cup cleared
                           \/ j \in lost \ MemberJobs /\ ~Alive(Owner[j])
==============================================================================
