------------------------------ MODULE JobQueue ------------------------------
(***************************************************************************)
(* The job scheduler of the server: JobQueue (JobQueue.cpp), the           *)
(* GlobalQueue of runnable job queues, the LockQueues below both, and the  *)
(* worker threads that drain the global queue                              *)
(* (ThreadManager::DoGlobalQueueWork).                                     *)
(*                                                                         *)
(* A JobQueue is an actor: any thread pushes jobs to it, and the thread    *)
(* that raises _jobCount from 0 makes it runnable.  _jobCount is raised    *)
(* BEFORE the job is in _jobs and lowered only AFTER the popped jobs ran,  *)
(* so the two fields never agree while a push or a batch is in progress;   *)
(* each of the steps between which other threads run is an action here.    *)
(* The critical sections of a LockQueue are atomic.                        *)
(*                                                                         *)
(* Time is abstracted to its outcomes: a batch may end before or after     *)
(* LEndTickCount, and a worker may at any time leave DoGlobalQueueWork,    *)
(* where it does what an idle thread here may do.                          *)
(***************************************************************************)
EXTENDS Integers, Sequences, FiniteSets

CONSTANTS Threads,    (* the threads of the process                        *)
          Queues,     (* the JobQueue objects                              *)
          Jobs,       (* the jobs; each is pushed at most once             *)
          None,       (* nullptr                                           *)
          MaxClears   (* bound: how often ClearJobs may find jobs to drop  *)

ASSUME ThreadsAssumption == IsFiniteSet(Threads)
ASSUME NoneAssumption == None \notin Queues \cup Jobs
ASSUME ClearsAssumption == MaxClears \in Nat

VARIABLES
    jobs,         (* jobs[q]: _jobs, the LockQueue of waiting jobs          *)
    jobCount,     (* jobCount[q]: _jobCount                                 *)
    globalQueue,  (* GGlobalQueue->_jobQueues                               *)
    current,      (* current[t]: LCurrentJobQueue                           *)
    call,         (* call[t]: the Push on t's stack, or NoCall              *)
    exec,         (* exec[t]: the Execute on t's stack, or Idle             *)
    fresh,        (* the jobs not yet pushed                                *)
    cleared       (* cleared[q]: history, the jobs ClearJobs has dropped    *)

vars == <<jobs, jobCount, globalQueue, current, call, exec, fresh, cleared>>

(* Push's locals: where it is, its arguments, and prevCount = 0. *)
NoCall == [at |-> "none", queue |-> None, job |-> None, first |-> FALSE, pushOnly |-> TRUE]

(* Execute's locals: where it is, `this', the jobs of the vector still to
   run (the head of `batch' is running) and jobCount, the vector's size. *)
Idle == [at |-> "idle", queue |-> None, batch |-> <<>>, popped |-> 0]

Entered(q) == [at |-> "popAll", queue |-> q, batch |-> <<>>, popped |-> 0]

Init ==
    /\ jobs = [q \in Queues |-> <<>>]
    /\ jobCount = [q \in Queues |-> 0]
    /\ globalQueue = <<>>
    /\ current = [t \in Threads |-> None]
    /\ call = [t \in Threads |-> NoCall]
    /\ exec = [t \in Threads |-> Idle]
    /\ fresh = Jobs
    /\ cleared = [q \in Queues |-> 0]

------------------------------------------------------------------------------
(* User code runs on t: a packet handler or the timer outside Execute, or
   the callback of the job at the head of the batch. *)
InUserCode(t) ==
    /\ call[t] = NoCall
    /\ exec[t].at = "idle" \/ (exec[t].at = "run" /\ exec[t].batch # <<>>)

(* Mistake: the emptiness of _jobs decides, not the count. *)
PushIfEmpty(t, q, j, pushOnly) ==
    /\ InUserCode(t)
    /\ j \in fresh
    /\ fresh' = fresh \ {j}
    /\ call' = [call EXCEPT ![t] = [at |-> "enqueue", queue |-> q, job |-> j,
                                    first |-> jobs[q] = <<>>, pushOnly |-> pushOnly]]
    /\ jobCount' = [jobCount EXCEPT ![q] = @ + 1]
    /\ UNCHANGED <<jobs, globalQueue, current, exec, cleared>>

(* Push up to its fetch_add, which decides whether this call schedules q. *)
Push(t, q, j, pushOnly) ==
    /\ InUserCode(t)
    /\ j \in fresh
    /\ fresh' = fresh \ {j}
    /\ call' = [call EXCEPT ![t] = [at |-> "enqueue", queue |-> q, job |-> j,
                                    first |-> jobCount[q] = 0, pushOnly |-> pushOnly]]
    /\ jobCount' = [jobCount EXCEPT ![q] = @ + 1]
    /\ UNCHANGED <<jobs, globalQueue, current, exec, cleared>>

(* Mistake: the job overtakes those that wait. *)
EnqueueFirst(t) ==
    /\ call[t].at = "enqueue"
    /\ jobs' = [jobs EXCEPT ![call[t].queue] = <<call[t].job>> \o @]
    /\ call' = [call EXCEPT ![t] = IF @.first THEN [@ EXCEPT !.at = "schedule"] ELSE NoCall]
    /\ UNCHANGED <<jobCount, globalQueue, current, exec, fresh, cleared>>

(* _jobs.Push(job); a call that did not find the count 0 returns. *)
Enqueue(t) ==
    /\ call[t].at = "enqueue"
    /\ jobs' = [jobs EXCEPT ![call[t].queue] = Append(@, call[t].job)]
    /\ call' = [call EXCEPT ![t] = IF @.first THEN [@ EXCEPT !.at = "schedule"] ELSE NoCall]
    /\ UNCHANGED <<jobCount, globalQueue, current, exec, fresh, cleared>>

(* The first pusher hands the queue to the workers ... *)
ScheduleGlobal(t) ==
    /\ call[t].at = "schedule"
    /\ current[t] # None \/ call[t].pushOnly
    /\ globalQueue' = Append(globalQueue, call[t].queue)
    /\ call' = [call EXCEPT ![t] = NoCall]
    /\ UNCHANGED <<jobs, jobCount, current, exec, fresh, cleared>>

(* ... or, when asked to and not already in an Execute, runs it itself.
   Push does nothing after Execute, so its frame is dropped here. *)
ScheduleInline(t) ==
    /\ call[t].at = "schedule"
    /\ current[t] = None /\ ~call[t].pushOnly
    /\ exec' = [exec EXCEPT ![t] = Entered(call[t].queue)]
    /\ current' = [current EXCEPT ![t] = call[t].queue]
    /\ call' = [call EXCEPT ![t] = NoCall]
    /\ UNCHANGED <<jobs, jobCount, globalQueue, fresh, cleared>>

(* DoGlobalQueueWork pops a runnable queue and enters Execute. *)
Take(t) ==
    /\ exec[t] = Idle /\ call[t] = NoCall
    /\ globalQueue # <<>>
    /\ globalQueue' = Tail(globalQueue)
    /\ exec' = [exec EXCEPT ![t] = Entered(Head(globalQueue))]
    /\ current' = [current EXCEPT ![t] = Head(globalQueue)]
    /\ UNCHANGED <<jobs, jobCount, call, fresh, cleared>>

(* Pop returns nullptr: the worker goes round its loop. *)
TakeNothing(t) ==
    /\ exec[t] = Idle /\ call[t] = NoCall
    /\ globalQueue = <<>>
    /\ UNCHANGED vars

(* Mistake: one job too few is counted. *)
PopAllShort(t) ==
    LET q == exec[t].queue IN
    /\ exec[t].at = "popAll"
    /\ exec' = [exec EXCEPT ![t] = [@ EXCEPT !.at = "run", !.batch = jobs[q],
                                             !.popped = Len(jobs[q]) - 1]]
    /\ jobs' = [jobs EXCEPT ![q] = <<>>]
    /\ UNCHANGED <<jobCount, globalQueue, current, call, fresh, cleared>>

(* _jobs.PopAll(jobs) *)
PopAll(t) ==
    LET q == exec[t].queue IN
    /\ exec[t].at = "popAll"
    /\ exec' = [exec EXCEPT ![t] = [@ EXCEPT !.at = "run", !.batch = jobs[q],
                                             !.popped = Len(jobs[q])]]
    /\ jobs' = [jobs EXCEPT ![q] = <<>>]
    /\ UNCHANGED <<jobCount, globalQueue, current, call, fresh, cleared>>

(* The running job's callback returns. *)
RunJob(t) ==
    /\ exec[t].at = "run" /\ exec[t].batch # <<>> /\ call[t] = NoCall
    /\ exec' = [exec EXCEPT ![t].batch = Tail(@)]
    /\ UNCHANGED <<jobs, jobCount, globalQueue, current, call, fresh, cleared>>

(* Mistake: the batch is counted as one job. *)
SubtractOne(t) ==
    /\ exec[t].at = "run" /\ exec[t].batch = <<>>
    /\ jobCount' = [jobCount EXCEPT ![exec[t].queue] = @ - 1]
    /\ UNCHANGED <<jobs, globalQueue, call, fresh, cleared>>

(* _jobCount.fetch_sub(jobCount), once the batch is done. *)
SubtractBatch(t) ==
    /\ exec[t].at = "run" /\ exec[t].batch = <<>>
    /\ jobCount' = [jobCount EXCEPT ![exec[t].queue] = @ - exec[t].popped]
    /\ UNCHANGED <<jobs, globalQueue, call, fresh, cleared>>

LastBatch(t) == jobCount[exec[t].queue] = exec[t].popped

Finish(t) ==
    /\ SubtractBatch(t) /\ LastBatch(t)
    /\ exec' = [exec EXCEPT ![t] = Idle]
    /\ current' = [current EXCEPT ![t] = None]

(* More was pushed meanwhile and now < LEndTickCount: go round the loop. *)
Continue(t) ==
    /\ SubtractBatch(t) /\ ~LastBatch(t)
    /\ exec' = [exec EXCEPT ![t] = Entered(@.queue)]
    /\ UNCHANGED current

(* Mistake: LCurrentJobQueue is left set. *)
YieldAsCurrent(t) ==
    /\ SubtractBatch(t) /\ ~LastBatch(t)
    /\ exec' = [exec EXCEPT ![t] = [Entered(@.queue) EXCEPT !.at = "repush"]]
    /\ UNCHANGED current

(* More was pushed meanwhile but the time slice is over ... *)
Yield(t) ==
    /\ SubtractBatch(t) /\ ~LastBatch(t)
    /\ exec' = [exec EXCEPT ![t] = [Entered(@.queue) EXCEPT !.at = "repush"]]
    /\ current' = [current EXCEPT ![t] = None]

(* Mistake: the queue is left to the next pusher. *)
RepushNothing(t) ==
    /\ exec[t].at = "repush"
    /\ exec' = [exec EXCEPT ![t] = Idle]
    /\ UNCHANGED <<globalQueue, jobs, jobCount, current, call, fresh, cleared>>

(* ... so the queue goes to the back of the global queue. *)
Repush(t) ==
    /\ exec[t].at = "repush"
    /\ globalQueue' = Append(globalQueue, exec[t].queue)
    /\ exec' = [exec EXCEPT ![t] = Idle]
    /\ UNCHANGED <<jobs, jobCount, current, call, fresh, cleared>>

(* ClearJobs empties _jobs and leaves _jobCount as it is. *)
ClearJobs(t, q) ==
    /\ InUserCode(t)
    /\ jobs[q] # <<>> /\ cleared[q] < MaxClears
    /\ jobs' = [jobs EXCEPT ![q] = <<>>]
    /\ cleared' = [cleared EXCEPT ![q] = @ + Len(jobs[q])]
    /\ UNCHANGED <<jobCount, globalQueue, current, call, exec, fresh>>

------------------------------------------------------------------------------
(* The steps a thread takes once called; user code decides on the others. *)
ThreadStep(t) ==
    \/ Enqueue(t) \/ ScheduleGlobal(t) \/ ScheduleInline(t)
    \/ Take(t) \/ PopAll(t) \/ RunJob(t)
    \/ Finish(t) \/ Continue(t) \/ Yield(t) \/ Repush(t)

Next ==
    \E t \in Threads :
        \/ \E q \in Queues, j \in Jobs, pushOnly \in BOOLEAN : Push(t, q, j, pushOnly)
        \/ \E q \in Queues : ClearJobs(t, q)
        \/ ThreadStep(t)
        \/ TakeNothing(t)

Spec == Init /\ [][Next]_vars

(* Threads are scheduled, callbacks return, and a loop of Execute that goes
   on for ever sees the clock pass LEndTickCount. *)
Fairness == \A t \in Threads : WF_vars(ThreadStep(t)) /\ SF_vars(Yield(t))

FairSpec == Spec /\ Fairness
------------------------------------------------------------------------------
Calls == [at : {"none", "enqueue", "schedule"}, queue : Queues \cup {None},
          job : Jobs \cup {None}, first : BOOLEAN, pushOnly : BOOLEAN]

Frames == [at : {"idle", "popAll", "run", "repush"}, queue : Queues \cup {None},
           batch : Seq(Jobs), popped : Nat]

(* Every variable has the type its declaration gives it. *)
TypeOK ==
    /\ jobs \in [Queues -> Seq(Jobs)]
    /\ jobCount \in [Queues -> Int]
    /\ globalQueue \in Seq(Queues)
    /\ current \in [Threads -> Queues \cup {None}]
    /\ call \in [Threads -> Calls]
    /\ exec \in [Threads -> Frames]
    /\ fresh \subseteq Jobs
    /\ cleared \in [Queues -> Nat]

(* The right to run q is a token: held by the Push that found the count 0
   until it has scheduled q, by an entry of the global queue, or by an
   Execute until it finishes or re-queues q. *)
Scheduling(t, q) == call[t].first /\ call[t].queue = q
Executing(t, q) == exec[t].queue = q
Listed(q) == \E i \in 1 .. Len(globalQueue) : globalQueue[i] = q
Owned(q) == Listed(q) \/ \E t \in Threads : Scheduling(t, q) \/ Executing(t, q)

(* A queue never has two tokens: its jobs never run on two threads at once,
   and it is never in the global queue twice or while it is executed. *)
SoleOwner ==
    \A q \in Queues :
        /\ \A i, k \in 1 .. Len(globalQueue) :
              globalQueue[i] = q /\ globalQueue[k] = q => i = k
        /\ \A t, u \in Threads :
              /\ Executing(t, q) /\ Executing(u, q) => t = u
              /\ Scheduling(t, q) /\ Scheduling(u, q) => t = u
              /\ ~(Scheduling(t, q) /\ Executing(u, q))
        /\ Listed(q) => \A t \in Threads : ~Scheduling(t, q) /\ ~Executing(t, q)

(* A queue has a token exactly while its count is not 0: no counted job is
   left on a queue that nobody will execute, and no thread executes a queue
   whose next pusher would schedule it again. *)
OwnedWhileCounted == \A q \in Queues : Owned(q) <=> jobCount[q] # 0

Enqueuers(q) == {t \in Threads : call[t].at = "enqueue" /\ call[t].queue = q}
Batched(q) == IF \E t \in Threads : Executing(t, q)
              THEN exec[CHOOSE t \in Threads : Executing(t, q)].popped ELSE 0

(* _jobCount is the waiting jobs, the pushes between fetch_add and _jobs.Push,
   the batch not yet subtracted, and for ever the jobs ClearJobs dropped:
   after a ClearJobs that found jobs, a queue never becomes idle again. *)
CountAccounts ==
    \A q \in Queues :
        jobCount[q] = Len(jobs[q]) + Cardinality(Enqueuers(q)) + Batched(q) + cleared[q]

(* LCurrentJobQueue names the Execute on the thread's stack, so that Push
   with pushOnly = false never enters an Execute inside another. *)
CurrentIsExecuted ==
    \A t \in Threads :
        current[t] = IF exec[t].at \in {"popAll", "run"} THEN exec[t].queue ELSE None

(* The jobs of q not yet run, in the order they will run. *)
Backlog(q) ==
    LET running == {t \in Threads : Executing(t, q) /\ exec[t].batch # <<>>}
    IN  (IF running = {} THEN <<>> ELSE exec[CHOOSE t \in running : TRUE].batch) \o jobs[q]

MB == INSTANCE Mailbox WITH mail <- [q \in Queues |-> Backlog(q)]

(* Whatever the interleaving of pushers and workers, a JobQueue behaves as a
   mailbox: one job at a time, in order, none lost or run twice. *)
ImplementsMailbox == MB!Spec

Pending(j) ==
    \/ \E t \in Threads : call[t].at = "enqueue" /\ call[t].job = j
    \/ \E q \in Queues : \E i \in 1 .. Len(Backlog(q)) : Backlog(q)[i] = j

(* A pushed job is eventually run, or dropped by ClearJobs: in particular a
   queue re-queued after its time slice is taken up again. *)
EveryJobLeaves == \A j \in Jobs : j \notin fresh ~> ~Pending(j)

(* A queue nobody clears eventually leaves the workers alone. *)
QueueDrains ==
    \A q \in Queues : jobCount[q] # 0 ~> jobCount[q] = 0 \/ cleared[q] > 0
==============================================================================
