--------------------------- MODULE JobQueueProofs ---------------------------
(***************************************************************************)
(* Proofs about JobQueue for every set of threads, queues and jobs: types, *)
(* the token discipline that makes a queue an actor, the accounting of     *)
(* _jobCount it rests on, and that a queue is a mailbox to its users.      *)
(***************************************************************************)
EXTENDS JobQueue, FiniteSetTheorems, SequenceTheorems, TLAPS

(* The frames on one thread's stack and its LCurrentJobQueue fit together. *)
FrameOK(c, e, cur) ==
    /\ c.at = "none" => c = NoCall
    /\ c.at # "none" => /\ c.queue \in Queues
                        /\ c.job \in Jobs
                        /\ \/ e.at = "idle"
                           \/ e.at = "run" /\ e.batch # <<>>
    /\ c.at = "schedule" => c.first
    /\ e.at = "idle" => e = Idle
    /\ e.at # "idle" => e.queue \in Queues
    /\ e.at \in {"popAll", "repush"} => e.popped = 0 /\ e.batch = <<>>
    /\ cur = IF e.at \in {"popAll", "run"} THEN e.queue ELSE None

LocalInv == TypeOK /\ \A t \in Threads : FrameOK(call[t], exec[t], current[t])

(* The initial state is well formed. *)
LEMMA InitLocal == Init => LocalInv
<1> SUFFICES ASSUME Init PROVE LocalInv
  OBVIOUS
<1>1. TypeOK
  BY DEF Init, TypeOK, NoCall, Idle, Calls, Frames
<1>2. \A t \in Threads : FrameOK(call[t], exec[t], current[t])
  BY DEF Init, FrameOK, NoCall, Idle
<1> QED
  BY <1>1, <1>2 DEF LocalInv

(* What a step must show of the thread that takes it: the new frames have
   their types and fit together. *)
LEMMA OneThread ==
    ASSUME LocalInv, NEW t \in Threads,
           NEW c \in Calls, NEW e \in Frames, NEW cur \in Queues \cup {None},
           FrameOK(c, e, cur),
           call' = [call EXCEPT ![t] = c],
           exec' = [exec EXCEPT ![t] = e],
           current' = [current EXCEPT ![t] = cur],
           jobs' \in [Queues -> Seq(Jobs)], jobCount' \in [Queues -> Int],
           globalQueue' \in Seq(Queues), fresh' \subseteq Jobs,
           cleared' \in [Queues -> Nat]
    PROVE  LocalInv'
<1>1. TypeOK'
  BY DEF LocalInv, TypeOK
<1>2. ASSUME NEW u \in Threads PROVE FrameOK(call'[u], exec'[u], current'[u])
  <2>1. CASE u = t
    BY <2>1 DEF LocalInv, TypeOK
  <2>2. CASE u # t
    <3>1. call'[u] = call[u] /\ exec'[u] = exec[u] /\ current'[u] = current[u]
      BY <2>2 DEF LocalInv, TypeOK
    <3> QED
      BY <3>1 DEF LocalInv
  <2> QED
    BY <2>1, <2>2
<1> QED
  BY <1>1, <1>2 DEF LocalInv, FrameOK

(* The types of the parts of a well-formed state a step looks at. *)
LEMMA LocalFacts ==
    ASSUME LocalInv, NEW t \in Threads
    PROVE  /\ call[t] \in Calls /\ exec[t] \in Frames /\ current[t] \in Queues \cup {None}
           /\ FrameOK(call[t], exec[t], current[t])
           /\ NoCall \in Calls /\ Idle \in Frames
           /\ \A q \in Queues : /\ Entered(q) \in Frames
                                /\ jobs[q] \in Seq(Jobs) /\ Len(jobs[q]) \in Nat
                                /\ jobCount[q] \in Int /\ cleared[q] \in Nat
BY DEF LocalInv, TypeOK, Calls, Frames, NoCall, Idle, Entered

(* Every step keeps every thread's frames well formed. *)
LEMMA NextLocal == LocalInv /\ [Next]_vars => LocalInv'
<1> SUFFICES ASSUME LocalInv, [Next]_vars PROVE LocalInv'
  OBVIOUS
<1> USE DEF LocalInv
<1>T. TypeOK
  OBVIOUS
<1>1. ASSUME NEW t \in Threads, NEW q \in Queues, NEW j \in Jobs, NEW b \in BOOLEAN,
             Push(t, q, j, b)
      PROVE  LocalInv'
  <2> DEFINE c == [at |-> "enqueue", queue |-> q, job |-> j,
                   first |-> jobCount[q] = 0, pushOnly |-> b]
  <2>1. c \in Calls
    BY DEF Calls
  <2>2. FrameOK(c, exec[t], current[t])
    BY <1>1, LocalFacts DEF Push, InUserCode, FrameOK
  <2>3. /\ call' = [call EXCEPT ![t] = c]
        /\ exec' = [exec EXCEPT ![t] = exec[t]]
        /\ current' = [current EXCEPT ![t] = current[t]]
    BY <1>1, <1>T DEF Push, TypeOK
  <2>4. /\ jobs' \in [Queues -> Seq(Jobs)] /\ jobCount' \in [Queues -> Int]
        /\ globalQueue' \in Seq(Queues) /\ fresh' \subseteq Jobs /\ cleared' \in [Queues -> Nat]
    BY <1>1, <1>T DEF Push, TypeOK
  <2> HIDE DEF c
  <2> QED
    BY <2>1, <2>2, <2>3, <2>4, OneThread, LocalFacts
<1>2. ASSUME NEW t \in Threads, Enqueue(t) PROVE LocalInv'
  <2> DEFINE c == IF call[t].first THEN [call[t] EXCEPT !.at = "schedule"] ELSE NoCall
  <2>1. c \in Calls
    BY LocalFacts DEF Calls
  <2>2. FrameOK(c, exec[t], current[t])
    BY <1>2, LocalFacts DEF Enqueue, FrameOK, NoCall, Calls
  <2>3. /\ call' = [call EXCEPT ![t] = c]
        /\ exec' = [exec EXCEPT ![t] = exec[t]]
        /\ current' = [current EXCEPT ![t] = current[t]]
    BY <1>2, <1>T DEF Enqueue, TypeOK
  <2>4. jobs' \in [Queues -> Seq(Jobs)]
    <3>1. call[t].queue \in Queues /\ call[t].job \in Jobs
      BY <1>2, LocalFacts DEF FrameOK, Enqueue
    <3>2. Append(jobs[call[t].queue], call[t].job) \in Seq(Jobs)
      BY <3>1, LocalFacts
    <3> QED
      BY <3>1, <3>2, <1>2, <1>T DEF Enqueue, TypeOK
  <2>5. /\ jobCount' \in [Queues -> Int]
        /\ globalQueue' \in Seq(Queues) /\ fresh' \subseteq Jobs /\ cleared' \in [Queues -> Nat]
    BY <1>2, <1>T DEF Enqueue, TypeOK
  <2> HIDE DEF c
  <2> QED
    BY <2>1, <2>2, <2>3, <2>4, <2>5, OneThread, LocalFacts
<1>3. ASSUME NEW t \in Threads, ScheduleGlobal(t) PROVE LocalInv'
  <2>1. FrameOK(NoCall, exec[t], current[t])
    BY LocalFacts DEF FrameOK, NoCall
  <2>2. /\ call' = [call EXCEPT ![t] = NoCall]
        /\ exec' = [exec EXCEPT ![t] = exec[t]]
        /\ current' = [current EXCEPT ![t] = current[t]]
    BY <1>3, <1>T DEF ScheduleGlobal, TypeOK
  <2>3. globalQueue' \in Seq(Queues)
    BY <1>3, <1>T, LocalFacts DEF ScheduleGlobal, TypeOK, FrameOK
  <2>4. /\ jobs' \in [Queues -> Seq(Jobs)] /\ jobCount' \in [Queues -> Int]
        /\ fresh' \subseteq Jobs /\ cleared' \in [Queues -> Nat]
    BY <1>3, <1>T DEF ScheduleGlobal, TypeOK
  <2> QED
    BY <2>1, <2>2, <2>3, <2>4, OneThread, LocalFacts
<1>4. ASSUME NEW t \in Threads, ScheduleInline(t) PROVE LocalInv'
  <2> DEFINE q == call[t].queue
  <2>1. q \in Queues
    BY <1>4, LocalFacts DEF ScheduleInline, FrameOK
  <2>2. FrameOK(NoCall, Entered(q), q)
    BY <2>1 DEF FrameOK, NoCall, Entered
  <2>3. /\ call' = [call EXCEPT ![t] = NoCall]
        /\ exec' = [exec EXCEPT ![t] = Entered(q)]
        /\ current' = [current EXCEPT ![t] = q]
    BY <1>4 DEF ScheduleInline
  <2>4. /\ jobs' \in [Queues -> Seq(Jobs)] /\ jobCount' \in [Queues -> Int]
        /\ globalQueue' \in Seq(Queues) /\ fresh' \subseteq Jobs /\ cleared' \in [Queues -> Nat]
    BY <1>4, <1>T DEF ScheduleInline, TypeOK
  <2> QED
    BY <2>1, <2>2, <2>3, <2>4, OneThread, LocalFacts
<1>5. ASSUME NEW t \in Threads, Take(t) PROVE LocalInv'
  <2> DEFINE q == Head(globalQueue)
  <2>1. q \in Queues /\ Tail(globalQueue) \in Seq(Queues)
    BY <1>5, <1>T, HeadTailProperties DEF Take, TypeOK
  <2>2. FrameOK(NoCall, Entered(q), q)
    BY <2>1 DEF FrameOK, NoCall, Entered
  <2>3. /\ call' = [call EXCEPT ![t] = NoCall]
        /\ exec' = [exec EXCEPT ![t] = Entered(q)]
        /\ current' = [current EXCEPT ![t] = q]
    BY <1>5, <1>T DEF Take, TypeOK
  <2>4. /\ jobs' \in [Queues -> Seq(Jobs)] /\ jobCount' \in [Queues -> Int]
        /\ globalQueue' \in Seq(Queues) /\ fresh' \subseteq Jobs /\ cleared' \in [Queues -> Nat]
    BY <1>5, <1>T, <2>1 DEF Take, TypeOK
  <2> HIDE DEF q
  <2> QED
    BY <2>1, <2>2, <2>3, <2>4, OneThread, LocalFacts
<1>6. ASSUME NEW t \in Threads, PopAll(t) PROVE LocalInv'
  <2> DEFINE q == exec[t].queue
             e == [exec[t] EXCEPT !.at = "run", !.batch = jobs[q], !.popped = Len(jobs[q])]
  <2>1. q \in Queues
    BY <1>6, LocalFacts DEF PopAll, FrameOK
  <2>2. e \in Frames
    BY <2>1, LocalFacts DEF Frames
  <2>3. FrameOK(call[t], e, current[t])
    BY <1>6, LocalFacts DEF PopAll, FrameOK, Frames
  <2>4. /\ call' = [call EXCEPT ![t] = call[t]]
        /\ exec' = [exec EXCEPT ![t] = e]
        /\ current' = [current EXCEPT ![t] = current[t]]
    BY <1>6, <1>T DEF PopAll, TypeOK
  <2>5. /\ jobs' \in [Queues -> Seq(Jobs)] /\ jobCount' \in [Queues -> Int]
        /\ globalQueue' \in Seq(Queues) /\ fresh' \subseteq Jobs /\ cleared' \in [Queues -> Nat]
    BY <1>6, <1>T, EmptySeq DEF PopAll, TypeOK
  <2> HIDE DEF e
  <2> QED
    BY <2>2, <2>3, <2>4, <2>5, OneThread, LocalFacts
<1>7. ASSUME NEW t \in Threads, RunJob(t) PROVE LocalInv'
  <2> DEFINE e == [exec[t] EXCEPT !.batch = Tail(exec[t].batch)]
  <2>1. Tail(exec[t].batch) \in Seq(Jobs)
    BY <1>7, LocalFacts, HeadTailProperties DEF RunJob, Frames
  <2>2. e \in Frames
    BY <2>1, LocalFacts DEF Frames
  <2>3. FrameOK(call[t], e, current[t])
    BY <1>7, LocalFacts DEF RunJob, FrameOK, Frames, NoCall
  <2>4. /\ call' = [call EXCEPT ![t] = call[t]]
        /\ exec' = [exec EXCEPT ![t] = e]
        /\ current' = [current EXCEPT ![t] = current[t]]
    BY <1>7, <1>T DEF RunJob, TypeOK
  <2>5. /\ jobs' \in [Queues -> Seq(Jobs)] /\ jobCount' \in [Queues -> Int]
        /\ globalQueue' \in Seq(Queues) /\ fresh' \subseteq Jobs /\ cleared' \in [Queues -> Nat]
    BY <1>7, <1>T DEF RunJob, TypeOK
  <2> HIDE DEF e
  <2> QED
    BY <2>2, <2>3, <2>4, <2>5, OneThread, LocalFacts
<1>8. ASSUME NEW t \in Threads, SubtractBatch(t),
             NEW e \in Frames, NEW cur \in Queues \cup {None}, FrameOK(NoCall, e, cur),
             exec' = [exec EXCEPT ![t] = e], current' = [current EXCEPT ![t] = cur]
      PROVE  LocalInv'
  <2>1. call[t] = NoCall
    BY <1>8, LocalFacts DEF SubtractBatch, FrameOK, Calls
  <2>2. call' = [call EXCEPT ![t] = NoCall]
    BY <1>8, <1>T, <2>1 DEF SubtractBatch, TypeOK
  <2>3. jobCount' \in [Queues -> Int]
    <3>1. exec[t].queue \in Queues /\ exec[t].popped \in Int
      BY <1>8, LocalFacts DEF SubtractBatch, FrameOK, Frames
    <3> QED
      BY <1>8, <1>T, <3>1 DEF SubtractBatch, TypeOK
  <2>4. /\ jobs' \in [Queues -> Seq(Jobs)] /\ globalQueue' \in Seq(Queues)
        /\ fresh' \subseteq Jobs /\ cleared' \in [Queues -> Nat]
    BY <1>8, <1>T DEF SubtractBatch, TypeOK
  <2> QED
    BY <1>8, <2>2, <2>3, <2>4, OneThread, LocalFacts
<1>9. ASSUME NEW t \in Threads, Finish(t) PROVE LocalInv'
  <2>1. FrameOK(NoCall, Idle, None)
    BY DEF FrameOK, NoCall, Idle
  <2> QED
    BY <1>8, <1>9, <2>1, LocalFacts DEF Finish
<1>10. ASSUME NEW t \in Threads, Continue(t) PROVE LocalInv'
  <2> DEFINE q == exec[t].queue
  <2>1. q \in Queues /\ current[t] = q
    BY <1>10, LocalFacts DEF Continue, SubtractBatch, FrameOK
  <2>2. FrameOK(NoCall, Entered(q), q)
    BY <2>1 DEF FrameOK, NoCall, Entered
  <2>3. exec' = [exec EXCEPT ![t] = Entered(q)] /\ current' = [current EXCEPT ![t] = q]
    BY <1>10, <1>T, <2>1 DEF Continue, TypeOK
  <2> QED
    BY <1>8, <1>10, <2>1, <2>2, <2>3, LocalFacts DEF Continue
<1>11. ASSUME NEW t \in Threads, Yield(t) PROVE LocalInv'
  <2> DEFINE q == exec[t].queue
             e == [Entered(q) EXCEPT !.at = "repush"]
  <2>1. q \in Queues
    BY <1>11, LocalFacts DEF Yield, SubtractBatch, FrameOK
  <2>2. FrameOK(NoCall, e, None)
    BY <2>1 DEF FrameOK, NoCall, Entered
  <2>3. e \in Frames
    BY <2>1, EmptySeq DEF Frames, Entered
  <2>4. exec' = [exec EXCEPT ![t] = e] /\ current' = [current EXCEPT ![t] = None]
    BY <1>11 DEF Yield
  <2> HIDE DEF e
  <2> QED
    BY <1>8, <1>11, <2>2, <2>3, <2>4 DEF Yield
<1>12. ASSUME NEW t \in Threads, Repush(t) PROVE LocalInv'
  <2>1. call[t] = NoCall /\ current[t] = None /\ exec[t].queue \in Queues
    BY <1>12, LocalFacts DEF Repush, FrameOK, Calls
  <2>2. FrameOK(NoCall, Idle, None)
    BY DEF FrameOK, NoCall, Idle
  <2>3. /\ call' = [call EXCEPT ![t] = NoCall]
        /\ exec' = [exec EXCEPT ![t] = Idle]
        /\ current' = [current EXCEPT ![t] = None]
    BY <1>12, <1>T, <2>1 DEF Repush, TypeOK
  <2>4. globalQueue' \in Seq(Queues)
    BY <1>12, <1>T, <2>1 DEF Repush, TypeOK
  <2>5. /\ jobs' \in [Queues -> Seq(Jobs)] /\ jobCount' \in [Queues -> Int]
        /\ fresh' \subseteq Jobs /\ cleared' \in [Queues -> Nat]
    BY <1>12, <1>T DEF Repush, TypeOK
  <2> QED
    BY <2>2, <2>3, <2>4, <2>5, OneThread, LocalFacts
<1>13. ASSUME NEW t \in Threads, NEW q \in Queues, ClearJobs(t, q) PROVE LocalInv'
  <2>1. /\ jobs' \in [Queues -> Seq(Jobs)] /\ cleared' \in [Queues -> Nat]
    BY <1>13, <1>T, LocalFacts DEF ClearJobs, TypeOK
  <2>2. /\ jobCount' \in [Queues -> Int] /\ globalQueue' \in Seq(Queues) /\ fresh' \subseteq Jobs
    BY <1>13, <1>T DEF ClearJobs, TypeOK
  <2>3. /\ call' = [call EXCEPT ![t] = call[t]]
        /\ exec' = [exec EXCEPT ![t] = exec[t]]
        /\ current' = [current EXCEPT ![t] = current[t]]
    BY <1>13, <1>T DEF ClearJobs, TypeOK
  <2> QED
    BY <2>1, <2>2, <2>3, OneThread, LocalFacts
<1>14. CASE UNCHANGED vars
  BY <1>14 DEF vars, TypeOK
<1> QED
  BY <1>1, <1>2, <1>3, <1>4, <1>5, <1>6, <1>7, <1>9, <1>10, <1>11, <1>12, <1>13, <1>14
  DEF Next, ThreadStep, TakeNothing

(* TypeOK: every variable keeps its type, for any threads, queues and jobs. *)
THEOREM Typing == Spec => []TypeOK
<1>1. LocalInv => TypeOK
  BY DEF LocalInv
<1> QED
  BY InitLocal, NextLocal, <1>1, PTL DEF Spec

(* CurrentIsExecuted: LCurrentJobQueue always names the Execute on its
   thread's stack, so an Execute never starts inside another. *)
THEOREM NoNestedExecute == Spec => []CurrentIsExecuted
<1>1. LocalInv => CurrentIsExecuted
  BY DEF LocalInv, FrameOK, CurrentIsExecuted
<1> QED
  BY InitLocal, NextLocal, <1>1, PTL DEF Spec
------------------------------------------------------------------------------
(* The accounting of CountAccounts without a choice of the executor: n is
   the popped batch not yet subtracted, 0 when nothing executes q. *)
Waiting(q) == Len(jobs[q])

Counts(q, n) == jobCount[q] = Waiting(q) + Cardinality(Enqueuers(q)) + n + cleared[q]

CountInv ==
    \A q \in Queues :
        /\ \A t \in Threads : Executing(t, q) => Counts(q, exec[t].popped)
        /\ (\A t \in Threads : ~Executing(t, q)) => Counts(q, 0)

(* The inductive invariant: a count that is 0 exactly when nobody owns the
   queue needs the accounting, and the accounting needs a sole owner. *)
TokenInv == LocalInv /\ SoleOwner /\ OwnedWhileCounted /\ CountInv

Among(s, q) == \E i \in 1 .. Len(s) : s[i] = q
Once(s, q) == \A i, k \in 1 .. Len(s) : s[i] = q /\ s[k] = q => i = k

(* Appending a queue that is not listed lists it once, and no other. *)
LEMMA AppendListed ==
    ASSUME NEW s \in Seq(Queues), NEW q \in Queues
    PROVE  /\ \A r \in Queues : Among(Append(s, q), r) <=> Among(s, r) \/ r = q
           /\ ~Among(s, q) => \A r \in Queues : Once(s, r) => Once(Append(s, q), r)
<1> DEFINE a == Append(s, q)
<1>1. /\ Len(s) \in Nat /\ Len(a) = Len(s) + 1 /\ a[Len(s) + 1] = q
      /\ \A i \in 1 .. Len(s) : a[i] = s[i]
  BY AppendProperties
<1> HIDE DEF a
<1>2. 1 .. Len(a) = (1 .. Len(s)) \cup {Len(s) + 1}
  BY <1>1
<1>3. \A r \in Queues : Among(a, r) <=> Among(s, r) \/ r = q
  BY <1>1, <1>2 DEF Among
<1>4. ASSUME ~Among(s, q), NEW r \in Queues, Once(s, r) PROVE Once(a, r)
  BY <1>1, <1>2, <1>4 DEF Among, Once
<1> QED
  BY <1>3, <1>4 DEF a

(* Taking the head off a list without repetitions unlists it, and no other. *)
LEMMA TailListed ==
    ASSUME NEW s \in Seq(Queues), s # <<>>, \A r \in Queues : Once(s, r)
    PROVE  /\ \A r \in Queues : Once(Tail(s), r)
           /\ \A r \in Queues : Among(Tail(s), r) <=> Among(s, r) /\ r # Head(s)
           /\ Among(s, Head(s))
<1> DEFINE b == Tail(s)
<1>1. /\ Len(s) \in Nat \ {0} /\ Len(b) = Len(s) - 1 /\ Head(s) = s[1] /\ Head(s) \in Queues
      /\ \A i \in 1 .. Len(b) : b[i] = s[i + 1]
  BY HeadTailProperties, EmptySeq
<1> HIDE DEF b
<1>2. ASSUME NEW r \in Queues PROVE Once(b, r)
  <2> SUFFICES ASSUME NEW i \in 1 .. Len(b), NEW k \in 1 .. Len(b), b[i] = r, b[k] = r
               PROVE  i = k
    BY DEF Once
  <2>1. i + 1 \in 1 .. Len(s) /\ k + 1 \in 1 .. Len(s) /\ s[i + 1] = r /\ s[k + 1] = r
    BY <1>1
  <2> QED
    BY <2>1 DEF Once
<1>3. ASSUME NEW r \in Queues PROVE Among(b, r) <=> Among(s, r) /\ r # Head(s)
  <2>1. ASSUME NEW i \in 1 .. Len(b), b[i] = r PROVE Among(s, r) /\ r # Head(s)
    <3>1. i + 1 \in 1 .. Len(s) /\ s[i + 1] = r /\ 1 \in 1 .. Len(s) /\ i + 1 # 1
      BY <1>1, <2>1
    <3> QED
      BY <3>1, <1>1 DEF Among, Once
  <2>2. ASSUME NEW i \in 1 .. Len(s), s[i] = r, r # Head(s) PROVE Among(b, r)
    <3>1. i - 1 \in 1 .. Len(b) /\ b[i - 1] = s[i]
      BY <1>1, <2>2
    <3> QED
      BY <3>1, <2>2 DEF Among
  <2> QED
    BY <2>1, <2>2 DEF Among
<1>4. Among(s, Head(s))
  BY <1>1 DEF Among
<1> QED
  BY <1>2, <1>3, <1>4 DEF b

(* The parts of the accounting are natural numbers. *)
LEMMA CountParts ==
    ASSUME TokenInv, NEW q \in Queues
    PROVE  /\ IsFiniteSet(Enqueuers(q)) /\ Cardinality(Enqueuers(q)) \in Nat
           /\ Waiting(q) \in Nat /\ cleared[q] \in Nat /\ jobCount[q] \in Nat
<1>1. IsFiniteSet(Enqueuers(q)) /\ Cardinality(Enqueuers(q)) \in Nat
  BY ThreadsAssumption, FS_Subset, FS_CardinalityType DEF Enqueuers
<1>2. Waiting(q) \in Nat /\ cleared[q] \in Nat
  BY DEF TokenInv, LocalInv, TypeOK, Waiting
<1>3. jobCount[q] \in Nat
  <2>1. CASE \E t \in Threads : Executing(t, q)
    <3> PICK t \in Threads : Executing(t, q)
      BY <2>1
    <3>1. Counts(q, exec[t].popped) /\ exec[t].popped \in Nat
      BY DEF TokenInv, LocalInv, TypeOK, Frames, CountInv
    <3> QED
      BY <1>1, <1>2, <3>1 DEF Counts
  <2>2. CASE \A t \in Threads : ~Executing(t, q)
    BY <1>1, <1>2, <2>2 DEF TokenInv, CountInv, Counts
  <2> QED
    BY <2>1, <2>2
<1> QED
  BY <1>1, <1>2, <1>3

(* Initially no queue is counted, listed, scheduled or executed. *)
LEMMA InitToken == Init => TokenInv
<1> SUFFICES ASSUME Init PROVE TokenInv
  OBVIOUS
<1>1. LocalInv
  BY InitLocal
<1>2. \A q \in Queues : ~Listed(q) /\ \A t \in Threads : ~Scheduling(t, q) /\ ~Executing(t, q)
  BY NoneAssumption DEF Init, Listed, Scheduling, Executing, NoCall, Idle
<1>3. SoleOwner /\ OwnedWhileCounted
  BY <1>2 DEF SoleOwner, OwnedWhileCounted, Owned, Init
<1>4. \A q \in Queues : Enqueuers(q) = {}
  BY DEF Init, Enqueuers, NoCall
<1>5. \A q \in Queues : jobCount[q] = 0 /\ Waiting(q) = 0 /\ cleared[q] = 0
  BY DEF Init, Waiting
<1>6. \A q \in Queues : Cardinality(Enqueuers(q)) = 0
  BY <1>4, FS_EmptySet
<1>7. CountInv
  BY <1>2, <1>5, <1>6 DEF CountInv, Counts
<1> QED
  BY <1>1, <1>3, <1>7 DEF TokenInv

(* A step that moves no token changes neither who owns what nor that there
   is one owner at most. *)
LEMMA SameTokens ==
    ASSUME TokenInv, globalQueue' = globalQueue,
           \A u \in Threads, r \in Queues : /\ Scheduling(u, r)' <=> Scheduling(u, r)
                                            /\ Executing(u, r)' <=> Executing(u, r)
    PROVE  SoleOwner' /\ \A r \in Queues : Owned(r)' <=> Owned(r)
<1>1. \A r \in Queues : Listed(r)' <=> Listed(r)
  BY DEF Listed
<1>2. SoleOwner'
  BY <1>1 DEF TokenInv, SoleOwner
<1>3. \A r \in Queues : Owned(r)' <=> Owned(r)
  BY <1>1 DEF Owned
<1> QED
  BY <1>2, <1>3

(* What the invariant says of a thread in an Execute. *)
LEMMA Executor ==
    ASSUME TokenInv, NEW t \in Threads, exec[t].at # "idle"
    PROVE  /\ exec[t].queue \in Queues /\ Executing(t, exec[t].queue)
           /\ exec[t].popped \in Nat /\ Counts(exec[t].queue, exec[t].popped)
           /\ exec[t].at \in {"popAll", "repush"} => exec[t].popped = 0
           /\ jobCount[exec[t].queue] # 0
           /\ \A u \in Threads, r \in Queues :
                 /\ Executing(u, exec[t].queue) => u = t
                 /\ Executing(t, r) => r = exec[t].queue
                 /\ ~Scheduling(u, exec[t].queue)
           /\ ~Listed(exec[t].queue)
<1>1. exec[t].queue \in Queues /\ exec[t].popped \in Nat
      /\ (exec[t].at \in {"popAll", "repush"} => exec[t].popped = 0)
  BY LocalFacts DEF TokenInv, FrameOK, Frames
<1>2. Executing(t, exec[t].queue)
  BY DEF Executing
<1>3. Owned(exec[t].queue)
  BY <1>2 DEF Owned
<1>4. jobCount[exec[t].queue] # 0 /\ Counts(exec[t].queue, exec[t].popped)
  BY <1>1, <1>2, <1>3 DEF TokenInv, OwnedWhileCounted, CountInv
<1>5. \A u \in Threads, r \in Queues :
         /\ Executing(u, exec[t].queue) => u = t
         /\ Executing(t, r) => r = exec[t].queue
         /\ ~Scheduling(u, exec[t].queue)
  <2>1. \A r \in Queues : Executing(t, r) => r = exec[t].queue
    BY DEF Executing
  <2> QED
    BY <1>1, <1>2, <2>1 DEF TokenInv, SoleOwner
<1>6. ~Listed(exec[t].queue)
  BY <1>1, <1>2 DEF TokenInv, SoleOwner
<1> QED
  BY <1>1, <1>2, <1>4, <1>5, <1>6

(* What it says of the thread that is about to schedule. *)
LEMMA Scheduler ==
    ASSUME TokenInv, NEW t \in Threads, call[t].at = "schedule"
    PROVE  /\ call[t].queue \in Queues /\ Scheduling(t, call[t].queue)
           /\ \A u \in Threads, r \in Queues :
                 /\ Scheduling(u, call[t].queue) => u = t
                 /\ Scheduling(t, r) => r = call[t].queue
                 /\ ~Executing(u, call[t].queue)
           /\ ~Listed(call[t].queue)
           /\ Counts(call[t].queue, 0)
<1>1. call[t].queue \in Queues /\ call[t].first
  BY LocalFacts DEF TokenInv, FrameOK
<1>2. Scheduling(t, call[t].queue) /\ \A r \in Queues : Scheduling(t, r) => r = call[t].queue
  BY <1>1 DEF Scheduling
<1>3. /\ \A u \in Threads : /\ Scheduling(u, call[t].queue) => u = t
                            /\ ~Executing(u, call[t].queue)
      /\ ~Listed(call[t].queue)
  BY <1>1, <1>2 DEF TokenInv, SoleOwner
<1>4. Counts(call[t].queue, 0)
  BY <1>1, <1>3 DEF TokenInv, CountInv
<1> QED
  BY <1>1, <1>2, <1>3, <1>4

(* How a step that changes the parts of q's accounting keeps it. *)
LEMMA CountMove ==
    ASSUME TokenInv, NEW q \in Queues, NEW n \in Int, NEW m \in Int, Counts(q, n),
           NEW dc \in Int, NEW dl \in Int, NEW de \in Int, NEW dx \in Int,
           jobCount'[q] = jobCount[q] + dc, Waiting(q)' = Waiting(q) + dl,
           Cardinality(Enqueuers(q)') = Cardinality(Enqueuers(q)) + de,
           cleared'[q] = cleared[q] + dx, dc = dl + de + dx + (m - n)
    PROVE  Counts(q, m)'
<1>1. /\ jobCount[q] \in Int /\ Waiting(q) \in Int /\ cleared[q] \in Int
      /\ Cardinality(Enqueuers(q)) \in Int
  BY CountParts
<1> QED
  BY <1>1 DEF Counts

(* Push: the count is raised, and the call owns q if nobody did. *)
LEMMA PushToken ==
    ASSUME TokenInv, NEW t \in Threads, NEW p \in Queues, NEW j \in Jobs,
           NEW b \in BOOLEAN, Push(t, p, j, b)
    PROVE  SoleOwner' /\ OwnedWhileCounted' /\ CountInv'
<1>1. call[t] = NoCall /\ exec' = exec /\ globalQueue' = globalQueue
      /\ jobs' = jobs /\ cleared' = cleared
  BY DEF Push, InUserCode
<1>2. /\ \A u \in Threads : u # t => call'[u] = call[u]
      /\ call'[t].at = "enqueue" /\ call'[t].queue = p
      /\ call'[t].first <=> jobCount[p] = 0
  BY DEF Push, TokenInv, LocalInv, TypeOK
<1>3. \A r \in Queues : jobCount'[r] = IF r = p THEN jobCount[r] + 1 ELSE jobCount[r]
  BY DEF Push, TokenInv, LocalInv, TypeOK
<1>4. \A u \in Threads, r \in Queues :
         /\ Executing(u, r)' <=> Executing(u, r)
         /\ Scheduling(u, r)' <=> Scheduling(u, r) \/ (u = t /\ r = p /\ jobCount[p] = 0)
         /\ ~Scheduling(t, r)
  <2>1. ASSUME NEW u \in Threads, NEW r \in Queues
        PROVE  Executing(u, r)' <=> Executing(u, r)
    BY <1>1 DEF Executing
  <2>2. ASSUME NEW r \in Queues PROVE ~Scheduling(t, r)
    BY <1>1 DEF Scheduling, NoCall
  <2>3. ASSUME NEW u \in Threads, NEW r \in Queues, u # t
        PROVE  Scheduling(u, r)' <=> Scheduling(u, r)
    BY <1>2, <2>3 DEF Scheduling
  <2>4. ASSUME NEW r \in Queues PROVE Scheduling(t, r)' <=> r = p /\ jobCount[p] = 0
    BY <1>2 DEF Scheduling
  <2> QED
    BY <2>1, <2>2, <2>3, <2>4
<1>5. \A r \in Queues : Listed(r)' <=> Listed(r)
  BY <1>1 DEF Listed
<1>6. jobCount[p] = 0 => ~Owned(p)
  BY DEF TokenInv, OwnedWhileCounted
<1>7. SoleOwner'
  BY <1>1, <1>4, <1>5, <1>6 DEF TokenInv, SoleOwner, Owned
<1>8. OwnedWhileCounted'
  <2>1. \A r \in Queues : Owned(r)' <=> Owned(r) \/ (r = p /\ jobCount[p] = 0)
    BY <1>4, <1>5 DEF Owned
  <2>2. \A r \in Queues : jobCount[r] \in Nat
    BY CountParts
  <2> QED
    BY <1>3, <2>1, <2>2 DEF TokenInv, OwnedWhileCounted
<1>9. CountInv'
  <2>1. ASSUME NEW r \in Queues
        PROVE  Cardinality(Enqueuers(r)') = Cardinality(Enqueuers(r)) + IF r = p THEN 1 ELSE 0
    <3>1. Enqueuers(r)' = IF r = p THEN Enqueuers(r) \cup {t} ELSE Enqueuers(r)
      BY <1>1, <1>2 DEF Enqueuers, NoCall
    <3>2. t \notin Enqueuers(r)
      BY <1>1 DEF Enqueuers, NoCall
    <3>3. IsFiniteSet(Enqueuers(r)) /\ Cardinality(Enqueuers(r)) \in Nat
      BY CountParts
    <3>4. CASE r = p
      BY <3>1, <3>2, <3>3, <3>4, FS_AddElement
    <3>5. CASE r # p
      BY <3>1, <3>3, <3>5
    <3> QED
      BY <3>4, <3>5
  <2>2. ASSUME NEW r \in Queues, NEW n \in Nat, Counts(r, n) PROVE Counts(r, n)'
    <3> DEFINE d == IF r = p THEN 1 ELSE 0
    <3>1. d \in Int /\ jobCount'[r] = jobCount[r] + d
      BY <1>3, CountParts
    <3>2. Waiting(r)' = Waiting(r) + 0 /\ cleared'[r] = cleared[r] + 0
      <4>1. Waiting(r)' = Waiting(r)
        BY <1>1 DEF Waiting
      <4> QED
        BY <1>1, <4>1, CountParts
    <3>3. Cardinality(Enqueuers(r)') = Cardinality(Enqueuers(r)) + d
      BY <2>1
    <3> HIDE DEF d
    <3>4. 0 \in Int /\ n \in Int /\ d = 0 + d + 0 + (n - n)
      BY <3>1
    <3> QED
      BY <2>2, <3>1, <3>2, <3>3, <3>4, CountMove
  <2>3. \A u \in Threads : exec[u].popped \in Nat
    BY LocalFacts DEF TokenInv, Frames
  <2> QED
    BY <1>1, <1>4, <2>2, <2>3 DEF TokenInv, CountInv
<1> QED
  BY <1>7, <1>8, <1>9

(* A queue none of whose parts a step changes keeps its accounting. *)
LEMMA CountSame ==
    ASSUME NEW r \in Queues, NEW n, Counts(r, n),
           jobCount'[r] = jobCount[r], Waiting(r)' = Waiting(r),
           Enqueuers(r)' = Enqueuers(r), cleared'[r] = cleared[r]
    PROVE  Counts(r, n)'
BY DEF Counts

(* CountInv when a step changes neither who executes what nor any batch. *)
LEMMA CountKept ==
    ASSUME TokenInv,
           \A u \in Threads, r \in Queues : Executing(u, r)' <=> Executing(u, r),
           \A u \in Threads : exec'[u].popped = exec[u].popped,
           \A r \in Queues : \A n \in Int : Counts(r, n) => Counts(r, n)'
    PROVE  CountInv'
<1>1. \A u \in Threads : exec[u].popped \in Int
  BY LocalFacts DEF TokenInv, Frames
<1> QED
  BY <1>1 DEF TokenInv, CountInv

(* Enqueue: the call's job moves from the pushes in progress to the list. *)
LEMMA EnqueueToken ==
    ASSUME TokenInv, NEW t \in Threads, Enqueue(t)
    PROVE  SoleOwner' /\ OwnedWhileCounted' /\ CountInv'
<1> DEFINE p == call[t].queue
<1>1. /\ exec' = exec /\ globalQueue' = globalQueue /\ jobCount' = jobCount
      /\ cleared' = cleared /\ call[t].at = "enqueue"
  BY DEF Enqueue
<1>2. p \in Queues /\ call[t].job \in Jobs /\ call[t] \in Calls
  BY <1>1, LocalFacts DEF TokenInv, FrameOK
<1>3. /\ \A u \in Threads : u # t => call'[u] = call[u]
      /\ call'[t].at # "enqueue"
      /\ \A r \in Queues : call'[t].first /\ call'[t].queue = r <=> call[t].first /\ p = r
  <2>1. CASE call[t].first
    BY <2>1, <1>2 DEF Enqueue, TokenInv, LocalInv, TypeOK, Calls
  <2>2. CASE ~call[t].first
    BY <2>2, <1>2 DEF Enqueue, TokenInv, LocalInv, TypeOK, NoCall
  <2> QED
    BY <2>1, <2>2
<1>4. \A u \in Threads, r \in Queues : /\ Executing(u, r)' <=> Executing(u, r)
                                       /\ Scheduling(u, r)' <=> Scheduling(u, r)
  BY <1>1, <1>3 DEF Executing, Scheduling
<1>5. SoleOwner' /\ OwnedWhileCounted'
  BY <1>1, <1>4, SameTokens DEF TokenInv, OwnedWhileCounted
<1>6. ASSUME NEW r \in Queues, NEW n \in Int, Counts(r, n) PROVE Counts(r, n)'
  <2>1. CASE r # p
    <3>1. Waiting(r)' = Waiting(r)
      BY <1>2, <2>1 DEF Enqueue, Waiting, TokenInv, LocalInv, TypeOK
    <3>2. Enqueuers(r)' = Enqueuers(r)
      BY <1>1, <1>3, <2>1 DEF Enqueuers
    <3> QED
      BY <1>1, <1>6, <3>1, <3>2, CountSame
  <2>2. CASE r = p
    <3>1. Waiting(r)' = Waiting(r) + 1
      <4>1. jobs'[r] = Append(jobs[r], call[t].job) /\ jobs[r] \in Seq(Jobs)
        BY <1>2, <2>2 DEF Enqueue, TokenInv, LocalInv, TypeOK
      <4> QED
        BY <1>2, <4>1, AppendProperties DEF Waiting
    <3>2. Enqueuers(r)' = Enqueuers(r) \ {t} /\ t \in Enqueuers(r)
      BY <1>1, <1>3, <2>2 DEF Enqueuers
    <3>3. Cardinality(Enqueuers(r)') = Cardinality(Enqueuers(r)) + (-1)
      BY <3>2, CountParts, FS_RemoveElement
    <3>4. jobCount'[r] = jobCount[r] + 0 /\ cleared'[r] = cleared[r] + 0
      BY <1>1, CountParts
    <3>5. 0 = 1 + (-1) + 0 + (n - n) /\ 1 \in Int /\ -1 \in Int /\ 0 \in Int
      OBVIOUS
    <3> QED
      BY <1>6, <3>1, <3>3, <3>4, <3>5, CountMove
  <2> QED
    BY <2>1, <2>2
<1>7. CountInv'
  BY <1>1, <1>4, <1>6, CountKept
<1> QED
  BY <1>5, <1>7

(* ScheduleGlobal: the call's token becomes an entry of the global queue. *)
LEMMA ScheduleGlobalToken ==
    ASSUME TokenInv, NEW t \in Threads, ScheduleGlobal(t)
    PROVE  SoleOwner' /\ OwnedWhileCounted' /\ CountInv'
<1> DEFINE p == call[t].queue
<1>1. /\ exec' = exec /\ globalQueue' = Append(globalQueue, p) /\ jobCount' = jobCount
      /\ jobs' = jobs /\ cleared' = cleared /\ call[t].at = "schedule"
  BY DEF ScheduleGlobal
<1>2. /\ p \in Queues /\ Scheduling(t, p) /\ ~Listed(p)
      /\ \A u \in Threads, r \in Queues : /\ Scheduling(u, p) => u = t
                                          /\ Scheduling(t, r) => r = p
                                          /\ ~Executing(u, p)
  BY <1>1, Scheduler
<1>3. \A u \in Threads : call'[u] = IF u = t THEN NoCall ELSE call[u]
  BY DEF ScheduleGlobal, TokenInv, LocalInv, TypeOK
<1>4. \A u \in Threads, r \in Queues : /\ Executing(u, r)' <=> Executing(u, r)
                                       /\ Scheduling(u, r)' <=> Scheduling(u, r) /\ u # t
  BY <1>1, <1>3 DEF Executing, Scheduling, NoCall
<1>5. globalQueue \in Seq(Queues)
  BY DEF TokenInv, LocalInv, TypeOK
<1>6. \A r \in Queues : /\ Listed(r) <=> Among(globalQueue, r)
                        /\ Listed(r)' <=> Among(globalQueue', r)
  BY DEF Listed, Among
<1>7. \A r \in Queues : Listed(r)' <=> Listed(r) \/ r = p
  BY <1>1, <1>2, <1>5, <1>6, AppendListed
<1>8. \A r \in Queues : Once(globalQueue', r)
  <2>1. \A r \in Queues : Once(globalQueue, r)
    BY DEF TokenInv, SoleOwner, Once
  <2> QED
    BY <1>1, <1>2, <1>5, <1>6, <2>1, AppendListed
<1>9. SoleOwner'
  BY <1>2, <1>4, <1>7, <1>8 DEF TokenInv, SoleOwner, Once
<1>10. OwnedWhileCounted'
  <2>1. \A r \in Queues : Owned(r)' <=> Owned(r)
    BY <1>2, <1>4, <1>7 DEF Owned
  <2> QED
    BY <1>1, <2>1 DEF TokenInv, OwnedWhileCounted
<1>11. CountInv'
  <2>1. ASSUME NEW r \in Queues, NEW n \in Int, Counts(r, n) PROVE Counts(r, n)'
    <3>1. Waiting(r)' = Waiting(r)
      BY <1>1 DEF Waiting
    <3>2. Enqueuers(r)' = Enqueuers(r)
      BY <1>1, <1>3 DEF Enqueuers, NoCall
    <3> QED
      BY <1>1, <2>1, <3>1, <3>2, CountSame
  <2> QED
    BY <1>1, <1>4, <2>1, CountKept
<1> QED
  BY <1>9, <1>10, <1>11

(* A thread that starts to execute p, which nobody executes, with nothing
   popped keeps the accounting: p's was the one without an executor. *)
LEMMA CountEntered ==
    ASSUME TokenInv, NEW t \in Threads, NEW p \in Queues,
           \A u \in Threads : ~Executing(u, p),
           \A r \in Queues : ~Executing(t, r),
           jobCount' = jobCount, jobs' = jobs, cleared' = cleared,
           \A r \in Queues : Enqueuers(r)' = Enqueuers(r),
           \A u \in Threads : exec'[u] = IF u = t THEN Entered(p) ELSE exec[u]
    PROVE  /\ CountInv'
           /\ \A u \in Threads, r \in Queues :
                 Executing(u, r)' <=> Executing(u, r) \/ (u = t /\ r = p)
<1>1. \A u \in Threads, r \in Queues :
         Executing(u, r)' <=> Executing(u, r) \/ (u = t /\ r = p)
  BY DEF Executing, Entered
<1>2. ASSUME NEW r \in Queues, NEW n \in Int, Counts(r, n) PROVE Counts(r, n)'
  <2>1. Waiting(r)' = Waiting(r)
    BY DEF Waiting
  <2> QED
    BY <1>2, <2>1, CountSame
<1>3. \A u \in Threads : exec[u].popped \in Int
  BY LocalFacts DEF TokenInv, Frames
<1>4. exec'[t].popped = 0 /\ \A u \in Threads : u # t => exec'[u].popped = exec[u].popped
  BY DEF Entered
<1>5. CountInv'
  <2>1. Counts(p, 0)'
    BY <1>2 DEF TokenInv, CountInv
  <2>2. ASSUME NEW r \in Queues, NEW u \in Threads, Executing(u, r)'
        PROVE  Counts(r, exec[u].popped)'
    <3>1. CASE u = t
      BY <1>1, <1>4, <2>1, <2>2, <3>1 DEF Counts
    <3>2. CASE u # t
      <4>1. Executing(u, r) /\ exec[u].popped \in Int
        BY <1>1, <1>3, <2>2, <3>2
      <4>2. Counts(r, exec[u].popped)
        BY <4>1 DEF TokenInv, CountInv
      <4> QED
        BY <1>2, <1>4, <3>2, <4>1, <4>2 DEF Counts
    <3> QED
      BY <3>1, <3>2
  <2>3. ASSUME NEW r \in Queues, \A u \in Threads : ~Executing(u, r)'
        PROVE  Counts(r, 0)'
    <3>1. Counts(r, 0)
      BY <1>1, <2>3 DEF TokenInv, CountInv
    <3> QED
      BY <1>2, <3>1
  <2> QED
    BY <2>2, <2>3 DEF CountInv
<1> QED
  BY <1>1, <1>5

(* ScheduleInline: the call's token becomes the thread's own Execute. *)
LEMMA ScheduleInlineToken ==
    ASSUME TokenInv, NEW t \in Threads, ScheduleInline(t)
    PROVE  SoleOwner' /\ OwnedWhileCounted' /\ CountInv'
<1> DEFINE p == call[t].queue
<1>1. /\ globalQueue' = globalQueue /\ jobCount' = jobCount /\ jobs' = jobs
      /\ cleared' = cleared /\ call[t].at = "schedule" /\ current[t] = None
  BY DEF ScheduleInline
<1>2. /\ p \in Queues /\ Scheduling(t, p) /\ ~Listed(p)
      /\ \A u \in Threads, r \in Queues : /\ Scheduling(u, p) => u = t
                                          /\ Scheduling(t, r) => r = p
                                          /\ ~Executing(u, p)
  BY <1>1, Scheduler
<1>3. \A r \in Queues : ~Executing(t, r)
  BY <1>1, LocalFacts, NoneAssumption DEF TokenInv, FrameOK, Executing, Idle
<1>4. /\ \A u \in Threads : call'[u] = IF u = t THEN NoCall ELSE call[u]
      /\ \A u \in Threads : exec'[u] = IF u = t THEN Entered(p) ELSE exec[u]
  BY DEF ScheduleInline, TokenInv, LocalInv, TypeOK
<1>5. \A r \in Queues : Enqueuers(r)' = Enqueuers(r)
  BY <1>1, <1>4 DEF Enqueuers, NoCall
<1>6. /\ CountInv'
      /\ \A u \in Threads, r \in Queues :
            Executing(u, r)' <=> Executing(u, r) \/ (u = t /\ r = p)
  BY <1>1, <1>2, <1>3, <1>4, <1>5, CountEntered
<1>7. \A u \in Threads, r \in Queues : Scheduling(u, r)' <=> Scheduling(u, r) /\ u # t
  BY <1>4 DEF Scheduling, NoCall
<1>8. \A r \in Queues : Listed(r)' <=> Listed(r)
  BY <1>1 DEF Listed
<1>9. SoleOwner'
  BY <1>1, <1>2, <1>3, <1>6, <1>7, <1>8 DEF TokenInv, SoleOwner
<1>10. OwnedWhileCounted'
  <2>1. \A r \in Queues : Owned(r)' <=> Owned(r)
    BY <1>2, <1>6, <1>7, <1>8 DEF Owned
  <2> QED
    BY <1>1, <2>1 DEF TokenInv, OwnedWhileCounted
<1> QED
  BY <1>6, <1>9, <1>10

(* Take: the first entry of the global queue becomes an Execute. *)
LEMMA TakeToken ==
    ASSUME TokenInv, NEW t \in Threads, Take(t)
    PROVE  SoleOwner' /\ OwnedWhileCounted' /\ CountInv'
<1> DEFINE p == Head(globalQueue)
<1>1. /\ globalQueue' = Tail(globalQueue) /\ jobCount' = jobCount /\ jobs' = jobs
      /\ cleared' = cleared /\ call' = call /\ exec[t] = Idle /\ globalQueue # <<>>
  BY DEF Take
<1>2. globalQueue \in Seq(Queues) /\ \A r \in Queues : Once(globalQueue, r)
  BY DEF TokenInv, LocalInv, TypeOK, SoleOwner, Once
<1>3. p \in Queues
  BY <1>1, <1>2, HeadTailProperties
<1>4. /\ \A r \in Queues : Once(globalQueue', r)
      /\ \A r \in Queues : Among(globalQueue', r) <=> Among(globalQueue, r) /\ r # p
      /\ Among(globalQueue, p)
  BY <1>1, <1>2, TailListed
<1>5. \A r \in Queues : Listed(r) <=> Among(globalQueue, r)
  BY DEF Listed, Among
<1>6. \A r \in Queues : Listed(r)' <=> Among(globalQueue', r)
  BY DEF Listed, Among
<1>7. Listed(p) /\ \A r \in Queues : Listed(r)' <=> Listed(r) /\ r # p
  BY <1>3, <1>4, <1>5, <1>6
<1>8. \A u \in Threads : ~Scheduling(u, p) /\ ~Executing(u, p)
  BY <1>3, <1>7 DEF TokenInv, SoleOwner
<1>9. \A r \in Queues : ~Executing(t, r)
  BY <1>1, NoneAssumption DEF Executing, Idle
<1>10. \A u \in Threads : exec'[u] = IF u = t THEN Entered(p) ELSE exec[u]
  BY DEF Take, TokenInv, LocalInv, TypeOK
<1>11. \A r \in Queues : Enqueuers(r)' = Enqueuers(r)
  BY <1>1 DEF Enqueuers
<1> HIDE DEF p
<1>12. /\ CountInv'
       /\ \A u \in Threads, r \in Queues :
             Executing(u, r)' <=> Executing(u, r) \/ (u = t /\ r = p)
  BY <1>1, <1>3, <1>8, <1>9, <1>10, <1>11, CountEntered
<1>13. \A u \in Threads, r \in Queues : Scheduling(u, r)' <=> Scheduling(u, r)
  BY <1>1 DEF Scheduling
<1>14. SoleOwner'
  BY <1>4, <1>7, <1>8, <1>9, <1>12, <1>13 DEF TokenInv, SoleOwner, Once
<1>15. OwnedWhileCounted'
  <2>1. \A r \in Queues : Owned(r)' <=> Owned(r)
    BY <1>3, <1>7, <1>12, <1>13 DEF Owned
  <2> QED
    BY <1>1, <2>1 DEF TokenInv, OwnedWhileCounted
<1> QED
  BY <1>12, <1>14, <1>15

(* PopAll: the waiting jobs become the batch. *)
LEMMA PopAllToken ==
    ASSUME TokenInv, NEW t \in Threads, PopAll(t)
    PROVE  SoleOwner' /\ OwnedWhileCounted' /\ CountInv'
<1>0. exec[t].queue \in Queues
  BY Executor DEF PopAll
<1> PICK p \in Queues : p = exec[t].queue
  BY <1>0
<1>1. /\ globalQueue' = globalQueue /\ jobCount' = jobCount /\ call' = call
      /\ cleared' = cleared /\ exec[t].at = "popAll"
  BY DEF PopAll
<1>2. /\ p \in Queues /\ Executing(t, p) /\ exec[t].popped = 0 /\ Counts(p, 0)
      /\ \A u \in Threads, r \in Queues : /\ Executing(u, p) => u = t
                                          /\ Executing(t, r) => r = p
  BY <1>1, Executor
<1>3. /\ exec'[t].queue = p /\ exec'[t].popped = Waiting(p)
      /\ \A u \in Threads : u # t => exec'[u] = exec[u]
  BY DEF PopAll, TokenInv, LocalInv, TypeOK, Frames, Waiting
<1>4. \A u \in Threads, r \in Queues : /\ Executing(u, r)' <=> Executing(u, r)
                                       /\ Scheduling(u, r)' <=> Scheduling(u, r)
  BY <1>1, <1>3 DEF Executing, Scheduling
<1>5. SoleOwner' /\ OwnedWhileCounted'
  BY <1>1, <1>4, SameTokens DEF TokenInv, OwnedWhileCounted
<1>6. \A r \in Queues : Enqueuers(r)' = Enqueuers(r)
  BY <1>1 DEF Enqueuers
<1>7. Counts(p, exec[t].popped)'
  <2>1. Waiting(p)' = 0
    BY <1>2, EmptySeq DEF PopAll, Waiting, TokenInv, LocalInv, TypeOK
  <2>2. Waiting(p) \in Int /\ jobCount[p] \in Int /\ cleared[p] \in Int
        /\ Cardinality(Enqueuers(p)) \in Int
    BY <1>2, CountParts
  <2>3. jobCount'[p] = Waiting(p)' + Cardinality(Enqueuers(p)') + Waiting(p) + cleared'[p]
    BY <1>1, <1>2, <1>6, <2>1, <2>2 DEF Counts
  <2> QED
    BY <1>3, <2>3 DEF Counts
<1>8. ASSUME NEW r \in Queues, r # p, NEW n \in Int, Counts(r, n) PROVE Counts(r, n)'
  <2>1. Waiting(r)' = Waiting(r)
    BY <1>2, <1>8 DEF PopAll, Waiting, TokenInv, LocalInv, TypeOK
  <2> QED
    BY <1>1, <1>6, <1>8, <2>1, CountSame
<1>9. ASSUME NEW r \in Queues, NEW u \in Threads, Executing(u, r)'
      PROVE  Counts(r, exec[u].popped)'
  <2>1. CASE u = t
    BY <1>2, <1>4, <1>7, <1>9, <2>1
  <2>2. CASE u # t
    <3>1. Executing(u, r) /\ r # p /\ exec[u].popped \in Int /\ exec'[u].popped = exec[u].popped
      BY <1>2, <1>3, <1>4, <1>9, <2>2, LocalFacts DEF TokenInv, Frames
    <3>2. Counts(r, exec[u].popped)
      BY <3>1 DEF TokenInv, CountInv
    <3> QED
      BY <1>8, <3>1, <3>2 DEF Counts
  <2> QED
    BY <2>1, <2>2
<1>10. ASSUME NEW r \in Queues, \A u \in Threads : ~Executing(u, r)' PROVE Counts(r, 0)'
  <2>1. Counts(r, 0) /\ r # p
    BY <1>2, <1>4, <1>10 DEF TokenInv, CountInv
  <2> QED
    BY <1>8, <2>1
<1> QED
  BY <1>5, <1>9, <1>10 DEF CountInv

(* RunJob: neither tokens nor counts move. *)
LEMMA RunJobToken ==
    ASSUME TokenInv, NEW t \in Threads, RunJob(t)
    PROVE  SoleOwner' /\ OwnedWhileCounted' /\ CountInv'
<1>1. /\ globalQueue' = globalQueue /\ jobCount' = jobCount /\ call' = call
      /\ cleared' = cleared /\ jobs' = jobs
  BY DEF RunJob
<1>2. \A u \in Threads : exec'[u].queue = exec[u].queue /\ exec'[u].popped = exec[u].popped
  BY DEF RunJob, TokenInv, LocalInv, TypeOK, Frames
<1>3. \A u \in Threads, r \in Queues : /\ Executing(u, r)' <=> Executing(u, r)
                                       /\ Scheduling(u, r)' <=> Scheduling(u, r)
  BY <1>1, <1>2 DEF Executing, Scheduling
<1>4. SoleOwner' /\ OwnedWhileCounted'
  BY <1>1, <1>3, SameTokens DEF TokenInv, OwnedWhileCounted
<1>5. ASSUME NEW r \in Queues, NEW n \in Int, Counts(r, n) PROVE Counts(r, n)'
  <2>1. Waiting(r)' = Waiting(r) /\ Enqueuers(r)' = Enqueuers(r)
    BY <1>1 DEF Waiting, Enqueuers
  <2> QED
    BY <1>1, <1>5, <2>1, CountSame
<1>6. CountInv'
  BY <1>2, <1>3, <1>5, CountKept
<1> QED
  BY <1>4, <1>6

(* ClearJobs: the waiting jobs are accounted as dropped. *)
LEMMA ClearJobsToken ==
    ASSUME TokenInv, NEW t \in Threads, NEW p \in Queues, ClearJobs(t, p)
    PROVE  SoleOwner' /\ OwnedWhileCounted' /\ CountInv'
<1>1. globalQueue' = globalQueue /\ jobCount' = jobCount /\ call' = call /\ exec' = exec
  BY DEF ClearJobs
<1>2. \A u \in Threads, r \in Queues : /\ Executing(u, r)' <=> Executing(u, r)
                                       /\ Scheduling(u, r)' <=> Scheduling(u, r)
  BY <1>1 DEF Executing, Scheduling
<1>3. SoleOwner' /\ OwnedWhileCounted'
  BY <1>1, <1>2, SameTokens DEF TokenInv, OwnedWhileCounted
<1>4. ASSUME NEW r \in Queues, NEW n \in Int, Counts(r, n) PROVE Counts(r, n)'
  <2>1. Enqueuers(r)' = Enqueuers(r)
    BY <1>1 DEF Enqueuers
  <2>2. CASE r # p
    <3>1. Waiting(r)' = Waiting(r) /\ cleared'[r] = cleared[r]
      BY <2>2 DEF ClearJobs, Waiting, TokenInv, LocalInv, TypeOK
    <3> QED
      BY <1>1, <1>4, <2>1, <3>1, CountSame
  <2>3. CASE r = p
    <3>1. Waiting(r)' = 0 /\ cleared'[r] = cleared[r] + Waiting(r)
      BY <2>3, EmptySeq DEF ClearJobs, Waiting, TokenInv, LocalInv, TypeOK
    <3>2. Waiting(r) \in Int /\ jobCount[r] \in Int /\ cleared[r] \in Int
          /\ Cardinality(Enqueuers(r)) \in Int
      BY CountParts
    <3> QED
      BY <1>1, <1>4, <2>1, <3>1, <3>2 DEF Counts
  <2> QED
    BY <2>2, <2>3
<1>5. CountInv'
  BY <1>1, <1>2, <1>4, CountKept
<1> QED
  BY <1>3, <1>5

(* What the end of a batch does to the accounting: whoever owns p now owns
   it with nothing popped. *)
LEMMA SubtractCount ==
    ASSUME TokenInv, NEW t \in Threads, SubtractBatch(t),
           NEW p \in Queues, p = exec[t].queue
    PROVE  /\ Counts(p, 0)'
           /\ \A r \in Queues : r # p => /\ jobCount'[r] = jobCount[r]
                                         /\ \A n \in Int : Counts(r, n) => Counts(r, n)'
           /\ jobCount'[p] = 0 <=> LastBatch(t)
<1>1. jobs' = jobs /\ call' = call /\ cleared' = cleared /\ exec[t].at = "run"
  BY DEF SubtractBatch
<1>2. p \in Queues /\ exec[t].popped \in Int /\ Counts(p, exec[t].popped)
  BY <1>1, Executor
<1>3. \A r \in Queues : Waiting(r)' = Waiting(r) /\ Enqueuers(r)' = Enqueuers(r)
  BY <1>1 DEF Waiting, Enqueuers
<1>4. \A r \in Queues : jobCount'[r] = IF r = p THEN jobCount[r] - exec[t].popped ELSE jobCount[r]
  BY <1>2 DEF SubtractBatch, TokenInv, LocalInv, TypeOK
<1>5. Waiting(p) \in Int /\ jobCount[p] \in Int /\ cleared[p] \in Int
      /\ Cardinality(Enqueuers(p)) \in Int
  BY <1>2, CountParts
<1>6. Counts(p, 0)'
  BY <1>1, <1>2, <1>3, <1>4, <1>5 DEF Counts
<1>7. ASSUME NEW r \in Queues, r # p, NEW n \in Int, Counts(r, n) PROVE Counts(r, n)'
  BY <1>1, <1>3, <1>4, <1>7, CountSame
<1>8. jobCount'[p] = 0 <=> LastBatch(t)
  BY <1>2, <1>4, <1>5 DEF LastBatch
<1> QED
  BY <1>2, <1>4, <1>6, <1>7, <1>8

(* CountInv when t's Execute of p has nothing popped any more, or is over. *)
LEMMA SubtractKept ==
    ASSUME TokenInv, NEW t \in Threads, SubtractBatch(t),
           \A u \in Threads : u # t => exec'[u] = exec[u],
           NEW p \in Queues, p = exec[t].queue,
           exec'[t].popped = 0, exec'[t].queue \in {p, None}
    PROVE  CountInv'
<1>1. /\ \A u \in Threads, r \in Queues : /\ Executing(u, p) => u = t
                                          /\ Executing(t, r) => r = p
  BY Executor DEF SubtractBatch
<1>2. ASSUME NEW r \in Queues, NEW u \in Threads, Executing(u, r)'
      PROVE  Counts(r, exec[u].popped)'
  <2>1. CASE u = t
    <3>1. r = p
      BY <1>2, <2>1, NoneAssumption DEF Executing
    <3> QED
      BY <2>1, <3>1, SubtractCount DEF Counts
  <2>2. CASE u # t
    <3>1. Executing(u, r) /\ r # p /\ exec[u].popped \in Int
      BY <1>1, <1>2, <2>2, LocalFacts DEF TokenInv, Frames, Executing
    <3>2. Counts(r, exec[u].popped)
      BY <3>1 DEF TokenInv, CountInv
    <3> QED
      BY <2>2, <3>1, <3>2, SubtractCount DEF Counts
  <2> QED
    BY <2>1, <2>2
<1>3. ASSUME NEW r \in Queues, \A u \in Threads : ~Executing(u, r)' PROVE Counts(r, 0)'
  <2>1. CASE r = p
    BY <2>1, SubtractCount
  <2>2. CASE r # p
    <3>1. \A u \in Threads : ~Executing(u, r)
      BY <1>1, <1>3, <2>2 DEF Executing
    <3>2. Counts(r, 0)
      BY <3>1 DEF TokenInv, CountInv
    <3> QED
      BY <2>2, <3>2, SubtractCount
  <2> QED
    BY <2>1, <2>2
<1> QED
  BY <1>2, <1>3 DEF CountInv

(* Finish: the count reaches 0 and the Execute gives its token up. *)
LEMMA FinishToken ==
    ASSUME TokenInv, NEW t \in Threads, Finish(t)
    PROVE  SoleOwner' /\ OwnedWhileCounted' /\ CountInv'
<1>1. SubtractBatch(t) /\ LastBatch(t) /\ globalQueue' = globalQueue /\ call' = call
  BY DEF Finish, SubtractBatch
<1>2. exec[t].queue \in Queues
  BY Executor DEF Finish, SubtractBatch
<1> PICK p \in Queues : p = exec[t].queue
  BY <1>2
<1>3. /\ Executing(t, p) /\ ~Listed(p)
      /\ \A u \in Threads, r \in Queues : /\ Executing(u, p) => u = t
                                          /\ Executing(t, r) => r = p
                                          /\ ~Scheduling(u, p)
  BY Executor DEF Finish, SubtractBatch
<1>4. exec'[t] = Idle /\ \A u \in Threads : u # t => exec'[u] = exec[u]
  BY DEF Finish, TokenInv, LocalInv, TypeOK
<1>5. \A u \in Threads, r \in Queues : /\ Executing(u, r)' <=> Executing(u, r) /\ u # t
                                       /\ Scheduling(u, r)' <=> Scheduling(u, r)
  BY <1>1, <1>4, NoneAssumption DEF Executing, Scheduling, Idle
<1>6. \A r \in Queues : Listed(r)' <=> Listed(r)
  BY <1>1 DEF Listed
<1>7. SoleOwner'
  BY <1>1, <1>5, <1>6 DEF TokenInv, SoleOwner
<1>8. OwnedWhileCounted'
  <2>1. \A r \in Queues : Owned(r)' <=> Owned(r) /\ r # p
    BY <1>3, <1>5, <1>6 DEF Owned
  <2>2. jobCount'[p] = 0 /\ \A r \in Queues : r # p => jobCount'[r] = jobCount[r]
    BY <1>1, SubtractCount
  <2> QED
    BY <2>1, <2>2 DEF TokenInv, OwnedWhileCounted
<1>9. CountInv'
  BY <1>1, <1>4, SubtractKept DEF Idle
<1> QED
  BY <1>7, <1>8, <1>9

(* Continue and Yield: the count stays above 0 and the Execute its owner. *)
LEMMA GoOnToken ==
    ASSUME TokenInv, NEW t \in Threads, SubtractBatch(t), ~LastBatch(t),
           NEW e, e.queue = exec[t].queue, e.popped = 0, exec' = [exec EXCEPT ![t] = e]
    PROVE  SoleOwner' /\ OwnedWhileCounted' /\ CountInv'
<1>1. globalQueue' = globalQueue /\ call' = call
  BY DEF SubtractBatch
<1>2. exec[t].queue \in Queues
  BY Executor DEF SubtractBatch
<1> PICK p \in Queues : p = exec[t].queue
  BY <1>2
<1>3. exec'[t] = e /\ \A u \in Threads : u # t => exec'[u] = exec[u]
  BY DEF TokenInv, LocalInv, TypeOK
<1>4. \A u \in Threads, r \in Queues : /\ Executing(u, r)' <=> Executing(u, r)
                                       /\ Scheduling(u, r)' <=> Scheduling(u, r)
  BY <1>1, <1>3 DEF Executing, Scheduling
<1>5. SoleOwner' /\ \A r \in Queues : Owned(r)' <=> Owned(r)
  BY <1>1, <1>4, SameTokens
<1>6. /\ jobCount[p] # 0 /\ jobCount'[p] # 0
      /\ \A r \in Queues : r # p => jobCount'[r] = jobCount[r]
  BY SubtractCount, Executor DEF SubtractBatch
<1>7. OwnedWhileCounted'
  BY <1>5, <1>6 DEF TokenInv, OwnedWhileCounted
<1>8. CountInv'
  BY <1>3, SubtractKept
<1> QED
  BY <1>5, <1>7, <1>8

(* Repush: the Execute's token becomes an entry of the global queue. *)
LEMMA RepushToken ==
    ASSUME TokenInv, NEW t \in Threads, Repush(t)
    PROVE  SoleOwner' /\ OwnedWhileCounted' /\ CountInv'
<1>0. exec[t].queue \in Queues
  BY Executor DEF Repush
<1> PICK p \in Queues : p = exec[t].queue
  BY <1>0
<1>1. /\ globalQueue' = Append(globalQueue, p) /\ jobCount' = jobCount
      /\ jobs' = jobs /\ cleared' = cleared /\ call' = call
  BY DEF Repush
<1>2. /\ Executing(t, p) /\ exec[t].popped = 0 /\ Counts(p, 0) /\ ~Listed(p)
      /\ \A u \in Threads, r \in Queues : /\ Executing(u, p) => u = t
                                          /\ Executing(t, r) => r = p
                                          /\ ~Scheduling(u, p)
  BY Executor DEF Repush
<1>3. exec'[t] = Idle /\ \A u \in Threads : u # t => exec'[u] = exec[u]
  BY DEF Repush, TokenInv, LocalInv, TypeOK
<1>4. \A u \in Threads, r \in Queues : /\ Executing(u, r)' <=> Executing(u, r) /\ u # t
                                       /\ Scheduling(u, r)' <=> Scheduling(u, r)
  BY <1>1, <1>3, NoneAssumption DEF Executing, Scheduling, Idle
<1>5. globalQueue \in Seq(Queues) /\ \A r \in Queues : Once(globalQueue, r)
  BY DEF TokenInv, LocalInv, TypeOK, SoleOwner, Once
<1>6. \A r \in Queues : /\ Listed(r) <=> Among(globalQueue, r)
                        /\ Listed(r)' <=> Among(globalQueue', r)
  BY DEF Listed, Among
<1>7. \A r \in Queues : Listed(r)' <=> Listed(r) \/ r = p
  BY <1>1, <1>5, <1>6, AppendListed
<1>8. \A r \in Queues : Once(globalQueue', r)
  BY <1>1, <1>2, <1>5, <1>6, AppendListed
<1>9. SoleOwner'
  BY <1>2, <1>4, <1>7, <1>8 DEF TokenInv, SoleOwner, Once
<1>10. OwnedWhileCounted'
  <2>1. \A r \in Queues : Owned(r)' <=> Owned(r)
    BY <1>2, <1>4, <1>7 DEF Owned
  <2> QED
    BY <1>1, <2>1 DEF TokenInv, OwnedWhileCounted
<1>11. ASSUME NEW r \in Queues, NEW n \in Int, Counts(r, n) PROVE Counts(r, n)'
  <2>1. Waiting(r)' = Waiting(r) /\ Enqueuers(r)' = Enqueuers(r)
    BY <1>1 DEF Waiting, Enqueuers
  <2> QED
    BY <1>1, <1>11, <2>1, CountSame
<1>12. CountInv'
  <2>1. ASSUME NEW r \in Queues, NEW u \in Threads, Executing(u, r)'
        PROVE  Counts(r, exec[u].popped)'
    <3>1. Executing(u, r) /\ u # t /\ exec[u].popped \in Int /\ exec'[u] = exec[u]
      BY <1>3, <1>4, <2>1, LocalFacts DEF TokenInv, Frames
    <3>2. Counts(r, exec[u].popped)
      BY <3>1 DEF TokenInv, CountInv
    <3> QED
      BY <1>11, <3>1, <3>2 DEF Counts
  <2>2. ASSUME NEW r \in Queues, \A u \in Threads : ~Executing(u, r)' PROVE Counts(r, 0)'
    <3>1. CASE r = p
      BY <1>2, <1>11, <3>1
    <3>2. CASE r # p
      <4>1. \A u \in Threads : ~Executing(u, r)
        BY <1>2, <1>4, <2>2, <3>2
      <4> QED
        BY <1>11, <4>1 DEF TokenInv, CountInv
    <3> QED
      BY <3>1, <3>2
  <2> QED
    BY <2>1, <2>2 DEF CountInv
<1> QED
  BY <1>9, <1>10, <1>12

(* The invariant is inductive. *)
LEMMA NextToken == TokenInv /\ [Next]_vars => TokenInv'
<1> SUFFICES ASSUME TokenInv, [Next]_vars PROVE TokenInv'
  OBVIOUS
<1>0. LocalInv'
  BY NextLocal DEF TokenInv
<1> SUFFICES SoleOwner' /\ OwnedWhileCounted' /\ CountInv'
  BY <1>0 DEF TokenInv
<1>1. ASSUME NEW t \in Threads, Continue(t) PROVE SoleOwner' /\ OwnedWhileCounted' /\ CountInv'
  <2>1. exec' = [exec EXCEPT ![t] = Entered(exec[t].queue)]
    BY <1>1 DEF Continue
  <2> QED
    BY <1>1, <2>1, GoOnToken DEF Continue, Entered
<1>2. ASSUME NEW t \in Threads, Yield(t) PROVE SoleOwner' /\ OwnedWhileCounted' /\ CountInv'
  <2> DEFINE e == [Entered(exec[t].queue) EXCEPT !.at = "repush"]
  <2>1. exec' = [exec EXCEPT ![t] = e]
    BY <1>2 DEF Yield
  <2>2. e.queue = exec[t].queue /\ e.popped = 0
    BY DEF Entered
  <2> HIDE DEF e
  <2> QED
    BY <1>2, <2>1, <2>2, GoOnToken DEF Yield
<1>3. CASE UNCHANGED vars
  <2>1. /\ \A u \in Threads, r \in Queues : /\ Executing(u, r)' <=> Executing(u, r)
                                            /\ Scheduling(u, r)' <=> Scheduling(u, r)
        /\ \A r \in Queues : Waiting(r)' = Waiting(r) /\ Enqueuers(r)' = Enqueuers(r)
    BY <1>3 DEF vars, Executing, Scheduling, Waiting, Enqueuers
  <2>2. \A r \in Queues : \A n \in Int : Counts(r, n) => Counts(r, n)'
    BY <1>3, <2>1, CountSame DEF vars
  <2>3. CountInv'
    BY <1>3, <2>1, <2>2, CountKept DEF vars
  <2>4. SoleOwner' /\ OwnedWhileCounted'
    BY <1>3, <2>1, SameTokens DEF vars, TokenInv, OwnedWhileCounted
  <2> QED
    BY <2>3, <2>4
<1> QED
  BY <1>1, <1>2, <1>3, PushToken, EnqueueToken, ScheduleGlobalToken, ScheduleInlineToken,
     TakeToken, PopAllToken, RunJobToken, FinishToken, RepushToken, ClearJobsToken
  DEF Next, ThreadStep, TakeNothing

(* SoleOwner: no two threads run jobs of one queue at once, however many
   threads push to it and drain it, and it is never runnable twice. *)
THEOREM OneAtATime == Spec => []SoleOwner
<1>1. TokenInv => SoleOwner
  BY DEF TokenInv
<1> QED
  BY InitToken, NextToken, <1>1, PTL DEF Spec

(* OwnedWhileCounted: a queue with counted jobs always has exactly one party
   that will run them, and a queue without is free to be scheduled. *)
THEOREM NoStrandedQueue == Spec => []OwnedWhileCounted
<1>1. TokenInv => OwnedWhileCounted
  BY DEF TokenInv
<1> QED
  BY InitToken, NextToken, <1>1, PTL DEF Spec

(* CountAccounts: what _jobCount counts, at every step of every thread. *)
THEOREM Accounting == Spec => []CountAccounts
<1>1. TokenInv => CountAccounts
  <2> SUFFICES ASSUME TokenInv, NEW q \in Queues
               PROVE  jobCount[q] = Len(jobs[q]) + Cardinality(Enqueuers(q)) + Batched(q)
                                    + cleared[q]
    BY DEF CountAccounts
  <2>1. CASE \E t \in Threads : Executing(t, q)
    <3> DEFINE t == CHOOSE t \in Threads : Executing(t, q)
    <3>1. t \in Threads /\ Executing(t, q)
      BY <2>1
    <3>2. Batched(q) = exec[t].popped
      BY <2>1 DEF Batched
    <3> HIDE DEF t
    <3> QED
      BY <3>1, <3>2 DEF TokenInv, CountInv, Counts, Waiting
  <2>2. CASE \A t \in Threads : ~Executing(t, q)
    BY <2>2 DEF Batched, TokenInv, CountInv, Counts, Waiting
  <2> QED
    BY <2>1, <2>2
<1> QED
  BY InitToken, NextToken, <1>1, PTL DEF Spec
(* The refinement of Mailbox: mail[q] is what the executor of q has still to
   run, and then what waits in _jobs. *)
Mail == [q \in Queues |-> Backlog(q)]

(* Backlog as a function of the frames and of the waiting jobs. *)
Runs(frames, t, q) == frames[t].queue = q /\ frames[t].batch # <<>>

BacklogOf(frames, waiting, q) ==
    LET running == {t \in Threads : Runs(frames, t, q)}
    IN  (IF running = {} THEN <<>> ELSE frames[CHOOSE t \in running : TRUE].batch) \o waiting

LEMMA MailNow == Mail = [q \in Queues |-> BacklogOf(exec, jobs[q], q)]
BY DEF Mail, Backlog, BacklogOf, Runs, Executing

LEMMA MailNext == Mail' = [q \in Queues |-> BacklogOf(exec', jobs'[q], q)]
BY DEF Mail, Backlog, BacklogOf, Runs, Executing

(* Only the frames that run jobs of q matter to its backlog. *)
LEMMA BacklogSame ==
    ASSUME NEW ex, NEW ey, NEW waiting, NEW q,
           \A t \in Threads : /\ Runs(ey, t, q) <=> Runs(ex, t, q)
                              /\ Runs(ex, t, q) => ey[t].batch = ex[t].batch
    PROVE  BacklogOf(ey, waiting, q) = BacklogOf(ex, waiting, q)
<1> DEFINE R == {t \in Threads : Runs(ex, t, q)}
           c == CHOOSE t \in R : TRUE
<1>1. {t \in Threads : Runs(ey, t, q)} = R
  OBVIOUS
<1>2. R # {} => ey[c].batch = ex[c].batch
  <2>1. R # {} => c \in R
    OBVIOUS
  <2> QED
    BY <2>1
<1> QED
  BY <1>1, <1>2 DEF BacklogOf

(* The sole executor's batch comes first ... *)
LEMMA BacklogOfExecutor ==
    ASSUME NEW ex, NEW waiting \in Seq(Jobs), NEW q, NEW t \in Threads,
           ex[t].queue = q, \A u \in Threads : ex[u].queue = q => u = t
    PROVE  BacklogOf(ex, waiting, q) = ex[t].batch \o waiting
<1>1. CASE ex[t].batch = <<>>
  <2>1. {u \in Threads : Runs(ex, u, q)} = {}
    BY <1>1 DEF Runs
  <2> QED
    BY <1>1, <2>1 DEF BacklogOf
<1>2. CASE ex[t].batch # <<>>
  <2>1. {u \in Threads : Runs(ex, u, q)} = {t}
    BY <1>2 DEF Runs
  <2> QED
    BY <2>1 DEF BacklogOf
<1> QED
  BY <1>1, <1>2

(* ... and without one there are only the waiting jobs. *)
LEMMA BacklogOfIdle ==
    ASSUME NEW ex, NEW waiting \in Seq(Jobs), NEW q, \A t \in Threads : ex[t].queue # q
    PROVE  BacklogOf(ex, waiting, q) = waiting
<1>1. {u \in Threads : Runs(ex, u, q)} = {}
  BY DEF Runs
<1>2. <<>> \o waiting = waiting
  BY ConcatEmptySeq
<1> QED
  BY <1>1, <1>2 DEF BacklogOf

(* In either case there is a batch, the same whatever waits behind it. *)
LEMMA BacklogParts ==
    ASSUME TokenInv, NEW q \in Queues
    PROVE  \E b \in Seq(Jobs) : \A waiting \in Seq(Jobs) :
              BacklogOf(exec, waiting, q) = b \o waiting
<1>1. CASE \E t \in Threads : Executing(t, q)
  <2> PICK t \in Threads : Executing(t, q)
    BY <1>1
  <2>1. exec[t].batch \in Seq(Jobs)
    BY DEF TokenInv, LocalInv, TypeOK, Frames
  <2>2. \A u \in Threads : exec[u].queue = q => u = t
    BY DEF TokenInv, SoleOwner, Executing
  <2>3. \A waiting \in Seq(Jobs) : BacklogOf(exec, waiting, q) = exec[t].batch \o waiting
    BY <2>2, BacklogOfExecutor DEF Executing
  <2> QED
    BY <2>1, <2>3
<1>2. CASE \A t \in Threads : ~Executing(t, q)
  <2>1. \A waiting \in Seq(Jobs) : BacklogOf(exec, waiting, q) = waiting
    BY <1>2, BacklogOfIdle DEF Executing
  <2>2. \A waiting \in Seq(Jobs) : <<>> \o waiting = waiting
    BY ConcatEmptySeq
  <2>3. <<>> \in Seq(Jobs)
    OBVIOUS
  <2> QED
    BY <2>1, <2>2, <2>3
<1> QED
  BY <1>1, <1>2

(* A thread that enters, leaves or goes round an Execute with no job in its
   batch does not change the mail. *)
LEMMA MailKept ==
    ASSUME TokenInv, NEW t \in Threads, NEW e, exec[t].batch = <<>>, e.batch = <<>>,
           UNCHANGED jobs, exec' = [exec EXCEPT ![t] = e]
    PROVE  UNCHANGED Mail
<1>1. PICK ex : ex = exec'
  OBVIOUS
<1>2. \A u \in Threads : ex[u] = IF u = t THEN e ELSE exec[u]
  BY <1>1 DEF TokenInv, LocalInv, TypeOK
<1>3. ASSUME NEW q \in Queues PROVE BacklogOf(ex, jobs[q], q) = BacklogOf(exec, jobs[q], q)
  <2>1. \A u \in Threads : /\ Runs(ex, u, q) <=> Runs(exec, u, q)
                           /\ Runs(exec, u, q) => ex[u].batch = exec[u].batch
    BY <1>2 DEF Runs
  <2> QED
    BY <2>1, BacklogSame
<1> QED
  BY <1>1, <1>3, MailNow, MailNext

(* A step of the one queue q: nothing that other queues' backlogs are made of
   changes. *)
LEMMA OneMail ==
    ASSUME NEW q \in Queues, NEW b, BacklogOf(exec', jobs'[q], q) = b,
           \A r \in Queues \ {q} : jobs'[r] = jobs[r],
           \A t \in Threads : \/ exec'[t] = exec[t]
                              \/ exec'[t].queue = q /\ exec[t].queue = q
    PROVE  Mail' = [Mail EXCEPT ![q] = b]
<1>1. ASSUME NEW r \in Queues \ {q} PROVE BacklogOf(exec', jobs'[r], r) = BacklogOf(exec, jobs[r], r)
  <2>1. \A u \in Threads : /\ Runs(exec', u, r) <=> Runs(exec, u, r)
                           /\ Runs(exec, u, r) => exec'[u].batch = exec[u].batch
    BY DEF Runs
  <2> QED
    BY <2>1, BacklogSame
<1> QED
  BY <1>1, MailNow, MailNext

(* What appending to, taking from and cutting a concatenation gives. *)
LEMMA AppendOfConcat ==
    ASSUME NEW b \in Seq(Jobs), NEW s \in Seq(Jobs), NEW j \in Jobs
    PROVE  b \o Append(s, j) = Append(b \o s, j)
<1>1. Append(s, j) = s \o <<j>> /\ <<j>> \in Seq(Jobs)
  BY AppendIsConcat
<1>2. b \o s \in Seq(Jobs)
  BY ConcatProperties
<1>3. Append(b \o s, j) = (b \o s) \o <<j>>
  BY <1>2, AppendIsConcat
<1> QED
  BY <1>1, <1>3, ConcatAssociative

LEMMA TailOfConcat ==
    ASSUME NEW b \in Seq(Jobs), NEW s \in Seq(Jobs), b # <<>>
    PROVE  b \o s # <<>> /\ Tail(b) \o s = Tail(b \o s)
<1>1. b \o s \in Seq(Jobs) /\ Len(b \o s) = Len(b) + Len(s) /\ Len(b) \in Nat \ {0} /\ Len(s) \in Nat
  BY ConcatProperties, EmptySeq
<1>2. b \o s # <<>>
  BY <1>1
<1>3. Tail(b) \in Seq(Jobs) /\ Len(Tail(b)) = Len(b) - 1
      /\ \A i \in 1 .. Len(Tail(b)) : Tail(b)[i] = b[i + 1]
  BY HeadTailProperties
<1>4. Tail(b \o s) \in Seq(Jobs) /\ Len(Tail(b \o s)) = Len(b) + Len(s) - 1
      /\ \A i \in 1 .. Len(b) + Len(s) - 1 : Tail(b \o s)[i] = (b \o s)[i + 1]
  BY <1>1, <1>2, HeadTailProperties
<1>5. Tail(b) \o s \in Seq(Jobs) /\ Len(Tail(b) \o s) = Len(b) - 1 + Len(s)
      /\ \A i \in 1 .. Len(b) - 1 + Len(s) :
            (Tail(b) \o s)[i] = IF i <= Len(b) - 1 THEN Tail(b)[i] ELSE s[i - (Len(b) - 1)]
  BY <1>3, ConcatProperties
<1>6. \A i \in 1 .. Len(b) + Len(s) : (b \o s)[i] = IF i <= Len(b) THEN b[i] ELSE s[i - Len(b)]
  BY ConcatProperties
<1>7. ASSUME NEW i \in 1 .. Len(b) - 1 + Len(s) PROVE (Tail(b) \o s)[i] = Tail(b \o s)[i]
  <2>1. i + 1 \in 1 .. Len(b) + Len(s) /\ i - (Len(b) - 1) = (i + 1) - Len(b)
    BY <1>1
  <2>2. Tail(b \o s)[i] = IF i + 1 <= Len(b) THEN b[i + 1] ELSE s[(i + 1) - Len(b)]
    BY <1>1, <1>4, <1>6, <2>1
  <2>3. CASE i <= Len(b) - 1
    BY <1>1, <1>3, <1>5, <2>2, <2>3
  <2>4. CASE ~(i <= Len(b) - 1)
    BY <1>1, <1>5, <2>1, <2>2, <2>4
  <2> QED
    BY <2>3, <2>4
<1> QED
  BY <1>1, <1>2, <1>4, <1>5, <1>7, SeqEqual

LEMMA FrontOfConcat ==
    ASSUME NEW b \in Seq(Jobs), NEW s \in Seq(Jobs)
    PROVE  Len(b) \in 0 .. Len(b \o s) /\ SubSeq(b \o s, 1, Len(b)) = b
<1>1. Len(b) \in Nat /\ Len(s) \in Nat /\ Len(b \o s) = Len(b) + Len(s)
      /\ \A i \in 1 .. Len(b) : (b \o s)[i] = b[i] /\ b[i] \in Jobs
  BY ConcatProperties, ElementOfSeq, LenProperties
<1>2. SubSeq(b \o s, 1, Len(b)) \in Seq(Jobs)
      /\ Len(SubSeq(b \o s, 1, Len(b))) = Len(b)
      /\ \A i \in 1 .. Len(b) : SubSeq(b \o s, 1, Len(b))[i] = b[i]
  BY <1>1, SubSeqProperties
<1> QED
  BY <1>1, <1>2, SeqEqual

(* _jobs.Push posts the job. *)
LEMMA EnqueuePosts ==
    ASSUME TokenInv, NEW t \in Threads, Enqueue(t)
    PROVE  \E q \in Queues, j \in Jobs : Mail' = [Mail EXCEPT ![q] = Append(@, j)]
<1> DEFINE q == call[t].queue
           j == call[t].job
<1>1. q \in Queues /\ j \in Jobs
  BY LocalFacts DEF TokenInv, Enqueue, FrameOK
<1>2. jobs[q] \in Seq(Jobs) /\ jobs' = [jobs EXCEPT ![q] = Append(@, j)] /\ exec' = exec
      /\ jobs \in [Queues -> Seq(Jobs)]
  BY <1>1 DEF Enqueue, TokenInv, LocalInv, TypeOK
<1>3. PICK b \in Seq(Jobs) : \A waiting \in Seq(Jobs) : BacklogOf(exec, waiting, q) = b \o waiting
  BY <1>1, BacklogParts
<1>4. BacklogOf(exec, jobs[q], q) = b \o jobs[q]
  BY <1>2, <1>3
<1>5. BacklogOf(exec', jobs'[q], q) = b \o Append(jobs[q], j)
  <2>1. Append(jobs[q], j) \in Seq(Jobs) /\ jobs'[q] = Append(jobs[q], j)
    BY <1>1, <1>2
  <2> QED
    BY <1>2, <1>3, <2>1
<1>6. b \o Append(jobs[q], j) = Append(b \o jobs[q], j)
  BY <1>1, <1>2, AppendOfConcat
<1>7. Mail' = [Mail EXCEPT ![q] = Append(b \o jobs[q], j)]
  <2>1. \A r \in Queues \ {q} : jobs'[r] = jobs[r]
    BY <1>1, <1>2
  <2> HIDE DEF q, j
  <2> QED
    BY <1>1, <1>2, <1>5, <1>6, <2>1, OneMail
<1>8. Mail[q] = b \o jobs[q]
  BY <1>1, <1>4, MailNow
<1> HIDE DEF q, j
<1> QED
  BY <1>1, <1>7, <1>8

(* PopAll moves the waiting jobs into the empty batch: no mail changes. *)
LEMMA PopAllKeeps ==
    ASSUME TokenInv, NEW t \in Threads, PopAll(t)
    PROVE  UNCHANGED Mail
<1> DEFINE q == exec[t].queue
           e == [exec[t] EXCEPT !.at = "run", !.batch = jobs[q], !.popped = Len(jobs[q])]
<1>1. /\ q \in Queues /\ exec[t].batch = <<>> /\ exec[t] \in Frames
      /\ jobs \in [Queues -> Seq(Jobs)] /\ exec \in [Threads -> Frames]
  BY LocalFacts DEF TokenInv, LocalInv, TypeOK, PopAll, FrameOK
<1>2. jobs' = [jobs EXCEPT ![q] = <<>>] /\ exec' = [exec EXCEPT ![t] = e]
  BY DEF PopAll
<1>3. exec'[t].queue = q /\ exec'[t].batch = jobs[q] /\ \A u \in Threads \ {t} : exec'[u] = exec[u]
  BY <1>1, <1>2 DEF Frames
<1>4. \A u \in Threads : exec[u].queue = q => u = t
  BY <1>1 DEF TokenInv, SoleOwner, Executing
<1>5. jobs[q] \in Seq(Jobs) /\ <<>> \in Seq(Jobs) /\ jobs'[q] = <<>>
  BY <1>1, <1>2
<1> HIDE DEF q, e
<1>6. BacklogOf(exec, jobs[q], q) = jobs[q]
  <2>1. BacklogOf(exec, jobs[q], q) = exec[t].batch \o jobs[q]
    BY <1>4, <1>5, BacklogOfExecutor DEF q
  <2> QED
    BY <1>1, <1>5, <2>1, ConcatEmptySeq
<1>7. BacklogOf(exec', jobs'[q], q) = jobs[q]
  <2>0. \A u \in Threads : exec'[u].queue = q => u = t
    BY <1>3, <1>4
  <2>1. BacklogOf(exec', <<>>, q) = exec'[t].batch \o <<>>
    BY <2>0, <1>3, <1>4, <1>5, BacklogOfExecutor
  <2> QED
    BY <1>3, <1>5, <2>1, ConcatEmptySeq
<1>8. Mail' = [Mail EXCEPT ![q] = jobs[q]]
  <2>1. \A r \in Queues \ {q} : jobs'[r] = jobs[r]
    BY <1>1, <1>2
  <2>2. \A u \in Threads : exec'[u] = exec[u] \/ (exec'[u].queue = q /\ exec[u].queue = q)
    BY <1>3 DEF q
  <2> QED
    BY <1>1, <1>7, <2>1, <2>2, OneMail
<1> QED
  BY <1>1, <1>6, <1>8, MailNow, MailNext

(* A job that has run is delivered. *)
LEMMA RunJobDelivers ==
    ASSUME TokenInv, NEW t \in Threads, RunJob(t)
    PROVE  \E q \in Queues : Mail[q] # <<>> /\ Mail' = [Mail EXCEPT ![q] = Tail(@)]
<1> DEFINE q == exec[t].queue
           b == exec[t].batch
<1>1. /\ q \in Queues /\ b \in Seq(Jobs) /\ b # <<>> /\ exec[t] \in Frames
      /\ jobs \in [Queues -> Seq(Jobs)] /\ jobs[q] \in Seq(Jobs) /\ exec \in [Threads -> Frames]
  BY LocalFacts DEF TokenInv, LocalInv, TypeOK, RunJob, FrameOK, Frames
<1>2. jobs' = jobs /\ exec' = [exec EXCEPT ![t] = [exec[t] EXCEPT !.batch = Tail(b)]]
  BY DEF RunJob
<1>3. exec'[t].queue = q /\ exec'[t].batch = Tail(b) /\ \A u \in Threads \ {t} : exec'[u] = exec[u]
  BY <1>1, <1>2 DEF Frames
<1>4. \A u \in Threads : exec[u].queue = q => u = t
  BY <1>1 DEF TokenInv, SoleOwner, Executing
<1>5. BacklogOf(exec, jobs[q], q) = b \o jobs[q]
  BY <1>1, <1>4, BacklogOfExecutor
<1>6. BacklogOf(exec', jobs'[q], q) = Tail(b) \o jobs[q]
  <2> HIDE DEF q, b
  <2>0. \A u \in Threads : exec'[u].queue = q => u = t
    BY <1>3, <1>4
  <2>1. jobs[q] \in Seq(Jobs) /\ exec'[t].queue = q
    BY <1>1, <1>3
  <2>2. BacklogOf(exec', jobs[q], q) = exec'[t].batch \o jobs[q]
    BY <2>0, <2>1, BacklogOfExecutor
  <2> QED
    BY <1>2, <1>3, <2>2
<1>7. b \o jobs[q] # <<>> /\ Tail(b) \o jobs[q] = Tail(b \o jobs[q])
  BY <1>1, TailOfConcat
<1>8. \A u \in Threads : exec'[u] = exec[u] \/ (exec'[u].queue = q /\ exec[u].queue = q)
  BY <1>3
<1> HIDE DEF q, b
<1>9. Mail' = [Mail EXCEPT ![q] = Tail(b \o jobs[q])]
  BY <1>1, <1>2, <1>6, <1>7, <1>8, OneMail
<1>10. Mail[q] = b \o jobs[q]
  BY <1>1, <1>5, MailNow
<1> QED
  BY <1>1, <1>7, <1>9, <1>10

(* ClearJobs discards what waits behind the batch. *)
LEMMA ClearJobsDiscards ==
    ASSUME TokenInv, NEW t \in Threads, NEW q \in Queues, ClearJobs(t, q)
    PROVE  \E n \in 0 .. Len(Mail[q]) : Mail' = [Mail EXCEPT ![q] = SubSeq(@, 1, n)]
<1>1. /\ jobs[q] \in Seq(Jobs) /\ jobs' = [jobs EXCEPT ![q] = <<>>] /\ exec' = exec
      /\ jobs \in [Queues -> Seq(Jobs)] /\ <<>> \in Seq(Jobs)
  BY DEF ClearJobs, TokenInv, LocalInv, TypeOK
<1>2. PICK b \in Seq(Jobs) : \A waiting \in Seq(Jobs) : BacklogOf(exec, waiting, q) = b \o waiting
  BY BacklogParts
<1>3. Mail[q] = b \o jobs[q]
  BY <1>1, <1>2, MailNow
<1>4. BacklogOf(exec', jobs'[q], q) = b
  <2>1. jobs'[q] = <<>>
    BY <1>1
  <2> QED
    BY <1>1, <1>2, <2>1, ConcatEmptySeq
<1>5. Mail' = [Mail EXCEPT ![q] = b]
  <2>1. \A r \in Queues \ {q} : jobs'[r] = jobs[r]
    BY <1>1
  <2> QED
    BY <1>1, <1>4, <2>1, OneMail
<1>6. Len(b) \in 0 .. Len(b \o jobs[q]) /\ SubSeq(b \o jobs[q], 1, Len(b)) = b
  BY <1>1, FrontOfConcat
<1> QED
  BY <1>3, <1>5, <1>6

(* Every step of the queues is a step of the mailboxes, or changes no mail. *)
LEMMA StepRefines == TokenInv /\ [Next]_vars => [MB!Next]_Mail
<1> SUFFICES ASSUME TokenInv, [Next]_vars PROVE MB!Next \/ UNCHANGED Mail
  BY DEF Mail
<1>1. ASSUME UNCHANGED <<jobs, exec>> PROVE UNCHANGED Mail
  <2>1. \A q : BacklogOf(exec', jobs'[q], q) = BacklogOf(exec, jobs[q], q)
    BY <1>1
  <2> QED
    BY <2>1, MailNow, MailNext
<1>2. \A t \in Threads : /\ exec[t].at # "run" => exec[t].batch = <<>>
                         /\ call[t].at # "none" /\ exec[t].at = "run" => exec[t].batch # <<>>
  BY LocalFacts DEF TokenInv, FrameOK, Idle, Frames
<1>3. ASSUME NEW t \in Threads, ScheduleInline(t) \/ Take(t) \/ Finish(t) \/ Continue(t)
                                \/ Yield(t) \/ Repush(t)
      PROVE  UNCHANGED Mail
  <2>1. CASE ScheduleInline(t)
    <3>1. FrameOK(call[t], exec[t], current[t]) /\ current[t] = None
      BY <2>1, LocalFacts DEF ScheduleInline, TokenInv
    <3>2. exec[t].at # "run"
      BY <3>1, NoneAssumption DEF FrameOK
    <3>3. exec[t].batch = <<>>
      BY <1>2, <3>2
    <3> QED
      BY <2>1, <3>3, MailKept DEF ScheduleInline, Entered
  <2>2. CASE Take(t)
    <3>1. exec[t].batch = <<>> /\ UNCHANGED jobs
      BY <2>2 DEF Take, Idle
    <3>2. exec' = [exec EXCEPT ![t] = Entered(Head(globalQueue))]
      BY <2>2 DEF Take
    <3> QED
      BY <3>1, <3>2, MailKept DEF Entered
  <2>3. CASE Finish(t)
    BY <2>3, MailKept DEF Finish, SubtractBatch, Idle
  <2>4. CASE Continue(t)
    BY <2>4, MailKept DEF Continue, SubtractBatch, Entered
  <2>5. CASE Yield(t)
    BY <2>5, MailKept DEF Yield, SubtractBatch, Entered
  <2>6. CASE Repush(t)
    BY <2>6, <1>2, MailKept DEF Repush, Idle
  <2> QED
    BY <1>3, <2>1, <2>2, <2>3, <2>4, <2>5, <2>6
<1>4. ASSUME NEW t \in Threads, Enqueue(t) PROVE MB!Next
  <2> PICK q \in Queues, j \in Jobs : Mail' = [Mail EXCEPT ![q] = Append(@, j)]
    BY <1>4, EnqueuePosts
  <2> QED
    BY DEF MB!Next, MB!Post, Mail
<1>5. ASSUME NEW t \in Threads, RunJob(t) PROVE MB!Next
  <2> PICK q \in Queues : Mail[q] # <<>> /\ Mail' = [Mail EXCEPT ![q] = Tail(@)]
    BY <1>5, RunJobDelivers
  <2> QED
    BY DEF MB!Next, MB!Deliver, Mail
<1>6. ASSUME NEW t \in Threads, NEW q \in Queues, ClearJobs(t, q) PROVE MB!Next
  <2> PICK n \in 0 .. Len(Mail[q]) : Mail' = [Mail EXCEPT ![q] = SubSeq(@, 1, n)]
    BY <1>6, ClearJobsDiscards
  <2> QED
    BY DEF MB!Next, MB!Discard, Mail
<1>7. ASSUME NEW t \in Threads, NEW q \in Queues, NEW j \in Jobs, NEW b \in BOOLEAN,
             Push(t, q, j, b)
      PROVE  UNCHANGED Mail
  BY <1>1, <1>7 DEF Push
<1>8. ASSUME NEW t \in Threads, ScheduleGlobal(t) PROVE UNCHANGED Mail
  BY <1>1, <1>8 DEF ScheduleGlobal
<1>9. CASE UNCHANGED vars
  BY <1>1, <1>9 DEF vars
<1> QED
  BY <1>3, <1>4, <1>5, <1>6, <1>7, <1>8, <1>9, PopAllKeeps DEF Next, ThreadStep, TakeNothing

(* Before anything is pushed all mailboxes are empty. *)
LEMMA InitRefines == Init => MB!Init
<1> SUFFICES ASSUME Init, NEW q \in Queues PROVE Backlog(q) = <<>>
  BY DEF MB!Init
<1>1. {t \in Threads : Executing(t, q) /\ exec[t].batch # <<>>} = {} /\ jobs[q] = <<>>
  BY DEF Init, Idle
<1> QED
  BY <1>1 DEF Backlog

(* ImplementsMailbox: whatever threads push and execute, a JobQueue delivers
   its jobs one at a time and in order, and loses none but to ClearJobs. *)
THEOREM BehavesAsMailbox == Spec => ImplementsMailbox
<1>1. Spec => MB!Init /\ [][MB!Next]_Mail
  BY InitToken, NextToken, InitRefines, StepRefines, PTL DEF Spec
<1> QED
  BY <1>1, PTL DEF ImplementsMailbox, MB!Spec, Mail
==============================================================================
