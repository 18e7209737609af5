----------------------------- MODULE LockProofs -----------------------------
(***************************************************************************)
(* Proofs about Lock, for any finite set of threads and any depth of       *)
(* nesting: it is a reader-writer lock, its counters are exact, and it     *)
(* implements RWLock.                                                      *)
(*                                                                         *)
(* The argument ties every thread to the writer half of the word.  Only    *)
(* the thread named there is between two steps of the writer's functions,  *)
(* has a write guard or touches _writeCount; and while a thread is named   *)
(* there no other has any guard.  A thread gets its id there only when the *)
(* whole word is 0, so that the read half must count the read guards of    *)
(* everybody.                                                              *)
(***************************************************************************)
EXTENDS Lock, FiniteSetTheorems, SequenceTheorems, TLAPS

Modes == {"read", "write"}

(* The guards of a kind on a thread's stack, and how many they are. *)
Positions(stack, kind) == {i \in 1 .. Len(stack) : stack[i] = kind}
Number(stack, kind) == Cardinality(Positions(stack, kind))

(* The read guards of all threads, and how many they are. *)
Reads(stacks) == {g \in Threads \X (1 .. MaxNest) :
                     g[2] <= Len(stacks[g[1]]) /\ stacks[g[1]][g[2]] = "read"}
Total(stacks) == Cardinality(Reads(stacks))

Fits(stack) == Len(stack) <= MaxNest
HasPlace(stack) == Len(stack) < MaxNest
EndsIn(stack, kind) == stack # <<>> /\ stack[Len(stack)] = kind

(* What ties a thread t at l with its guards to the word f and the count n. *)
Tied(t, l, stack, f, n) ==
    /\ Fits(stack)
    /\ l \in {"casWrite", "countWrite", "addReader", "sample", "casRead"} => HasPlace(stack)
    /\ l \in {"uncount", "store"} => EndsIn(stack, "write") /\ f.readers = 0
    /\ l \in {"countWrite", "addReader", "uncount", "store"} => f.writer = t
    /\ f.writer = t =>
          /\ n = Number(stack, "write") - IF l = "store" THEN 1 ELSE 0
          /\ Number(stack, "write") > 0 \/ (l = "countWrite" /\ stack = <<>>)
    /\ l = "store" => n = 0
    /\ f.writer # t => Number(stack, "write") = 0
    /\ f.writer \notin {t, Nobody} => stack = <<>>

IInv ==
    /\ TypeOK
    /\ CrashJustified
    /\ \A t \in Threads : Tied(t, pc[t], guards[t], flag, writeCount)
    /\ flag.readers = Total(guards)
    /\ flag.writer = Nobody => writeCount = 0

------------------------------------------------------------------------------
(* Facts about stacks of guards. *)
LEMMA Counting ==
    ASSUME NEW s \in Seq(Modes), NEW kind
    PROVE  /\ IsFiniteSet(Positions(s, kind)) /\ Number(s, kind) \in Nat
           /\ Number(s, kind) = 0 <=> Positions(s, kind) = {}
  <1>1. IsFiniteSet(1 .. Len(s))
    BY FS_Interval, 0 + 1 \in Int
  <1>2. IsFiniteSet(Positions(s, kind))
    BY <1>1, FS_Subset DEF Positions
  <1> QED BY <1>2, FS_CardinalityType, FS_EmptySet DEF Number

LEMMA NumberAppend ==
    ASSUME NEW s \in Seq(Modes), NEW m \in Modes, NEW kind \in Modes
    PROVE  Number(Append(s, m), kind) = Number(s, kind) + IF m = kind THEN 1 ELSE 0
  <1>1. CASE m = kind
    <2>1. Positions(Append(s, m), kind) = Positions(s, kind) \cup {Len(s) + 1}
      BY <1>1 DEF Positions
    <2>2. Len(s) + 1 \notin Positions(s, kind)
      BY DEF Positions
    <2>3. IsFiniteSet(Positions(s, kind))
      BY Counting
    <2> QED BY <1>1, <2>1, <2>2, <2>3, FS_AddElement DEF Number
  <1>2. CASE m # kind
    <2>1. Positions(Append(s, m), kind) = Positions(s, kind)
      BY <1>2 DEF Positions
    <2> QED BY <1>2, <2>1, Counting DEF Number
  <1> QED BY <1>1, <1>2

LEMMA NumberOfOther ==
    ASSUME NEW s \in Seq(Modes), NEW m \in Modes, NEW kind \in Modes, m # kind
    PROVE  Number(Append(s, m), kind) = Number(s, kind)
  <1>1. Number(Append(s, m), kind) = Number(s, kind) + 0
    BY NumberAppend
  <1> QED BY <1>1, Counting

(* Leaving a scope undoes entering it. *)
LEMMA FrontAppend ==
    ASSUME NEW s \in Seq(Modes), s # <<>>
    PROVE  /\ SubSeq(s, 1, Len(s) - 1) \in Seq(Modes)
           /\ s[Len(s)] \in Modes
           /\ s = Append(SubSeq(s, 1, Len(s) - 1), s[Len(s)])
           /\ Fits(s) => HasPlace(SubSeq(s, 1, Len(s) - 1))
  <1>1. Len(s) \in Nat /\ Len(s) >= 1
    OBVIOUS
  <1>2. SubSeq(s, 1, Len(s) - 1) \in Seq(Modes) /\ Len(SubSeq(s, 1, Len(s) - 1)) = Len(s) - 1
        /\ \A i \in 1 .. Len(s) - 1 : SubSeq(s, 1, Len(s) - 1)[i] = s[i]
    <2>1. PICK n \in Nat : n = Len(s) - 1
      BY <1>1
    <2>2. /\ SubSeq(s, 1, n) \in Seq(Modes)
          /\ Len(SubSeq(s, 1, n)) = IF 1 <= n THEN n - 1 + 1 ELSE 0
          /\ \A i \in 1 .. n - 1 + 1 : SubSeq(s, 1, n)[i] = s[1 + i - 1]
      <3>1. \A i \in 1 .. n : s[i] \in Modes
        BY <1>1, <2>1
      <3> QED BY <2>1, <3>1, SubSeqProperties, 1 \in Int
    <2> QED BY <2>1, <2>2
  <1>3. s = Append(SubSeq(s, 1, Len(s) - 1), s[Len(s)])
    BY <1>1, <1>2
  <1> QED BY <1>1, <1>2, <1>3, NestAssumption DEF Fits, HasPlace

LEMMA NoGuards ==
    ASSUME NEW s \in Seq(Modes)
    PROVE  s = <<>> <=> Number(s, "read") = 0 /\ Number(s, "write") = 0
  <1>1. Positions(<<>>, "read") = {} /\ Positions(<<>>, "write") = {}
    BY DEF Positions
  <1>2. ASSUME s # <<>> PROVE Positions(s, "read") # {} \/ Positions(s, "write") # {}
    BY <1>2 DEF Positions, Modes
  <1> QED BY <1>1, <1>2, Counting

LEMMA EndCounts ==
    ASSUME NEW s \in Seq(Modes), NEW kind \in Modes, EndsIn(s, kind)
    PROVE  Number(s, kind) > 0
  <1>1. Len(s) \in Positions(s, kind)
    BY DEF EndsIn, Positions
  <1>2. Number(s, kind) \in Nat /\ Number(s, kind) # 0
    BY <1>1, Counting
  <1> QED BY <1>2

LEMMA ReadsFinite ==
    ASSUME NEW g PROVE IsFiniteSet(Reads(g)) /\ Total(g) \in Nat
  <1>1. IsFiniteSet(1 .. MaxNest)
    BY FS_Interval, NestAssumption
  <1>2. IsFiniteSet(Threads \X (1 .. MaxNest))
    BY <1>1, FS_Product, ThreadsAssumption
  <1>3. IsFiniteSet(Reads(g))
    BY <1>2, FS_Subset DEF Reads
  <1> QED BY <1>3, FS_CardinalityType DEF Total

LEMMA TotalAppend ==
    ASSUME NEW g \in [Threads -> Seq(Modes)], NEW t \in Threads, NEW m \in Modes,
           HasPlace(g[t])
    PROVE  Total([g EXCEPT ![t] = Append(g[t], m)]) = Total(g) + IF m = "read" THEN 1 ELSE 0
  <1> DEFINE h == [g EXCEPT ![t] = Append(g[t], m)]
             new == <<t, Len(g[t]) + 1>>
  <1>1. Len(g[t]) \in Nat /\ Len(g[t]) + 1 \in 1 .. MaxNest
    BY NestAssumption DEF HasPlace
  <1>2. \A u \in Threads \ {t} : h[u] = g[u]
    OBVIOUS
  <1>3. h[t] = Append(g[t], m) /\ Len(h[t]) = Len(g[t]) + 1 /\ h[t][Len(g[t]) + 1] = m
        /\ \A i \in 1 .. Len(g[t]) : h[t][i] = g[t][i]
    OBVIOUS
  <1>4. \A u \in Threads, i \in 1 .. MaxNest :
            <<u, i>> \in Reads(h) <=> <<u, i>> \in Reads(g) \/ (<<u, i>> = new /\ m = "read")
    <2> SUFFICES ASSUME NEW u \in Threads, NEW i \in 1 .. MaxNest
                 PROVE  <<u, i>> \in Reads(h)
                           <=> <<u, i>> \in Reads(g) \/ (<<u, i>> = new /\ m = "read")
      OBVIOUS
    <2>1. \A f : <<u, i>> \in Reads(f) <=> i <= Len(f[u]) /\ f[u][i] = "read"
      BY DEF Reads
    <2> HIDE DEF h
    <2>2. CASE u # t
      BY <1>2, <2>1, <2>2
    <2>3. CASE u = t
      <3>1. i <= Len(h[t]) <=> i \in 1 .. Len(g[t]) \/ i = Len(g[t]) + 1
        BY <1>1, <1>3
      <3>2. i <= Len(g[t]) <=> i \in 1 .. Len(g[t])
        BY <1>1
      <3>3. i = Len(g[t]) + 1 => ~ (i <= Len(g[t]))
        BY <1>1
      <3> QED BY <1>3, <2>1, <2>3, <3>1, <3>2, <3>3
    <2> QED BY <2>2, <2>3
  <1>5. new \in Threads \X (1 .. MaxNest) /\ new \notin Reads(g)
    BY <1>1 DEF Reads
  <1>6. CASE m = "read"
    <2>1. Reads(h) = Reads(g) \cup {new}
      <3>1. Reads(h) \subseteq Threads \X (1 .. MaxNest)
            /\ Reads(g) \subseteq Threads \X (1 .. MaxNest)
        BY DEF Reads
      <3> HIDE DEF h, new
      <3> QED BY <1>4, <1>5, <1>6, <3>1
    <2> QED BY <1>5, <1>6, <2>1, ReadsFinite, FS_AddElement DEF Total
  <1>7. CASE m # "read"
    <2>1. Reads(h) = Reads(g)
      <3>1. Reads(h) \subseteq Threads \X (1 .. MaxNest)
            /\ Reads(g) \subseteq Threads \X (1 .. MaxNest)
        BY DEF Reads
      <3> HIDE DEF h, new
      <3>2. \A p \in Threads \X (1 .. MaxNest) : p \in Reads(h) <=> p \in Reads(g)
        BY <1>4, <1>7
      <3> QED BY <3>1, <3>2
    <2> QED BY <1>7, <2>1, ReadsFinite DEF Total
  <1> QED BY <1>6, <1>7

LEMMA TotalKept ==
    ASSUME NEW g \in [Threads -> Seq(Modes)], NEW t \in Threads, HasPlace(g[t])
    PROVE  Total([g EXCEPT ![t] = Append(g[t], "write")]) = Total(g)
  <1>1. Total([g EXCEPT ![t] = Append(g[t], "write")]) = Total(g) + 0
    BY TotalAppend DEF Modes
  <1> QED BY <1>1, ReadsFinite

LEMMA TotalGrows ==
    ASSUME NEW g \in [Threads -> Seq(Modes)], NEW t \in Threads, HasPlace(g[t])
    PROVE  Total([g EXCEPT ![t] = Append(g[t], "read")]) = Total(g) + 1
  BY TotalAppend DEF Modes

(* A thread's read guards are among those of all. *)
LEMMA NoReads ==
    ASSUME NEW g \in [Threads -> Seq(Modes)], NEW t \in Threads, Fits(g[t]), Total(g) = 0
    PROVE  Number(g[t], "read") = 0
  <1>1. Reads(g) = {}
    BY ReadsFinite, FS_EmptySet DEF Total
  <1>2. \A i \in 1 .. Len(g[t]) : i \in 1 .. MaxNest
    BY NestAssumption DEF Fits
  <1>3. Positions(g[t], "read") = {}
    <2>1. ASSUME NEW i \in Positions(g[t], "read") PROVE FALSE
      <3>1. i \in 1 .. Len(g[t]) /\ i <= Len(g[t]) /\ g[t][i] = "read"
        BY DEF Positions
      <3>2. <<t, i>> \in Reads(g)
        BY <1>2, <3>1 DEF Reads
      <3> QED BY <1>1, <3>2
    <2> QED BY <2>1
  <1> QED BY <1>3, Counting

(* Entering and leaving a scope, as changes of the counts. *)
LEMMA FitsAppend ==
    ASSUME NEW s \in Seq(Modes), NEW m \in Modes, HasPlace(s)
    PROVE  Append(s, m) \in Seq(Modes) /\ Fits(Append(s, m))
  BY NestAssumption DEF HasPlace, Fits

LEMMA LeaveWrite ==
    ASSUME NEW g \in [Threads -> Seq(Modes)], NEW t \in Threads,
           NEW front, front = SubSeq(g[t], 1, Len(g[t]) - 1),
           Fits(g[t]), EndsIn(g[t], "write")
    PROVE  /\ front \in Seq(Modes) /\ Fits(front)
           /\ Number(g[t], "write") = Number(front, "write") + 1
           /\ Number(g[t], "read") = Number(front, "read")
           /\ Total(g) = Total([g EXCEPT ![t] = front])
  <1>1. /\ front \in Seq(Modes) /\ g[t] = Append(front, "write") /\ HasPlace(front)
    BY FrontAppend DEF EndsIn
  <1>2. Fits(front)
    BY <1>1, NestAssumption DEF Fits, HasPlace
  <1>3. Number(Append(front, "write"), "write") = Number(front, "write") + 1
    BY <1>1, NumberAppend DEF Modes
  <1>4. Number(Append(front, "write"), "read") = Number(front, "read")
    BY <1>1, NumberOfOther DEF Modes
  <1>5. PICK h \in [Threads -> Seq(Modes)] : h = [g EXCEPT ![t] = front]
    BY <1>1
  <1>6. h[t] = front /\ g = [h EXCEPT ![t] = Append(h[t], "write")]
    BY <1>1, <1>5
  <1>7. Total([h EXCEPT ![t] = Append(h[t], "write")]) = Total(h)
    BY <1>1, <1>6, TotalKept
  <1> QED BY <1>1, <1>2, <1>3, <1>4, <1>5, <1>6, <1>7

LEMMA LeaveRead ==
    ASSUME NEW g \in [Threads -> Seq(Modes)], NEW t \in Threads,
           NEW front, front = SubSeq(g[t], 1, Len(g[t]) - 1),
           Fits(g[t]), EndsIn(g[t], "read")
    PROVE  /\ front \in Seq(Modes) /\ Fits(front)
           /\ Number(g[t], "read") = Number(front, "read") + 1
           /\ Number(g[t], "write") = Number(front, "write")
           /\ HasPlace(front) /\ g[t] = Append(front, "read")
  <1>1. /\ front \in Seq(Modes) /\ g[t] = Append(front, "read") /\ HasPlace(front)
    BY FrontAppend DEF EndsIn
  <1>2. Fits(front)
    BY <1>1, NestAssumption DEF Fits, HasPlace
  <1>3. Number(Append(front, "read"), "read") = Number(front, "read") + 1
    BY <1>1, NumberAppend DEF Modes
  <1>4. Number(Append(front, "read"), "write") = Number(front, "write")
    BY <1>1, NumberOfOther DEF Modes
  <1> QED BY <1>1, <1>2, <1>3, <1>4

------------------------------------------------------------------------------
LEMMA InitIInv == Init => IInv
  <1> SUFFICES ASSUME Init PROVE IInv
    OBVIOUS
  <1>1. TypeOK
    BY DEF Init, TypeOK, Labels, EmptyFlag
  <1>2. \A t \in Threads : guards[t] = <<>> /\ pc[t] = "user"
    BY DEF Init
  <1>3. <<>> \in Seq(Modes) /\ Fits(<<>>)
    BY NestAssumption DEF Fits
  <1>4. Number(<<>>, "write") = 0
    BY <1>3, NoGuards
  <1>5. flag.writer = Nobody /\ flag.readers = 0 /\ writeCount = 0 /\ crash = "none"
    BY DEF Init, EmptyFlag
  <1>6. \A t \in Threads : Tied(t, pc[t], guards[t], flag, writeCount)
    BY <1>2, <1>3, <1>4, <1>5, NobodyAssumption DEF Tied
  <1>7. Total(guards) = 0
    <2>1. Reads(guards) = {}
      <3>1. \A g \in Threads \X (1 .. MaxNest) : ~ (g[2] <= Len(guards[g[1]]))
        BY <1>2
      <3> QED BY <3>1 DEF Reads
    <2> QED BY <2>1, FS_EmptySet DEF Total
  <1> QED BY <1>1, <1>5, <1>6, <1>7 DEF IInv, CrashJustified

(* What IInv says of one thread. *)
LEMMA Facts ==
    ASSUME IInv, NEW t \in Threads
    PROVE  /\ guards \in [Threads -> Seq(Modes)] /\ guards[t] \in Seq(Modes)
           /\ pc \in [Threads -> Labels] /\ sampled \in [Threads -> Int]
           /\ flag \in [writer : Threads \cup {Nobody}, readers : Nat]
           /\ flag.writer \in Threads \cup {Nobody} /\ flag.readers \in Nat
           /\ writeCount \in Nat
           /\ Tied(t, pc[t], guards[t], flag, writeCount) /\ Fits(guards[t])
           /\ Number(guards[t], "write") \in Nat /\ Number(guards[t], "read") \in Nat
           /\ flag.readers = Total(guards)
           /\ flag.writer = Nobody => writeCount = 0
           /\ guards = [guards EXCEPT ![t] = guards[t]]
  <1>1. guards \in [Threads -> Seq(Modes)] /\ guards[t] \in Seq(Modes)
    BY DEF IInv, TypeOK, Modes
  <1>2. Number(guards[t], "write") \in Nat /\ Number(guards[t], "read") \in Nat
    BY <1>1, Counting
  <1> QED BY <1>1, <1>2 DEF IInv, TypeOK, Tied

(* The other threads do not notice what the writer, or a reader, does. *)
LEMMA OtherTied ==
    ASSUME NEW u, NEW l, NEW stack, NEW f, NEW n, NEW f2, NEW n2,
           Tied(u, l, stack, f, n), f.writer # u, f2.writer = f.writer
    PROVE  Tied(u, l, stack, f2, n2)
  BY DEF Tied

(* A step of t to l, with these values of the other variables. *)
LEMMA StepOf ==
    ASSUME IInv, NEW t \in Threads, NEW l \in Labels, NEW stack \in Seq(Modes),
           NEW f \in [writer : Threads \cup {Nobody}, readers : Nat], NEW n \in Nat,
           pc' = [pc EXCEPT ![t] = l], guards' = [guards EXCEPT ![t] = stack],
           flag' = f, writeCount' = n,
           sampled' \in [Threads -> Int], crash' = "none",
           Tied(t, l, stack, f, n),
           \A u \in Threads \ {t} : Tied(u, pc[u], guards[u], f, n),
           f.readers = Total([guards EXCEPT ![t] = stack]),
           f.writer = Nobody => n = 0
    PROVE  IInv'
  <1>0. guards \in [Threads -> Seq(Modes)] /\ pc \in [Threads -> Labels]
    BY Facts
  <1>1. TypeOK'
    <2>1. guards' \in [Threads -> Seq({"read", "write"})] /\ pc' \in [Threads -> Labels]
      BY <1>0 DEF Modes
    <2> QED BY <2>1 DEF TypeOK
  <1>2. CrashJustified'
    BY DEF CrashJustified
  <1>3. ASSUME NEW u \in Threads
        PROVE  Tied(u, pc'[u], guards'[u], f, n)
    <2>1. CASE u = t
      BY <1>0, <2>1
    <2>2. CASE u # t
      <3>1. pc'[u] = pc[u] /\ guards'[u] = guards[u]
        BY <1>0, <2>2
      <3> QED BY <2>2, <3>1
    <2> QED BY <2>1, <2>2
  <1> QED BY <1>1, <1>2, <1>3 DEF IInv

------------------------------------------------------------------------------
(* Steps inside the lock that change neither counter. *)
LEMMA QuietStep ==
    ASSUME IInv, crash = "none", NEW t \in Threads, NEW l \in Labels,
           Goto(t, l), UNCHANGED <<flag, writeCount, guards, crash>>,
           sampled' \in [Threads -> Int],
           Tied(t, l, guards[t], flag, writeCount)
    PROVE  IInv'
  <1>1. \A u \in Threads : Tied(u, pc[u], guards[u], flag, writeCount)
    BY DEF IInv
  <1>2. flag.readers = Total([guards EXCEPT ![t] = guards[t]])
    BY Facts
  <1> QED BY <1>1, <1>2, Facts, StepOf DEF Goto

LEMMA WriteLockIInv == ASSUME IInv, NEW t \in Threads, WriteLock(t) PROVE IInv'
  <1>1. crash = "none" /\ pc[t] = "user" /\ HasPlace(guards[t])
    BY DEF WriteLock, At, HasPlace
  <1>2. PICK l \in {"countWrite", "casWrite"} :
            Goto(t, l) /\ (l = "countWrite" => flag.writer = t)
    BY DEF WriteLock
  <1>3. Tied(t, l, guards[t], flag, writeCount)
    BY <1>1, <1>2, Facts DEF Tied
  <1>4. l \in Labels /\ UNCHANGED <<flag, writeCount, guards, crash>> /\ sampled' = sampled
    BY <1>2 DEF Labels, WriteLock
  <1> QED BY <1>1, <1>2, <1>3, <1>4, Facts, QuietStep

LEMMA ReadLockIInv == ASSUME IInv, NEW t \in Threads, ReadLock(t) PROVE IInv'
  <1>1. crash = "none" /\ pc[t] = "user" /\ HasPlace(guards[t])
    BY DEF ReadLock, At, HasPlace
  <1>2. PICK l \in {"addReader", "sample"} :
            Goto(t, l) /\ (l = "addReader" => flag.writer = t)
    BY DEF ReadLock
  <1>3. Tied(t, l, guards[t], flag, writeCount)
    BY <1>1, <1>2, Facts DEF Tied
  <1>4. l \in Labels /\ UNCHANGED <<flag, writeCount, guards, crash>> /\ sampled' = sampled
    BY <1>2 DEF Labels, ReadLock
  <1> QED BY <1>1, <1>2, <1>3, <1>4, Facts, QuietStep

LEMMA SampleIInv == ASSUME IInv, NEW t \in Threads, Sample(t) PROVE IInv'
  <1>1. crash = "none" /\ pc[t] = "sample" /\ Goto(t, "casRead")
        /\ UNCHANGED <<flag, writeCount, guards, crash>>
        /\ sampled' = [sampled EXCEPT ![t] = flag.readers]
    BY DEF Sample, At
  <1>2. Tied(t, "casRead", guards[t], flag, writeCount)
    BY <1>1, Facts DEF Tied
  <1>3. sampled' \in [Threads -> Int] /\ "casRead" \in Labels
    BY <1>1, Facts DEF Labels
  <1> QED BY <1>1, <1>2, <1>3, QuietStep

LEMMA CasReadFailsIInv == ASSUME IInv, NEW t \in Threads, CasReadFails(t) PROVE IInv'
  <1>1. crash = "none" /\ pc[t] = "casRead" /\ Goto(t, "sample")
        /\ UNCHANGED <<flag, writeCount, guards, crash>>
        /\ sampled' = [sampled EXCEPT ![t] = 0]
    BY DEF CasReadFails, At
  <1>2. Tied(t, "sample", guards[t], flag, writeCount)
    BY <1>1, Facts DEF Tied
  <1>3. sampled' \in [Threads -> Int] /\ "sample" \in Labels
    BY <1>1, Facts DEF Labels
  <1> QED BY <1>1, <1>2, <1>3, QuietStep

(* A word of 0 means that nobody has a guard. *)
LEMMA EmptyMeansNoGuards ==
    ASSUME IInv, flag = EmptyFlag, NEW u \in Threads
    PROVE  guards[u] = <<>> /\ writeCount = 0
  <1>1. flag.writer = Nobody /\ flag.readers = 0 /\ Nobody # u
    BY NobodyAssumption DEF EmptyFlag
  <1>2. Number(guards[u], "write") = 0
    BY <1>1, Facts DEF Tied
  <1>3. Number(guards[u], "read") = 0
    BY <1>1, Facts, NoReads
  <1> QED BY <1>1, <1>2, <1>3, Facts, NoGuards

LEMMA CasWriteIInv == ASSUME IInv, NEW t \in Threads, CasWrite(t) PROVE IInv'
  <1> DEFINE f == [writer |-> t, readers |-> 0]
  <1>0. /\ crash = "none" /\ pc[t] = "casWrite" /\ flag = EmptyFlag /\ flag' = f
        /\ Goto(t, "countWrite") /\ UNCHANGED <<writeCount, sampled, guards, crash>>
    BY DEF CasWrite, At
  <1>1. f \in [writer : Threads \cup {Nobody}, readers : Nat] /\ f.writer = t /\ f.readers = 0
    OBVIOUS
  <1>2. flag.writer = Nobody /\ flag.readers = 0 /\ Nobody \notin Threads /\ writeCount = 0
    BY <1>0, EmptyMeansNoGuards, NobodyAssumption DEF EmptyFlag
  <1>3. \A u \in Threads : guards[u] = <<>> /\ Number(guards[u], "write") = 0
    BY <1>0, EmptyMeansNoGuards, Facts, NoGuards
  <1> HIDE DEF f
  <1>4. Tied(t, "countWrite", guards[t], f, writeCount)
    BY <1>0, <1>1, <1>2, <1>3, Facts DEF Tied
  <1>5. \A u \in Threads \ {t} : Tied(u, pc[u], guards[u], f, writeCount)
    BY <1>1, <1>2, <1>3, Facts DEF Tied
  <1>6. f.readers = Total([guards EXCEPT ![t] = guards[t]])
    BY <1>1, <1>2, Facts
  <1>7. "countWrite" \in Labels
    BY DEF Labels
  <1> QED BY <1>0, <1>1, <1>2, <1>4, <1>5, <1>6, <1>7, Facts, StepOf DEF Goto

LEMMA CountWriteIInv == ASSUME IInv, NEW t \in Threads, CountWrite(t) PROVE IInv'
  <1>0. /\ crash = "none" /\ pc[t] = "countWrite" /\ writeCount' = writeCount + 1
        /\ guards' = [guards EXCEPT ![t] = Append(guards[t], "write")]
        /\ Goto(t, "user") /\ UNCHANGED <<flag, sampled, crash>>
        /\ "write" \in Modes /\ "write" # "read" /\ "user" \in Labels
    BY DEF CountWrite, At, Constructed, Modes, Labels
  <1>1. /\ HasPlace(guards[t]) /\ flag.writer = t /\ t # Nobody
        /\ writeCount = Number(guards[t], "write")
    BY <1>0, Facts, NobodyAssumption DEF Tied
  <1>2. PICK stack \in Seq(Modes) : stack = Append(guards[t], "write") /\ Fits(stack)
    BY <1>0, <1>1, Facts, FitsAppend
  <1>3. Number(stack, "write") = Number(guards[t], "write") + 1
    BY <1>0, <1>2, Facts, NumberAppend
  <1>4. PICK n \in Nat : n = writeCount + 1 /\ n = Number(stack, "write") /\ n > 0
    BY <1>1, <1>3, Facts
  <1>5. Tied(t, "user", stack, flag, n)
    BY <1>1, <1>2, <1>4 DEF Tied
  <1>6. \A u \in Threads \ {t} : Tied(u, pc[u], guards[u], flag, n)
    BY <1>1, Facts, OtherTied
  <1>7. flag.readers = Total([guards EXCEPT ![t] = stack])
    BY <1>1, <1>2, Facts, TotalKept
  <1> QED BY <1>0, <1>1, <1>2, <1>4, <1>5, <1>6, <1>7, Facts, StepOf DEF Goto

LEMMA AddReaderIInv == ASSUME IInv, NEW t \in Threads, AddReader(t) PROVE IInv'
  <1>0. /\ crash = "none" /\ pc[t] = "addReader"
        /\ flag' = [flag EXCEPT !.readers = @ + 1]
        /\ guards' = [guards EXCEPT ![t] = Append(guards[t], "read")]
        /\ Goto(t, "user") /\ UNCHANGED <<writeCount, sampled, crash>>
        /\ "read" \in Modes /\ "write" \in Modes /\ "write" # "read" /\ "user" \in Labels
    BY DEF AddReader, At, Constructed, Modes, Labels
  <1>1. /\ HasPlace(guards[t]) /\ flag.writer = t /\ t # Nobody
        /\ writeCount = Number(guards[t], "write") /\ Number(guards[t], "write") > 0
    BY <1>0, Facts, NobodyAssumption DEF Tied
  <1>2. PICK stack \in Seq(Modes) : stack = Append(guards[t], "read") /\ Fits(stack)
    BY <1>0, <1>1, Facts, FitsAppend
  <1>3. Number(stack, "write") = Number(guards[t], "write")
    BY <1>0, <1>2, Facts, NumberOfOther
  <1>4. PICK f \in [writer : Threads \cup {Nobody}, readers : Nat] :
            flag' = f /\ f.writer = t /\ f.readers = flag.readers + 1
    <2>1. PICK f \in [writer : Threads \cup {Nobody}, readers : Nat] :
              f = [flag EXCEPT !.readers = @ + 1]
      <3>1. flag \in [writer : Threads \cup {Nobody}, readers : Nat]
        BY Facts
      <3>2. [flag EXCEPT !.readers = @ + 1] \in [writer : Threads \cup {Nobody}, readers : Nat]
        <4>1. flag.readers + 1 \in Nat
          BY <3>1
        <4> QED BY <3>1, <4>1
      <3> QED BY <3>2
    <2>2. f.writer = flag.writer /\ f.readers = flag.readers + 1
      BY <2>1, Facts
    <2> QED BY <1>0, <1>1, <2>1, <2>2
  <1>5. Tied(t, "user", stack, f, writeCount)
    <2>1. Number(stack, "write") \in Nat
      BY <1>2, Counting
    <2> QED BY <1>1, <1>2, <1>3, <1>4, <2>1 DEF Tied
  <1>6. \A u \in Threads \ {t} : Tied(u, pc[u], guards[u], f, writeCount)
    BY <1>1, <1>4, Facts, OtherTied
  <1>7. f.readers = Total([guards EXCEPT ![t] = stack])
    BY <1>1, <1>2, <1>4, Facts, TotalGrows
  <1> QED BY <1>0, <1>1, <1>2, <1>4, <1>5, <1>6, <1>7, Facts, StepOf DEF Goto

LEMMA CasReadIInv == ASSUME IInv, NEW t \in Threads, CasRead(t) PROVE IInv'
  <1>0. /\ crash = "none" /\ pc[t] = "casRead" /\ flag.writer = Nobody
        /\ flag' = [flag EXCEPT !.readers = @ + 1]
        /\ sampled' = [sampled EXCEPT ![t] = 0]
        /\ guards' = [guards EXCEPT ![t] = Append(guards[t], "read")]
        /\ Goto(t, "user") /\ UNCHANGED <<writeCount, crash>>
        /\ "read" \in Modes /\ "write" \in Modes /\ "write" # "read" /\ "user" \in Labels
    BY DEF CasRead, At, Constructed, Modes, Labels
  <1>1. /\ HasPlace(guards[t]) /\ Nobody \notin Threads
        /\ writeCount = 0 /\ Number(guards[t], "write") = 0
    BY <1>0, Facts, NobodyAssumption DEF Tied
  <1>2. PICK stack \in Seq(Modes) : stack = Append(guards[t], "read") /\ Fits(stack)
    BY <1>0, <1>1, Facts, FitsAppend
  <1>3. Number(stack, "write") = 0
    BY <1>0, <1>1, <1>2, Facts, NumberOfOther
  <1>4. PICK f \in [writer : Threads \cup {Nobody}, readers : Nat] :
            flag' = f /\ f.writer = Nobody /\ f.readers = flag.readers + 1
    <2>1. PICK f \in [writer : Threads \cup {Nobody}, readers : Nat] :
              f = [flag EXCEPT !.readers = @ + 1]
      <3>1. flag \in [writer : Threads \cup {Nobody}, readers : Nat]
        BY Facts
      <3>2. [flag EXCEPT !.readers = @ + 1] \in [writer : Threads \cup {Nobody}, readers : Nat]
        <4>1. flag.readers + 1 \in Nat
          BY <3>1
        <4> QED BY <3>1, <4>1
      <3> QED BY <3>2
    <2>2. f.writer = flag.writer /\ f.readers = flag.readers + 1
      BY <2>1, Facts
    <2> QED BY <1>0, <1>1, <2>1, <2>2
  <1>5. Tied(t, "user", stack, f, writeCount)
    <2>1. Number(stack, "write") \in Nat
      BY <1>2, Counting
    <2> QED BY <1>1, <1>2, <1>3, <1>4, <2>1 DEF Tied
  <1>6. \A u \in Threads \ {t} : Tied(u, pc[u], guards[u], f, writeCount)
    <2>1. \A u \in Threads : f.writer = flag.writer /\ flag.writer # u
      BY <1>0, <1>1, <1>4
    <2>2. \A u \in Threads : Tied(u, pc[u], guards[u], flag, writeCount)
      BY Facts
    <2> QED BY <2>1, <2>2, OtherTied
  <1>7. f.readers = Total([guards EXCEPT ![t] = stack])
    <2>1. Total([guards EXCEPT ![t] = Append(guards[t], "read")]) = Total(guards) + 1
      BY <1>1, Facts, TotalGrows
    <2>2. flag.readers = Total(guards)
      BY Facts
    <2> QED BY <1>2, <1>4, <2>1, <2>2
  <1>8. sampled' \in [Threads -> Int]
    BY <1>0, Facts
  <1> QED BY <1>0, <1>1, <1>2, <1>4, <1>5, <1>6, <1>7, <1>8, Facts, StepOf DEF Goto

------------------------------------------------------------------------------
(* A crash leaves everything else as it was. *)
LEMMA CrashIInv ==
    ASSUME IInv, UNCHANGED <<flag, writeCount, pc, sampled, guards>>,
           crash' \in {"LOCK_TIMEOUT", "INVALID_UNLOCK_ORDER"}, CrashJustified'
    PROVE  IInv'
  <1>1. TypeOK'
    BY DEF IInv, TypeOK
  <1> QED BY <1>1 DEF IInv

LEMMA TimeoutIInv == ASSUME IInv, NEW t \in Threads, Timeout(t) PROVE IInv'
  BY CrashIInv DEF Timeout, CrashJustified

LEMMA WriteUnlockIInv == ASSUME IInv, NEW t \in Threads, WriteUnlock(t) PROVE IInv'
  <1>0. /\ crash = "none" /\ pc[t] = "user" /\ EndsIn(guards[t], "write")
        /\ UNCHANGED <<flag, writeCount, sampled, guards>>
        /\ IF flag.readers # 0 THEN crash' = "INVALID_UNLOCK_ORDER" /\ UNCHANGED pc
                               ELSE Goto(t, "uncount") /\ UNCHANGED crash
    BY DEF WriteUnlock, At, Innermost, EndsIn
  <1>1. flag.writer = t /\ t # Nobody
    <2>1. Number(guards[t], "write") > 0 /\ Number(guards[t], "write") # 0
      BY <1>0, Facts, EndCounts DEF Modes
    <2> QED BY <2>1, Facts, NobodyAssumption DEF Tied
  <1>2. CASE flag.readers # 0
    <2>1. PICK g \in Reads(guards) : TRUE
      <3>1. Total(guards) # 0
        BY <1>2, Facts
      <3> QED BY <3>1, FS_EmptySet DEF Total
    <2>2. g[1] \in Threads /\ g[2] \in 1 .. MaxNest /\ g[2] <= Len(guards[g[1]])
          /\ guards[g[1]][g[2]] = "read"
      BY <2>1 DEF Reads
    <2>3. g[1] = t
      <3>1. ASSUME g[1] # t PROVE FALSE
        <4>1. guards[g[1]] = <<>>
          BY <1>1, <2>2, <3>1, Facts DEF Tied
        <4>2. ~ (g[2] <= 0)
          BY <2>2, NestAssumption
        <4> QED BY <2>2, <4>1, <4>2
      <3> QED BY <3>1
    <2>4. Len(guards[t]) \in Nat /\ guards[t][Len(guards[t])] = "write"
      BY <1>0, Facts DEF EndsIn
    <2>5. g[2] < Len(guards[t]) /\ g[2] \in 1 .. Len(guards[t])
          /\ Len(guards[t]) \in 1 .. Len(guards[t])
      BY <2>2, <2>3, <2>4, NestAssumption
    <2>6. CrashJustified'
      BY <1>0, <1>2, <2>2, <2>3, <2>4, <2>5 DEF CrashJustified
    <2> QED BY <1>0, <1>2, <2>6, CrashIInv
  <1>3. CASE flag.readers = 0
    <2>1. Tied(t, "uncount", guards[t], flag, writeCount)
      BY <1>0, <1>1, <1>3, Facts DEF Tied
    <2>2. sampled' \in [Threads -> Int] /\ "uncount" \in Labels
      BY <1>0, Facts DEF Labels
    <2> QED BY <1>0, <1>3, <2>1, <2>2, QuietStep
  <1> QED BY <1>2, <1>3

(* The writer leaves a write scope of its own. *)
LEMMA LeavingWrite ==
    ASSUME IInv, NEW t \in Threads, EndsIn(guards[t], "write")
    PROVE  LET front == SubSeq(guards[t], 1, Len(guards[t]) - 1) IN
           /\ front \in Seq(Modes) /\ Fits(front)
           /\ Number(guards[t], "write") = Number(front, "write") + 1
           /\ Number(front, "write") \in Nat
           /\ Number(guards[t], "read") = Number(front, "read")
           /\ Total(guards) = Total([guards EXCEPT ![t] = front])
  <1>1. PICK front : front = SubSeq(guards[t], 1, Len(guards[t]) - 1)
    OBVIOUS
  <1>2. guards \in [Threads -> Seq(Modes)] /\ Fits(guards[t])
    BY Facts
  <1>3. /\ front \in Seq(Modes) /\ Fits(front)
        /\ Number(guards[t], "write") = Number(front, "write") + 1
        /\ Number(guards[t], "read") = Number(front, "read")
        /\ Total(guards) = Total([guards EXCEPT ![t] = front])
    BY <1>1, <1>2, LeaveWrite
  <1>4. Number(front, "write") \in Nat /\ Total([guards EXCEPT ![t] = front]) \in Nat
    BY <1>3, Counting, ReadsFinite
  <1> QED BY <1>1, <1>3, <1>4

LEMMA UncountIInv == ASSUME IInv, NEW t \in Threads, Uncount(t) PROVE IInv'
  <1>0. /\ crash = "none" /\ pc[t] = "uncount" /\ writeCount' = writeCount - 1
        /\ IF writeCount - 1 = 0 THEN Goto(t, "store") /\ UNCHANGED guards ELSE Destroyed(t)
        /\ UNCHANGED <<flag, sampled, crash>>
    BY DEF Uncount, At
  <1>1. /\ EndsIn(guards[t], "write") /\ flag.readers = 0 /\ flag.writer = t /\ t # Nobody
        /\ writeCount = Number(guards[t], "write") /\ Fits(guards[t])
    BY <1>0, Facts, NobodyAssumption DEF Tied
  <1>2. PICK front : front = SubSeq(guards[t], 1, Len(guards[t]) - 1)
    OBVIOUS
  <1>3. /\ front \in Seq(Modes) /\ Fits(front)
        /\ Number(guards[t], "write") = Number(front, "write") + 1
        /\ Number(front, "write") \in Nat
        /\ Total(guards) = Total([guards EXCEPT ![t] = front])
    BY <1>1, <1>2, LeavingWrite
  <1>4. PICK n \in Nat : n = writeCount - 1 /\ n = Number(front, "write")
    BY <1>1, <1>3
  <1>5. \A u \in Threads \ {t} : Tied(u, pc[u], guards[u], flag, n)
    BY <1>1, Facts, OtherTied
  <1>6. CASE n = 0
    <2>1. Tied(t, "store", guards[t], flag, n)
      <3>1. n = Number(guards[t], "write") - 1 /\ Number(guards[t], "write") > 0
        BY <1>3, <1>4
      <3> QED BY <1>1, <1>6, <3>1 DEF Tied
    <2>2. flag.readers = Total([guards EXCEPT ![t] = guards[t]])
      BY Facts
    <2>3. "store" \in Labels /\ Goto(t, "store") /\ guards' = guards
      BY <1>0, <1>4, <1>6 DEF Labels
    <2> QED BY <1>0, <1>1, <1>4, <1>5, <2>1, <2>2, <2>3, Facts, StepOf DEF Goto
  <1>7. CASE n # 0
    <2>1. Tied(t, "user", front, flag, n)
      BY <1>1, <1>3, <1>4, <1>7 DEF Tied
    <2>2. flag.readers = Total([guards EXCEPT ![t] = front])
      BY <1>3, Facts
    <2>3. "user" \in Labels /\ Goto(t, "user") /\ guards' = [guards EXCEPT ![t] = front]
      BY <1>0, <1>2, <1>4, <1>7 DEF Labels, Destroyed
    <2> QED BY <1>0, <1>1, <1>3, <1>4, <1>5, <2>1, <2>2, <2>3, Facts, StepOf DEF Goto
  <1> QED BY <1>6, <1>7

LEMMA StoreIInv == ASSUME IInv, NEW t \in Threads, Store(t) PROVE IInv'
  <1>0. /\ crash = "none" /\ pc[t] = "store" /\ flag' = EmptyFlag
        /\ Destroyed(t) /\ UNCHANGED <<writeCount, sampled, crash>>
    BY DEF Store, At
  <1>1. /\ EndsIn(guards[t], "write") /\ flag.readers = 0 /\ flag.writer = t /\ t # Nobody
        /\ writeCount = 0 /\ writeCount = Number(guards[t], "write") - 1 /\ Fits(guards[t])
    BY <1>0, Facts, NobodyAssumption DEF Tied
  <1>2. PICK front : front = SubSeq(guards[t], 1, Len(guards[t]) - 1)
    OBVIOUS
  <1>3. /\ front \in Seq(Modes) /\ Fits(front)
        /\ Number(guards[t], "write") = Number(front, "write") + 1
        /\ Number(front, "write") \in Nat
        /\ Total(guards) = Total([guards EXCEPT ![t] = front])
    BY <1>1, <1>2, LeavingWrite
  <1>4. Number(front, "write") = 0
    BY <1>1, <1>3
  <1>5. EmptyFlag \in [writer : Threads \cup {Nobody}, readers : Nat]
        /\ EmptyFlag.writer = Nobody /\ EmptyFlag.readers = 0
    BY DEF EmptyFlag
  <1>6. Tied(t, "user", front, EmptyFlag, writeCount)
    BY <1>1, <1>3, <1>4, <1>5 DEF Tied
  <1>7. ASSUME NEW u \in Threads \ {t}
        PROVE  Tied(u, pc[u], guards[u], EmptyFlag, writeCount)
    <2>1. Tied(u, pc[u], guards[u], flag, writeCount) /\ u # Nobody
      BY Facts, NobodyAssumption
    <2> QED BY <1>1, <1>5, <2>1 DEF Tied
  <1>8. EmptyFlag.readers = Total([guards EXCEPT ![t] = front])
    BY <1>1, <1>3, <1>5, Facts
  <1>9. "user" \in Labels /\ Goto(t, "user") /\ guards' = [guards EXCEPT ![t] = front]
    BY <1>0, <1>2 DEF Labels, Destroyed
  <1> HIDE DEF EmptyFlag
  <1> QED BY <1>0, <1>1, <1>3, <1>5, <1>6, <1>7, <1>8, <1>9, Facts, StepOf DEF Goto

LEMMA LeavingRead ==
    ASSUME IInv, NEW t \in Threads, EndsIn(guards[t], "read")
    PROVE  LET front == SubSeq(guards[t], 1, Len(guards[t]) - 1) IN
           /\ front \in Seq(Modes) /\ Fits(front)
           /\ Number(guards[t], "write") = Number(front, "write")
           /\ Number(guards[t], "read") = Number(front, "read") + 1
           /\ Number(front, "read") \in Nat
           /\ Total(guards) = Total([guards EXCEPT ![t] = front]) + 1
           /\ Total([guards EXCEPT ![t] = front]) \in Nat
  <1>1. PICK front : front = SubSeq(guards[t], 1, Len(guards[t]) - 1)
    OBVIOUS
  <1>2. guards \in [Threads -> Seq(Modes)] /\ Fits(guards[t])
    BY Facts
  <1>3. /\ front \in Seq(Modes) /\ Fits(front)
        /\ Number(guards[t], "read") = Number(front, "read") + 1
        /\ Number(guards[t], "write") = Number(front, "write")
        /\ Total(guards) = Total([guards EXCEPT ![t] = front]) + 1
    <2>1. PICK g \in [Threads -> Seq(Modes)] : g = guards /\ Fits(g[t])
      BY <1>2
    <2>2. front = SubSeq(g[t], 1, Len(g[t]) - 1) /\ EndsIn(g[t], "read")
      BY <1>1, <2>1
    <2>3. /\ front \in Seq(Modes) /\ Fits(front)
          /\ Number(g[t], "read") = Number(front, "read") + 1
          /\ Number(g[t], "write") = Number(front, "write")
          /\ HasPlace(front) /\ g[t] = Append(front, "read")
      BY <2>1, <2>2, LeaveRead
    <2>4. PICK h \in [Threads -> Seq(Modes)] : h = [g EXCEPT ![t] = front]
      BY <2>3
    <2>5. h[t] = front /\ g = [h EXCEPT ![t] = Append(h[t], "read")] /\ HasPlace(h[t])
      BY <2>3, <2>4
    <2>6. Total([h EXCEPT ![t] = Append(h[t], "read")]) = Total(h) + 1
      BY <2>5, TotalGrows
    <2> QED BY <2>1, <2>3, <2>4, <2>5, <2>6
  <1>4. Number(front, "read") \in Nat /\ Total([guards EXCEPT ![t] = front]) \in Nat
    BY <1>3, Counting, ReadsFinite
  <1> QED BY <1>1, <1>3, <1>4

LEMMA ReadUnlockIInv == ASSUME IInv, NEW t \in Threads, ReadUnlock(t) PROVE IInv'
  <1>0. /\ crash = "none" /\ pc[t] = "user" /\ EndsIn(guards[t], "read")
        /\ flag' = [flag EXCEPT !.readers = @ - 1]
        /\ IF flag.readers = 0 THEN crash' = "MULTIPLE_UNLOCK" /\ UNCHANGED <<pc, guards>>
                               ELSE Destroyed(t) /\ UNCHANGED crash
        /\ UNCHANGED <<writeCount, sampled>>
    BY DEF ReadUnlock, At, Innermost, EndsIn
  <1>1. PICK front : front = SubSeq(guards[t], 1, Len(guards[t]) - 1)
    OBVIOUS
  <1>2. /\ front \in Seq(Modes) /\ Fits(front)
        /\ Number(guards[t], "write") = Number(front, "write")
        /\ Total(guards) = Total([guards EXCEPT ![t] = front]) + 1
        /\ Total([guards EXCEPT ![t] = front]) \in Nat
    BY <1>0, <1>1, LeavingRead
  <1>3. PICK r \in Nat : r = Total([guards EXCEPT ![t] = front]) /\ flag.readers = r + 1
    BY <1>2, Facts
  <1>4. flag.readers # 0 /\ flag.readers - 1 = r
    BY <1>3
  <1>5. /\ Goto(t, "user") /\ guards' = [guards EXCEPT ![t] = front] /\ crash' = "none"
        /\ "user" \in Labels
    BY <1>0, <1>1, <1>4 DEF Destroyed, Labels
  <1>6. PICK f \in [writer : Threads \cup {Nobody}, readers : Nat] :
            flag' = f /\ f.writer = flag.writer /\ f.readers = r
    <2>1. flag \in [writer : Threads \cup {Nobody}, readers : Nat]
      BY Facts
    <2>2. [flag EXCEPT !.readers = @ - 1] \in [writer : Threads \cup {Nobody}, readers : Nat]
          /\ [flag EXCEPT !.readers = @ - 1].writer = flag.writer
          /\ [flag EXCEPT !.readers = @ - 1].readers = r
      BY <1>4, <2>1
    <2> QED BY <1>0, <2>2
  <1>7. flag.writer \in {t, Nobody} /\ guards[t] # <<>> /\ Nobody \notin Threads
    BY <1>0, Facts, NobodyAssumption DEF Tied, EndsIn
  <1>8. Tied(t, "user", front, f, writeCount)
    <2>1. Tied(t, "user", guards[t], flag, writeCount)
      BY <1>0, Facts
    <2> QED BY <1>2, <1>6, <1>7, <2>1 DEF Tied
  <1>9. \A u \in Threads \ {t} : Tied(u, pc[u], guards[u], f, writeCount)
    <2>1. \A u \in Threads \ {t} : flag.writer # u
      BY <1>7
    <2> QED BY <1>6, <2>1, Facts, OtherTied
  <1>10. f.writer = Nobody => writeCount = 0
    BY <1>6, Facts
  <1>11. f.readers = Total([guards EXCEPT ![t] = front])
    BY <1>3, <1>6
  <1>12. sampled' \in [Threads -> Int] /\ writeCount \in Nat
    BY <1>0, Facts
  <1>13. pc' = [pc EXCEPT ![t] = "user"] /\ writeCount' = writeCount
    BY <1>0, <1>5 DEF Goto
  <1> QED BY <1>2, <1>5, <1>6, <1>8, <1>9, <1>10, <1>11, <1>12, <1>13, StepOf

LEMMA StepIInv == IInv /\ [Next]_vars => IInv'
  <1> SUFFICES ASSUME IInv, [Next]_vars PROVE IInv'
    OBVIOUS
  <1>1. CASE UNCHANGED vars
    BY <1>1 DEF vars, IInv, TypeOK, CrashJustified
  <1>2. ASSUME NEW t \in Threads, WriteLock(t) \/ ReadLock(t) PROVE IInv'
    BY <1>2, WriteLockIInv, ReadLockIInv
  <1>3. ASSUME NEW t \in Threads, LockStep(t) PROVE IInv'
    BY <1>3, CasWriteIInv, CountWriteIInv, AddReaderIInv, SampleIInv, CasReadIInv,
       CasReadFailsIInv, UncountIInv, StoreIInv DEF LockStep
  <1>4. ASSUME NEW t \in Threads, Timeout(t) PROVE IInv'
    BY <1>4, TimeoutIInv
  <1>5. ASSUME NEW t \in Threads, Unlock(t) PROVE IInv'
    BY <1>5, WriteUnlockIInv, ReadUnlockIInv DEF Unlock
  <1> QED BY <1>1, <1>2, <1>3, <1>4, <1>5 DEF Next

LEMMA IInvHolds == Spec => []IInv
  <1> QED BY InitIInv, StepIInv, PTL DEF Spec

------------------------------------------------------------------------------
(* What RWLock sees of the guards. *)
HeldOf(stacks) == [t \in Threads |-> [read |-> Number(stacks[t], "read"),
                                      write |-> Number(stacks[t], "write")]]
HeldNow == [t \in Threads |-> [read |-> Cardinality(GuardsOf(t, "read")),
                               write |-> Cardinality(GuardsOf(t, "write"))]]

LEMMA HeldIsOfGuards == HeldNow = HeldOf(guards)
  BY DEF HeldNow, HeldOf, GuardsOf, Number, Positions

LEMMA HeldAfter == HeldNow' = HeldOf(guards')
  BY DEF HeldNow, HeldOf, GuardsOf, Number, Positions

LEMMA WriteCounted ==
    ASSUME NEW t \in Threads, NEW s, guards \in [Threads -> Seq(Modes)],
           guards' = [guards EXCEPT ![t] = s],
           Number(s, "read") = Number(guards[t], "read")
    PROVE  HeldNow' = [HeldNow EXCEPT ![t].write = Number(s, "write")]
  <1>1. \A u \in Threads : guards'[u] = IF u = t THEN s ELSE guards[u]
    OBVIOUS
  <1>2. HeldOf(guards') = [HeldOf(guards) EXCEPT ![t].write = Number(s, "write")]
    BY <1>1 DEF HeldOf
  <1> QED BY <1>2, HeldAfter, HeldIsOfGuards

LEMMA ReadCounted ==
    ASSUME NEW t \in Threads, NEW s, guards \in [Threads -> Seq(Modes)],
           guards' = [guards EXCEPT ![t] = s],
           Number(s, "write") = Number(guards[t], "write")
    PROVE  HeldNow' = [HeldNow EXCEPT ![t].read = Number(s, "read")]
  <1>1. \A u \in Threads : guards'[u] = IF u = t THEN s ELSE guards[u]
    OBVIOUS
  <1>2. HeldOf(guards') = [HeldOf(guards) EXCEPT ![t].read = Number(s, "read")]
    BY <1>1 DEF HeldOf
  <1> QED BY <1>2, HeldAfter, HeldIsOfGuards

LEMMA HeldFacts ==
    ASSUME NEW t \in Threads
    PROVE  HeldNow[t].read = Number(guards[t], "read")
           /\ HeldNow[t].write = Number(guards[t], "write")
  BY HeldIsOfGuards DEF HeldOf

LEMMA NoGuardsFree ==
    ASSUME NEW t \in Threads, guards[t] = <<>>
    PROVE  HeldNow[t].read = 0 /\ HeldNow[t].write = 0
  <1>1. <<>> \in Seq(Modes)
    OBVIOUS
  <1> QED BY <1>1, NoGuards, HeldFacts

LEMMA CountWriteRefines ==
    ASSUME IInv, NEW t \in Threads, CountWrite(t)
    PROVE  Abstract!AcquireWrite(t)
  <1>0. /\ pc[t] = "countWrite" /\ guards' = [guards EXCEPT ![t] = Append(guards[t], "write")]
        /\ guards \in [Threads -> Seq(Modes)] /\ guards[t] \in Seq(Modes)
        /\ flag.writer = t /\ t # Nobody
        /\ Number(guards[t], "write") > 0 \/ guards[t] = <<>>
    BY Facts, NobodyAssumption DEF CountWrite, At, Constructed, Tied
  <1>1. Number(Append(guards[t], "write"), "write") = Number(guards[t], "write") + 1
    BY <1>0, NumberAppend DEF Modes
  <1>2. Number(Append(guards[t], "write"), "read") = Number(guards[t], "read")
    BY <1>0, NumberOfOther DEF Modes
  <1>3. HeldNow' = [HeldNow EXCEPT ![t].write = HeldNow[t].write + 1]
    <2>1. HeldNow' = [HeldNow EXCEPT ![t].write = Number(Append(guards[t], "write"), "write")]
      BY <1>0, <1>2, WriteCounted
    <2>2. Number(Append(guards[t], "write"), "write") = HeldNow[t].write + 1
      BY <1>1, HeldFacts
    <2> QED BY <2>1, <2>2
  <1>4. \A u \in Threads \ {t} : HeldNow[u].read = 0 /\ HeldNow[u].write = 0
    <2>1. \A u \in Threads \ {t} : guards[u] = <<>>
      BY <1>0, Facts DEF Tied
    <2> QED BY <2>1, NoGuardsFree
  <1>5. HeldNow[t].write > 0 \/ (HeldNow[t].read = 0 /\ HeldNow[t].write = 0)
    BY <1>0, NoGuardsFree, HeldFacts
  <1> QED BY <1>3, <1>4, <1>5 DEF Abstract!AcquireWrite, Abstract!Free, HeldNow

LEMMA AppendReadRefines ==
    ASSUME NEW t \in Threads, guards \in [Threads -> Seq(Modes)],
           guards' = [guards EXCEPT ![t] = Append(guards[t], "read")],
           \A u \in Threads \ {t} : Number(guards[u], "write") = 0
    PROVE  Abstract!AcquireRead(t)
  <1>0. guards[t] \in Seq(Modes) /\ "read" # "write"
    OBVIOUS
  <1>1. Number(Append(guards[t], "read"), "read") = Number(guards[t], "read") + 1
    BY <1>0, NumberAppend DEF Modes
  <1>2. Number(Append(guards[t], "read"), "write") = Number(guards[t], "write")
    BY <1>0, NumberOfOther DEF Modes
  <1>3. HeldNow' = [HeldNow EXCEPT ![t].read = HeldNow[t].read + 1]
    <2>1. HeldNow' = [HeldNow EXCEPT ![t].read = Number(Append(guards[t], "read"), "read")]
      BY <1>0, <1>2, ReadCounted
    <2>2. Number(Append(guards[t], "read"), "read") = HeldNow[t].read + 1
      BY <1>1, HeldFacts
    <2> QED BY <2>1, <2>2
  <1>4. \A u \in Threads \ {t} : HeldNow[u].write = 0
    BY HeldFacts
  <1> QED BY <1>3, <1>4 DEF Abstract!AcquireRead, HeldNow

LEMMA AddReaderRefines ==
    ASSUME IInv, NEW t \in Threads, AddReader(t)
    PROVE  Abstract!AcquireRead(t)
  <1>1. /\ pc[t] = "addReader" /\ guards' = [guards EXCEPT ![t] = Append(guards[t], "read")]
        /\ guards \in [Threads -> Seq(Modes)] /\ flag.writer = t
    BY Facts DEF AddReader, At, Constructed, Tied
  <1>2. \A u \in Threads \ {t} : Number(guards[u], "write") = 0
    BY <1>1, Facts DEF Tied
  <1> QED BY <1>1, <1>2, AppendReadRefines

LEMMA CasReadRefines ==
    ASSUME IInv, NEW t \in Threads, CasRead(t)
    PROVE  Abstract!AcquireRead(t)
  <1>1. /\ guards' = [guards EXCEPT ![t] = Append(guards[t], "read")]
        /\ guards \in [Threads -> Seq(Modes)] /\ flag.writer = Nobody
    BY Facts DEF CasRead, Constructed
  <1>2. \A u \in Threads \ {t} : Number(guards[u], "write") = 0
    BY <1>1, Facts, NobodyAssumption DEF Tied
  <1> QED BY <1>1, <1>2, AppendReadRefines

LEMMA DestroyedWriteRefines ==
    ASSUME IInv, NEW t \in Threads, EndsIn(guards[t], "write"), flag.readers = 0, Destroyed(t)
    PROVE  Abstract!ReleaseWrite(t)
  <1> DEFINE front == SubSeq(guards[t], 1, Len(guards[t]) - 1)
  <1>0. guards' = [guards EXCEPT ![t] = front] /\ guards \in [Threads -> Seq(Modes)]
    BY Facts DEF Destroyed
  <1>1. Number(guards[t], "write") = Number(front, "write") + 1
        /\ Number(front, "write") \in Nat
    BY LeavingWrite
  <1>2. Number(front, "read") = Number(guards[t], "read")
    BY LeavingWrite
  <1> HIDE DEF front
  <1>3. HeldNow' = [HeldNow EXCEPT ![t].write = HeldNow[t].write - 1]
    <2>1. HeldNow' = [HeldNow EXCEPT ![t].write = Number(front, "write")]
      BY <1>0, <1>2, WriteCounted
    <2>2. Number(front, "write") = HeldNow[t].write - 1
      BY <1>1, HeldFacts
    <2> QED BY <2>1, <2>2
  <1>4. HeldNow[t].write > 0
    BY <1>1, HeldFacts
  <1>5. HeldNow[t].read = 0
    BY Facts, NoReads, HeldFacts
  <1> QED BY <1>3, <1>4, <1>5 DEF Abstract!ReleaseWrite, HeldNow

LEMMA ReadUnlockRefines ==
    ASSUME IInv, NEW t \in Threads, ReadUnlock(t), flag.readers # 0
    PROVE  Abstract!ReleaseRead(t)
  <1> DEFINE front == SubSeq(guards[t], 1, Len(guards[t]) - 1)
  <1>0. guards' = [guards EXCEPT ![t] = front] /\ guards \in [Threads -> Seq(Modes)]
        /\ EndsIn(guards[t], "read")
    BY Facts DEF Destroyed, ReadUnlock, Innermost, EndsIn
  <1>1. Number(guards[t], "read") = Number(front, "read") + 1
        /\ Number(front, "read") \in Nat
    BY <1>0, LeavingRead
  <1>2. Number(front, "write") = Number(guards[t], "write")
    BY <1>0, LeavingRead
  <1> HIDE DEF front
  <1>3. HeldNow' = [HeldNow EXCEPT ![t].read = HeldNow[t].read - 1]
    <2>1. HeldNow' = [HeldNow EXCEPT ![t].read = Number(front, "read")]
      BY <1>0, <1>2, ReadCounted
    <2>2. Number(front, "read") = HeldNow[t].read - 1
      BY <1>1, HeldFacts
    <2> QED BY <2>1, <2>2
  <1>4. HeldNow[t].read > 0
    BY <1>1, HeldFacts
  <1> QED BY <1>3, <1>4 DEF Abstract!ReleaseRead, HeldNow

LEMMA InitRefines == Init => Abstract!Init
  <1> SUFFICES ASSUME Init PROVE Abstract!Init
    OBVIOUS
  <1>1. \A t \in Threads : guards[t] = <<>>
    BY DEF Init
  <1>2. \A t \in Threads : HeldNow[t].read = 0 /\ HeldNow[t].write = 0
    BY <1>1, NoGuardsFree
  <1>3. HeldNow = [t \in Threads |-> [read |-> 0, write |-> 0]]
    BY <1>2 DEF HeldNow
  <1> QED BY <1>3 DEF Abstract!Init, HeldNow

(* A read guard that is left is always counted. *)
LEMMA LeftIsCounted ==
    ASSUME IInv, NEW t \in Threads, ReadUnlock(t)
    PROVE  flag.readers # 0
  <1>1. EndsIn(guards[t], "read")
    BY DEF ReadUnlock, Innermost, EndsIn
  <1>2. PICK r \in Nat :
            r = Total([guards EXCEPT ![t] = SubSeq(guards[t], 1, Len(guards[t]) - 1)])
            /\ Total(guards) = r + 1
    BY <1>1, LeavingRead
  <1>3. r + 1 # 0
    OBVIOUS
  <1> QED BY <1>2, <1>3, Facts

LEMMA StepRefines == IInv /\ [Next]_vars => [Abstract!Next]_HeldNow
  <1> SUFFICES ASSUME IInv, [Next]_vars PROVE [Abstract!Next]_HeldNow
    OBVIOUS
  <1>1. ASSUME UNCHANGED guards PROVE UNCHANGED HeldNow
    BY <1>1, HeldAfter, HeldIsOfGuards
  <1>2. CASE UNCHANGED vars
    BY <1>1, <1>2 DEF vars
  <1>3. ASSUME NEW t \in Threads, WriteLock(t) \/ ReadLock(t) \/ Timeout(t) \/ WriteUnlock(t)
        PROVE  UNCHANGED HeldNow
    BY <1>1, <1>3 DEF WriteLock, ReadLock, Timeout, WriteUnlock
  <1>4. ASSUME NEW t \in Threads, CasWrite(t) \/ Sample(t) \/ CasReadFails(t)
        PROVE  UNCHANGED HeldNow
    BY <1>1, <1>4 DEF CasWrite, Sample, CasReadFails
  <1>5. ASSUME NEW t \in Threads, Uncount(t)
        PROVE  Abstract!ReleaseWrite(t) \/ UNCHANGED HeldNow
    <2>1. EndsIn(guards[t], "write") /\ flag.readers = 0
      BY <1>5, Facts DEF Uncount, At, Tied
    <2>2. Destroyed(t) \/ UNCHANGED guards
      BY <1>5 DEF Uncount
    <2> QED BY <1>1, <2>1, <2>2, DestroyedWriteRefines
  <1>6. ASSUME NEW t \in Threads, Store(t)
        PROVE  Abstract!ReleaseWrite(t)
    <2>1. EndsIn(guards[t], "write") /\ flag.readers = 0 /\ Destroyed(t)
      BY <1>6, Facts DEF Store, At, Tied
    <2> QED BY <2>1, DestroyedWriteRefines
  <1>7. ASSUME NEW t \in Threads, ReadUnlock(t)
        PROVE  Abstract!ReleaseRead(t)
    BY <1>7, LeftIsCounted, ReadUnlockRefines
  <1>8. ASSUME NEW t \in Threads, CountWrite(t) PROVE Abstract!AcquireWrite(t)
    BY <1>8, CountWriteRefines
  <1>9. ASSUME NEW t \in Threads, AddReader(t) \/ CasRead(t) PROVE Abstract!AcquireRead(t)
    BY <1>9, AddReaderRefines, CasReadRefines
  <1>10. ASSUME NEW t \in Threads,
                Abstract!AcquireWrite(t) \/ Abstract!AcquireRead(t)
                \/ Abstract!ReleaseWrite(t) \/ Abstract!ReleaseRead(t)
         PROVE  Abstract!Next
    BY <1>10 DEF Abstract!Next
  <1> QED BY <1>2, <1>3, <1>4, <1>5, <1>6, <1>7, <1>8, <1>9, <1>10
          DEF Next, LockStep, Unlock

------------------------------------------------------------------------------
(* Every variable keeps its type; the read half of the word never drops below
   0. *)
THEOREM Typing == Spec => []TypeOK
  <1>1. IInv => TypeOK
    BY DEF IInv
  <1> QED BY <1>1, IInvHolds, PTL

(* No two threads are in scopes of the lock if one of them is a write scope. *)
THEOREM OneWriter == Spec => []MutualExclusion
  <1>1. IInv => MutualExclusion
    <2> SUFFICES ASSUME IInv, NEW t \in Threads, NEW u \in Threads, Holds(t, "write"), t # u
                 PROVE  guards[u] = <<>>
      BY DEF MutualExclusion
    <2>1. Number(guards[t], "write") # 0
      <3>1. Positions(guards[t], "write") # {}
        BY DEF Holds, GuardsOf, Positions
      <3> QED BY <3>1, Facts, Counting
    <2>2. flag.writer = t /\ t # Nobody
      BY <2>1, Facts, NobodyAssumption DEF Tied
    <2> QED BY <2>2, Facts DEF Tied
  <1> QED BY <1>1, IInvHolds, PTL

(* The read half of the word counts the read guards of all threads, and
   _writeCount the write guards of the thread that the write half names. *)
THEOREM ExactCounters == Spec => []CountersExact
  <1>1. IInv => CountersExact
    <2> SUFFICES ASSUME IInv PROVE CountersExact
      OBVIOUS
    <2>1. flag.readers = Cardinality(ReadGuards)
      BY DEF IInv, Total, Reads, ReadGuards
    <2>2. \A t \in Threads : Number(guards[t], "write") = Cardinality(GuardsOf(t, "write"))
      BY DEF Number, Positions, GuardsOf
    <2>3. ASSUME NEW t \in Threads
          PROVE  /\ pc[t] \in {"countWrite", "uncount", "store"} => flag.writer = t
                 /\ flag.writer = t =>
                       writeCount = Number(guards[t], "write")
                                    - IF pc[t] = "store" THEN 1 ELSE 0
      BY Facts DEF Tied
    <2> QED BY <2>1, <2>2, <2>3 DEF CountersExact
  <1> QED BY <1>1, IInvHolds, PTL

(* MULTIPLE_UNLOCK never comes, and INVALID_UNLOCK_ORDER only where a write
   scope was opened inside a read scope. *)
THEOREM CrashesJustified == Spec => []CrashJustified
  <1>1. IInv => CrashJustified
    BY DEF IInv
  <1> QED BY <1>1, IInvHolds, PTL

(* With its several steps the spin lock implements the reader-writer lock:
   each step takes or leaves a guard as RWLock allows, or changes none. *)
THEOREM Refinement == Spec => ImplementsRWLock
  <1>1. Spec => Abstract!Init /\ [][Abstract!Next]_HeldNow
    BY InitRefines, StepRefines, IInvHolds, PTL DEF Spec
  <1> QED BY <1>1, PTL DEF ImplementsRWLock, Abstract!Spec, HeldNow
==============================================================================
