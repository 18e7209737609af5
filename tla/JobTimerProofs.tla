--------------------------- MODULE JobTimerProofs ---------------------------
(***************************************************************************)
(* Proofs about the job timer, for any workers, jobs and queues and any    *)
(* last tick.  Types and Apart say what TypeOK says, in the form a step    *)
(* preserves part by part.  OneDistributes is why a batch has the heap to  *)
(* itself: only one worker is inside Distribute, and the jobs it took out  *)
(* are pushed before the next worker gets in.  InOrder carries the order   *)
(* of the deadlines from the heap over the batch to the pushes: it relates *)
(* the pushed jobs to those of a batch, and both to those in the heap.     *)
(***************************************************************************)
EXTENDS JobTimer, FiniteSetTheorems, TLAPS

Batched(b) == UNION {Range(b[w]) : w \in Workers}

Types ==
    /\ now \in 0 .. MaxTick /\ held \subseteq Owners /\ distributing \in BOOLEAN
    /\ executeTick \in [Jobs -> 0 .. MaxTick] /\ before \in [Jobs -> SUBSET Jobs]
    /\ pc \in [Workers -> {"idle", "enter", "collect", "push"}]
    /\ sampled \in [Workers -> 0 .. MaxTick]
    /\ batch \in [Workers -> Seq(Jobs)]
    /\ pushed \in Seq(Jobs)

OnceEach(b) ==
    /\ \A w \in Workers : IsInjective(b[w])
    /\ \A v, w \in Workers : v # w => Range(b[v]) \cap Range(b[w]) = {}

Apart(r, i, b, p, l, c) ==
    /\ r \subseteq Jobs /\ i \subseteq Jobs /\ b \subseteq Jobs
    /\ p \subseteq Jobs /\ l \subseteq Jobs /\ c \subseteq Jobs
    /\ \A j \in r : j \notin i /\ j \notin b /\ j \notin p /\ j \notin l /\ j \notin c
    /\ \A j \in i : j \notin b /\ j \notin p /\ j \notin l /\ j \notin c
    /\ \A j \in b : j \notin p /\ j \notin l /\ j \notin c
    /\ \A j \in p : j \notin l /\ j \notin c
    /\ \A j \in l : j \notin c

Placed ==
    /\ OnceEach(batch) /\ IsInjective(pushed)
    /\ Apart(reserving, items, Batched(batch), Range(pushed), lost, cleared)

Busy(w) == pc[w] \in {"collect", "push"}

OneDistributes ==
    /\ \A w \in Workers : Busy(w) => distributing
    /\ \A v, w \in Workers : Busy(v) /\ Busy(w) => v = w
    /\ \A w \in Workers : batch[w] # <<>> => pc[w] = "push"

(* p may be pushed before j. *)
Earlier(p, j) == executeTick[p] <= executeTick[j] \/ p \in before[j]

InOrder ==
    /\ \A w \in Workers : \A i, k \in DOMAIN batch[w] :
          i < k => executeTick[batch[w][i]] <= executeTick[batch[w][k]]
    /\ \A p \in Range(pushed), j \in Batched(batch) : Earlier(p, j)
    /\ \A p \in Range(pushed) \cup Batched(batch), j \in items : Earlier(p, j)
    /\ \A i, k \in DOMAIN pushed : i < k => Earlier(pushed[i], pushed[k])

Inv == Types /\ Placed /\ OneDistributes /\ InOrder
------------------------------------------------------------------------------
(* Sequences *)

LEMMA TailOfOnce ==
    ASSUME NEW s \in Seq(Jobs), s # <<>>, IsInjective(s)
    PROVE  /\ Tail(s) \in Seq(Jobs) /\ IsInjective(Tail(s))
           /\ Head(s) \in Range(s) /\ Head(s) \in Jobs
           /\ Range(Tail(s)) = Range(s) \ {Head(s)}
<1>1. Len(s) \in Nat /\ Len(s) >= 1 /\ DOMAIN s = 1 .. Len(s)
  OBVIOUS
<1>2. /\ Tail(s) \in Seq(Jobs) /\ DOMAIN Tail(s) = 1 .. Len(s) - 1
      /\ \A i \in 1 .. Len(s) - 1 : Tail(s)[i] = s[i + 1]
  BY <1>1
<1>3. Head(s) = s[1] /\ 1 \in DOMAIN s
  BY <1>1
<1>4. IsInjective(Tail(s))
  <2> SUFFICES ASSUME NEW a \in DOMAIN Tail(s), NEW b \in DOMAIN Tail(s),
                      Tail(s)[a] = Tail(s)[b]
               PROVE  a = b
    BY DEF IsInjective
  <2>1. a + 1 \in DOMAIN s /\ b + 1 \in DOMAIN s /\ s[a + 1] = s[b + 1]
    BY <1>1, <1>2
  <2>2. a + 1 = b + 1
    BY <2>1 DEF IsInjective
  <2> QED
    BY <1>2, <2>2
<1>5. Range(Tail(s)) \subseteq Range(s) \ {Head(s)}
  <2> SUFFICES ASSUME NEW a \in DOMAIN Tail(s)
               PROVE  Tail(s)[a] \in Range(s) \ {Head(s)}
    BY DEF Range
  <2>1. a + 1 \in DOMAIN s /\ a + 1 # 1 /\ Tail(s)[a] = s[a + 1]
    BY <1>1, <1>2
  <2>2. s[a + 1] # s[1]
    BY <2>1, <1>3 DEF IsInjective
  <2> QED
    BY <2>1, <2>2, <1>3 DEF Range
<1>6. Range(s) \ {Head(s)} \subseteq Range(Tail(s))
  <2> SUFFICES ASSUME NEW a \in DOMAIN s, s[a] # Head(s)
               PROVE  s[a] \in Range(Tail(s))
    BY DEF Range
  <2>1. a # 1 /\ a \in 1 .. Len(s)
    BY <1>3, <1>1
  <2>2. a - 1 \in 1 .. Len(s) - 1 /\ (a - 1) + 1 = a
    BY <2>1, <1>1
  <2>3. a - 1 \in DOMAIN Tail(s) /\ Tail(s)[a - 1] = s[a]
    BY <2>2, <1>2
  <2> QED
    BY <2>3 DEF Range
<1>7. Head(s) \in Range(s) /\ Head(s) \in Jobs
  BY <1>1, <1>3 DEF Range
<1> QED
  BY <1>2, <1>4, <1>5, <1>6, <1>7

LEMMA AppendOnce ==
    ASSUME NEW s \in Seq(Jobs), IsInjective(s), NEW j \in Jobs, j \notin Range(s)
    PROVE  /\ Append(s, j) \in Seq(Jobs) /\ IsInjective(Append(s, j))
           /\ Range(Append(s, j)) = Range(s) \cup {j}
<1>1. Len(s) \in Nat /\ DOMAIN s = 1 .. Len(s)
  OBVIOUS
<1>2. /\ Append(s, j) \in Seq(Jobs) /\ DOMAIN Append(s, j) = 1 .. Len(s) + 1
      /\ \A i \in 1 .. Len(s) : Append(s, j)[i] = s[i]
      /\ Append(s, j)[Len(s) + 1] = j
  BY <1>1
<1>3. IsInjective(Append(s, j))
  <2> SUFFICES ASSUME NEW a \in 1 .. Len(s) + 1, NEW b \in 1 .. Len(s) + 1,
                      Append(s, j)[a] = Append(s, j)[b]
               PROVE  a = b
    BY <1>2 DEF IsInjective
  <2>1. \A i \in 1 .. Len(s) : s[i] # j
    BY <1>1 DEF Range
  <2>2. CASE a \in 1 .. Len(s) /\ b \in 1 .. Len(s)
    BY <2>2, <1>1, <1>2 DEF IsInjective
  <2>3. CASE a = Len(s) + 1 \/ b = Len(s) + 1
    BY <2>1, <2>3, <1>1, <1>2
  <2> QED
    BY <2>2, <2>3, <1>1
<1>4. Range(Append(s, j)) \subseteq Range(s) \cup {j}
  <2> SUFFICES ASSUME NEW a \in 1 .. Len(s) + 1
               PROVE  Append(s, j)[a] \in Range(s) \cup {j}
    BY <1>2 DEF Range
  <2>1. CASE a \in 1 .. Len(s)
    BY <2>1, <1>1, <1>2 DEF Range
  <2>2. CASE a = Len(s) + 1
    BY <2>2, <1>2
  <2> QED
    BY <2>1, <2>2, <1>1
<1>5. Range(s) \cup {j} \subseteq Range(Append(s, j))
  <2>1. \A i \in 1 .. Len(s) + 1 : Append(s, j)[i] \in Range(Append(s, j))
    BY <1>2 DEF Range
  <2>2. Len(s) + 1 \in 1 .. Len(s) + 1 /\ \A i \in 1 .. Len(s) : i \in 1 .. Len(s) + 1
    BY <1>1
  <2> QED
    BY <2>1, <2>2, <1>1, <1>2 DEF Range
<1> QED
  BY <1>2, <1>3, <1>4, <1>5

(* What the heap gives up are the due jobs, each once, by their deadlines. *)
LEMMA HeapOrder ==
    ASSUME NEW S \in SUBSET Jobs, NEW s \in HeapOrders(S)
    PROVE  /\ s \in Seq(S) /\ s \in Seq(Jobs) /\ IsInjective(s) /\ Range(s) \subseteq S
           /\ \A i, k \in DOMAIN s : i < k => executeTick[s[i]] <= executeTick[s[k]]
<1>1. IsFiniteSet(S)
  BY JobsAssumption, FS_Subset
<1>2. Cardinality(S) \in Nat
  BY <1>1, FS_CardinalityType
<1>3. /\ s \in [1 .. Cardinality(S) -> S]
      /\ \A i, j \in 1 .. Cardinality(S) : i # j => s[i] # s[j]
      /\ \A i, k \in DOMAIN s : i < k => executeTick[s[i]] <= executeTick[s[k]]
  BY DEF HeapOrders, SetToSeqs
<1>4. s \in Seq(S) /\ s \in Seq(Jobs)
  BY <1>2, <1>3
<1> QED
  BY <1>3, <1>4 DEF IsInjective, Range
------------------------------------------------------------------------------
(* Batches *)

LEMMA BatchStarts ==
    ASSUME NEW b \in [Workers -> Seq(Jobs)], OnceEach(b), NEW w \in Workers, b[w] = <<>>,
           NEW s \in Seq(Jobs), IsInjective(s), Range(s) \cap Batched(b) = {},
           NEW c, c = [b EXCEPT ![w] = s]
    PROVE  /\ OnceEach(c)
           /\ Batched(c) = Batched(b) \cup Range(s)
<1>1. c[w] = s /\ \A v \in Workers : v # w => c[v] = b[v]
  OBVIOUS
<1>2. Range(b[w]) = {}
  BY DEF Range
<1>3. Batched(c) = Batched(b) \cup Range(s)
  BY <1>1, <1>2 DEF Batched
<1>4. \A v \in Workers : Range(b[v]) \cap Range(s) = {}
  BY DEF Batched
<1> QED
  BY <1>1, <1>3, <1>4 DEF OnceEach

LEMMA BatchShrinks ==
    ASSUME NEW b \in [Workers -> Seq(Jobs)], OnceEach(b), NEW w \in Workers, b[w] # <<>>,
           NEW c, c = [b EXCEPT ![w] = Tail(@)]
    PROVE  /\ c \in [Workers -> Seq(Jobs)] /\ OnceEach(c)
           /\ Head(b[w]) \in Batched(b) /\ Head(b[w]) \in Jobs
           /\ Batched(c) = Batched(b) \ {Head(b[w])}
<1>1. c[w] = Tail(b[w]) /\ \A v \in Workers : v # w => c[v] = b[v]
  OBVIOUS
<1>2. /\ Tail(b[w]) \in Seq(Jobs) /\ IsInjective(Tail(b[w]))
      /\ Head(b[w]) \in Range(b[w]) /\ Head(b[w]) \in Jobs
      /\ Range(Tail(b[w])) = Range(b[w]) \ {Head(b[w])}
  BY TailOfOnce DEF OnceEach
<1>3. c \in [Workers -> Seq(Jobs)]
  BY <1>2
<1>4. OnceEach(c)
  BY <1>1, <1>2 DEF OnceEach
<1>5. \A v \in Workers : v # w => Head(b[w]) \notin Range(b[v])
  BY <1>2 DEF OnceEach
<1>6. Batched(c) = Batched(b) \ {Head(b[w])}
  BY <1>1, <1>2, <1>5 DEF Batched
<1> QED
  BY <1>2, <1>3, <1>4, <1>6 DEF Batched
------------------------------------------------------------------------------
(* TypeOK says of the six places what Apart says. *)
LEMMA PlacesApart ==
    ASSUME NEW r, NEW i, NEW b, NEW p, NEW l, NEW c
    PROVE  Apart(r, i, b, p, l, c) <=>
             LET places == <<r, i, b, p, l, c>> IN
               /\ \A x \in DOMAIN places : places[x] \subseteq Jobs
               /\ \A x, y \in DOMAIN places : x # y => places[x] \cap places[y] = {}
<1> DEFINE places == <<r, i, b, p, l, c>>
<1>1. /\ DOMAIN places = {1, 2, 3, 4, 5, 6}
      /\ places[1] = r /\ places[2] = i /\ places[3] = b
      /\ places[4] = p /\ places[5] = l /\ places[6] = c
  OBVIOUS
<1> HIDE DEF places
<1>2. ASSUME Apart(r, i, b, p, l, c)
      PROVE  /\ \A x \in DOMAIN places : places[x] \subseteq Jobs
             /\ \A x, y \in DOMAIN places : x # y => places[x] \cap places[y] = {}
  <2>1. \A x \in DOMAIN places : places[x] \subseteq Jobs
    BY <1>1, <1>2 DEF Apart
  <2> SUFFICES ASSUME NEW x \in {1, 2, 3, 4, 5, 6}, NEW y \in {1, 2, 3, 4, 5, 6}, x # y,
                      NEW j, j \in places[x], j \in places[y]
               PROVE  FALSE
    BY <1>1, <2>1
  <2> QED
    BY <1>1, <1>2 DEF Apart
<1>3. ASSUME \A x \in DOMAIN places : places[x] \subseteq Jobs,
             \A x, y \in DOMAIN places : x # y => places[x] \cap places[y] = {}
      PROVE  Apart(r, i, b, p, l, c)
  <2>1. \A x \in {1, 2, 3, 4, 5, 6} : places[x] \subseteq Jobs
    BY <1>1, <1>3
  <2>2. \A x, y \in {1, 2, 3, 4, 5, 6} : x # y => places[x] \cap places[y] = {}
    BY <1>1, <1>3
  <2>3. \A x, y \in {1, 2, 3, 4, 5, 6} : \A j : x # y /\ j \in places[x] => j \notin places[y]
    BY <2>2
  <2>4. /\ \A j \in r : j \notin i /\ j \notin b /\ j \notin p /\ j \notin l /\ j \notin c
        /\ \A j \in i : j \notin b /\ j \notin p /\ j \notin l /\ j \notin c
    BY <1>1, <2>3
  <2>5. /\ \A j \in b : j \notin p /\ j \notin l /\ j \notin c
        /\ \A j \in p : j \notin l /\ j \notin c
        /\ \A j \in l : j \notin c
    BY <1>1, <2>3
  <2> QED
    BY <1>1, <2>1, <2>4, <2>5 DEF Apart
<1> QED
  BY <1>2, <1>3 DEF places

LEMMA TypeOKParts == TypeOK <=> Types /\ Placed
<1>1. InBatches = Batched(batch)
  BY DEF InBatches, Batched
<1> DEFINE places == <<reserving, items, InBatches, Range(pushed), lost, cleared>>
           Six == /\ \A x \in DOMAIN places : places[x] \subseteq Jobs
                  /\ \A x, y \in DOMAIN places : x # y => places[x] \cap places[y] = {}
<1>2. Apart(reserving, items, InBatches, Range(pushed), lost, cleared) <=> Six
  BY PlacesApart
<1>3. TypeOK <=> /\ Types
                 /\ \A w \in Workers : IsInjective(batch[w])
                 /\ \A v, w \in Workers : v # w => Range(batch[v]) \cap Range(batch[w]) = {}
                 /\ IsInjective(pushed)
                 /\ Six
  BY DEF TypeOK, Types
<1> HIDE DEF Six
<1> QED
  BY <1>1, <1>2, <1>3 DEF Placed, OnceEach

LEMMA PushedOrdered == Inv => PushedInOrder
BY DEF Inv, InOrder, PushedInOrder, Earlier
------------------------------------------------------------------------------
(* The steps *)

LEMMA InitInv == Init => Inv
<1> SUFFICES ASSUME Init PROVE Inv
  OBVIOUS
<1>1. Types
  <2>1. 0 \in 0 .. MaxTick /\ <<>> \in Seq(Jobs)
    BY TickAssumption
  <2> QED
    BY <2>1 DEF Init, Types
<1>2. \A w \in Workers : batch[w] = <<>> /\ Range(batch[w]) = {}
  BY DEF Init, Range
<1>3. Batched(batch) = {} /\ Range(pushed) = {}
  BY <1>2 DEF Batched, Init, Range
<1>4. Placed
  BY <1>2, <1>3 DEF Placed, OnceEach, Apart, IsInjective, Init
<1>5. OneDistributes
  BY <1>2 DEF OneDistributes, Busy, Init
<1>6. InOrder
  BY <1>2, <1>3 DEF InOrder, Init
<1> QED
  BY <1>1, <1>4, <1>5, <1>6 DEF Inv

LEMMA TickKeeps == Inv /\ Tick => Inv'
<1> SUFFICES ASSUME Inv, Tick PROVE Inv'
  OBVIOUS
<1>1. Types'
  BY TickAssumption DEF Inv, Types, Tick
<1>2. Placed' /\ OneDistributes'
  BY DEF Inv, Placed, OneDistributes, Busy, Tick
<1>3. InOrder'
  BY DEF Inv, InOrder, Earlier, Tick
<1> QED
  BY <1>1, <1>2, <1>3 DEF Inv

LEMMA ReleaseKeeps == ASSUME Inv, NEW q \in Owners, Release(q) PROVE Inv'
<1>1. Types'
  BY DEF Inv, Types, Release
<1>2. Placed' /\ OneDistributes'
  BY DEF Inv, Placed, OneDistributes, Busy, Release
<1>3. InOrder'
  BY DEF Inv, InOrder, Earlier, Release
<1> QED
  BY <1>1, <1>2, <1>3 DEF Inv

LEMMA DoTimerKeeps ==
    ASSUME Inv, NEW j \in Jobs, NEW tickAfter \in 0 .. MaxTick, DoTimer(j, tickAfter)
    PROVE  Inv'
<1>1. /\ j \notin reserving /\ j \notin items /\ j \notin Batched(batch)
      /\ j \notin Range(pushed) /\ j \notin lost /\ j \notin cleared
  BY DEF DoTimer, Fresh, Taken, InBatches, Batched
<1>2. Types'
  BY TickAssumption DEF Inv, Types, DoTimer
<1>3. Placed'
  BY <1>1 DEF Inv, Placed, Apart, DoTimer
<1>4. OneDistributes'
  BY DEF Inv, OneDistributes, Busy, DoTimer
<1>5. \A p \in Jobs : p # j => executeTick'[p] = executeTick[p]
  BY DEF Inv, Types, DoTimer
<1>6. \A w \in Workers : \A i \in DOMAIN batch[w] : batch[w][i] \in Batched(batch)
  BY DEF Batched, Range
<1>7. \A i \in DOMAIN pushed : pushed[i] \in Range(pushed)
  BY DEF Range
<1>8. Batched(batch) \subseteq Jobs /\ Range(pushed) \subseteq Jobs /\ items \subseteq Jobs
  BY DEF Inv, Placed, Apart
<1>9. \A p, i \in Range(pushed) \cup Batched(batch) \cup items : Earlier(p, i) => Earlier(p, i)'
  BY <1>1, <1>5, <1>8 DEF Earlier, DoTimer
<1>10. UNCHANGED <<batch, pushed, items>>
  BY DEF DoTimer
<1>11. (\A w \in Workers : \A i, k \in DOMAIN batch[w] :
          i < k => executeTick[batch[w][i]] <= executeTick[batch[w][k]])'
  BY <1>1, <1>5, <1>6, <1>8, <1>10 DEF Inv, InOrder
<1>12. (\A p \in Range(pushed), i \in Batched(batch) : Earlier(p, i))'
  BY <1>9, <1>10 DEF Inv, InOrder
<1>13. (\A p \in Range(pushed) \cup Batched(batch), i \in items : Earlier(p, i))'
  BY <1>9, <1>10 DEF Inv, InOrder
<1>14. (\A i, k \in DOMAIN pushed : i < k => Earlier(pushed[i], pushed[k]))'
  BY <1>7, <1>9, <1>10 DEF Inv, InOrder
<1>15. InOrder'
  BY <1>11, <1>12, <1>13, <1>14 DEF InOrder
<1> QED
  BY <1>2, <1>3, <1>4, <1>15 DEF Inv

(* A job that comes into the heap late is excused by what was taken before. *)
LEMMA ReserveKeeps == ASSUME Inv, NEW j \in Jobs, Reserve(j) PROVE Inv'
<1>1. Taken = Batched(batch) \cup Range(pushed) \cup lost \cup cleared /\ Taken \subseteq Jobs
  BY DEF Inv, Placed, Apart, Taken, InBatches, Batched
<1>2. Types'
  BY <1>1 DEF Inv, Types, Reserve
<1>3. Placed'
  BY DEF Inv, Placed, Apart, Reserve
<1>4. OneDistributes'
  BY DEF Inv, OneDistributes, Busy, Reserve
<1>5. /\ before'[j] = Taken /\ \A p \in Jobs : p # j => before'[p] = before[p]
      /\ items' = items \cup {j}
      /\ UNCHANGED <<executeTick, batch, pushed>>
  BY DEF Inv, Types, Reserve
<1>6. \A p, i \in Jobs : Earlier(p, i) /\ i # j => Earlier(p, i)'
  BY <1>5 DEF Earlier
<1>7. \A p \in Range(pushed) \cup Batched(batch) : Earlier(p, j)'
  BY <1>1, <1>5 DEF Earlier
<1>8. /\ Batched(batch) \subseteq Jobs /\ Range(pushed) \subseteq Jobs /\ items \subseteq Jobs
      /\ j \notin Batched(batch) /\ j \notin Range(pushed)
  BY DEF Inv, Placed, Apart, Reserve
<1>9. \A i \in DOMAIN pushed : pushed[i] \in Range(pushed)
  BY DEF Range
<1>10. (\A w \in Workers : \A i, k \in DOMAIN batch[w] :
          i < k => executeTick[batch[w][i]] <= executeTick[batch[w][k]])'
  BY <1>5 DEF Inv, InOrder
<1>11. (\A p \in Range(pushed), i \in Batched(batch) : Earlier(p, i))'
  BY <1>5, <1>6, <1>8 DEF Inv, InOrder
<1>12. (\A p \in Range(pushed) \cup Batched(batch), i \in items : Earlier(p, i))'
  BY <1>5, <1>6, <1>7, <1>8 DEF Inv, InOrder
<1>13. (\A i, k \in DOMAIN pushed : i < k => Earlier(pushed[i], pushed[k]))'
  BY <1>5, <1>6, <1>8, <1>9 DEF Inv, InOrder
<1>14. InOrder'
  BY <1>10, <1>11, <1>12, <1>13 DEF InOrder
<1> QED
  BY <1>2, <1>3, <1>4, <1>14 DEF Inv

LEMMA DistributeReservedJobsKeeps ==
    ASSUME Inv, NEW w \in Workers, DistributeReservedJobs(w) PROVE Inv'
<1>1. Types'
  BY DEF Inv, Types, DistributeReservedJobs
<1>2. Placed'
  BY DEF Inv, Placed, DistributeReservedJobs
<1>3. OneDistributes'
  BY DEF Inv, Types, OneDistributes, Busy, DistributeReservedJobs
<1>4. InOrder'
  BY DEF Inv, InOrder, Earlier, DistributeReservedJobs
<1> QED
  BY <1>1, <1>2, <1>3, <1>4 DEF Inv

(* The exchange lets a worker in only when no other is inside. *)
LEMMA EnterKeeps == ASSUME Inv, NEW w \in Workers, Enter(w) PROVE Inv'
<1>1. Types'
  BY DEF Inv, Types, Enter
<1>2. Placed'
  BY DEF Inv, Placed, Enter
<1>3. OneDistributes'
  BY DEF Inv, Types, OneDistributes, Busy, Enter
<1>4. InOrder'
  BY DEF Inv, InOrder, Earlier, Enter
<1> QED
  BY <1>1, <1>2, <1>3, <1>4 DEF Inv

LEMMA CollectKeeps == ASSUME Inv, NEW w \in Workers, Collect(w) PROVE Inv'
<1> DEFINE due == Due(sampled[w])
<1>1. due \subseteq items /\ due \subseteq Jobs /\ items \subseteq Jobs
  BY DEF Inv, Placed, Apart, Due
<1>2. PICK s \in HeapOrders(due) : batch' = [batch EXCEPT ![w] = s]
  BY DEF Collect
<1>3. /\ s \in Seq(Jobs) /\ IsInjective(s) /\ Range(s) \subseteq due
      /\ \A i, k \in DOMAIN s : i < k => executeTick[s[i]] <= executeTick[s[k]]
  BY <1>1, <1>2, HeapOrder
<1>4. /\ batch \in [Workers -> Seq(Jobs)] /\ OnceEach(batch) /\ batch[w] = <<>>
      /\ items \cap Batched(batch) = {}
  BY DEF Inv, Types, Placed, Apart, OneDistributes, Collect
<1>5. Range(s) \cap Batched(batch) = {}
  BY <1>1, <1>3, <1>4
<1>6. OnceEach(batch') /\ Batched(batch') = Batched(batch) \cup Range(s)
  <2>1. PICK c : c = batch'
    OBVIOUS
  <2>2. OnceEach(c) /\ Batched(c) = Batched(batch) \cup Range(s)
    BY <1>2, <1>3, <1>4, <1>5, <2>1, BatchStarts
  <2> QED
    BY <2>1, <2>2
<1>7. /\ items' = items \ due /\ pc' = [pc EXCEPT ![w] = "push"]
      /\ UNCHANGED <<now, held, reserving, executeTick, distributing, sampled, pushed,
                     lost, cleared, before>>
  BY DEF Collect
<1>8. batch' \in [Workers -> Seq(Jobs)]
  BY <1>2, <1>3, <1>4
<1>9. Types'
  BY <1>7, <1>8 DEF Inv, Types
<1>10. \A j \in Range(s) : j \in items /\ j \notin items'
  BY <1>1, <1>3, <1>7
<1>11. Placed'
  BY <1>6, <1>7, <1>10 DEF Inv, Placed, Apart
<1>12. /\ pc'[w] = "push" /\ \A v \in Workers : v # w => pc'[v] = pc[v] /\ batch'[v] = batch[v]
       /\ batch'[w] = s
  BY <1>2, <1>4, <1>7 DEF Inv, Types
<1>13. pc[w] = "collect"
  BY DEF Collect
<1>14. OneDistributes'
  BY <1>7, <1>12, <1>13 DEF Inv, OneDistributes, Busy
<1>15. \A p, i : Earlier(p, i) => Earlier(p, i)'
  BY <1>7 DEF Earlier
<1>16. \A p \in due, i \in items \ due : Earlier(p, i)
  <2>1. \A p \in due : executeTick[p] <= sampled[w]
    BY DEF Due
  <2>2. \A i \in items \ due : ~(executeTick[i] <= sampled[w])
    BY DEF Due
  <2>3. \A i \in items : executeTick[i] \in Int
    BY <1>1, TickAssumption DEF Inv, Types
  <2>4. sampled[w] \in Int
    BY TickAssumption DEF Inv, Types
  <2>5. \A p \in due, i \in items \ due : executeTick[p] <= executeTick[i]
    BY <1>1, <2>1, <2>2, <2>3, <2>4
  <2> QED
    BY <2>5 DEF Earlier
<1> HIDE DEF due
<1>17. (\A v \in Workers : \A i, k \in DOMAIN batch[v] :
          i < k => executeTick[batch[v][i]] <= executeTick[batch[v][k]])'
  <2> SUFFICES ASSUME NEW v \in Workers
               PROVE  \A i, k \in DOMAIN batch'[v] :
                         i < k => executeTick[batch'[v][i]] <= executeTick[batch'[v][k]]
    BY <1>7
  <2>1. CASE v = w
    BY <1>3, <1>12, <2>1
  <2>2. CASE v # w
    BY <1>12, <2>2 DEF Inv, InOrder
  <2> QED
    BY <2>1, <2>2
<1>18. (\A p \in Range(pushed), i \in Batched(batch) : Earlier(p, i))'
  BY <1>1, <1>3, <1>6, <1>7, <1>15 DEF Inv, InOrder
<1>19. (\A p \in Range(pushed) \cup Batched(batch), i \in items : Earlier(p, i))'
  BY <1>3, <1>6, <1>7, <1>15, <1>16 DEF Inv, InOrder
<1>20. (\A i, k \in DOMAIN pushed : i < k => Earlier(pushed[i], pushed[k]))'
  BY <1>7, <1>15 DEF Inv, InOrder
<1>21. InOrder'
  BY <1>17, <1>18, <1>19, <1>20 DEF InOrder
<1> QED
  BY <1>9, <1>11, <1>14, <1>21 DEF Inv

LEMMA PushKeeps == ASSUME Inv, NEW w \in Workers, Push(w) PROVE Inv'
<1> DEFINE j == Head(batch[w])
<1>1. /\ batch \in [Workers -> Seq(Jobs)] /\ OnceEach(batch) /\ batch[w] # <<>>
      /\ batch' = [batch EXCEPT ![w] = Tail(@)]
  BY DEF Inv, Types, Placed, Push
<1>2. PICK c : c = batch'
  OBVIOUS
<1>3. c \in [Workers -> Seq(Jobs)] /\ OnceEach(c) /\ Batched(c) = Batched(batch) \ {j}
      /\ j \in Batched(batch) /\ j \in Jobs
  BY <1>1, <1>2, BatchShrinks
<1>4. UNCHANGED <<now, reserving, executeTick, items, distributing, pc, sampled, cleared, before>>
  BY DEF Push
<1>5. \/ pushed' = Append(pushed, j) /\ held' = held \cup {Owner[j]} /\ UNCHANGED lost
      \/ lost' = lost \cup {j} /\ UNCHANGED <<pushed, held>>
  BY DEF Push
<1>6. pushed \in Seq(Jobs) /\ IsInjective(pushed) /\ j \notin Range(pushed)
  BY <1>3 DEF Inv, Types, Placed, Apart
<1>7. /\ Append(pushed, j) \in Seq(Jobs) /\ IsInjective(Append(pushed, j))
      /\ Range(Append(pushed, j)) = Range(pushed) \cup {j}
  BY <1>3, <1>6, AppendOnce
<1>8. held' \subseteq Owners /\ pushed' \in Seq(Jobs)
  BY <1>3, <1>5, <1>6, <1>7, JobsAssumption DEF Inv, Types
<1>9. Types'
  BY <1>2, <1>3, <1>4, <1>8 DEF Inv, Types
<1>10. Placed'
  <2>1. CASE pushed' = Append(pushed, j) /\ UNCHANGED lost
    <3>1. Range(pushed') = Range(pushed) \cup {j} /\ IsInjective(pushed')
      BY <1>7, <2>1
    <3> HIDE DEF j
    <3> QED
      BY <1>2, <1>3, <1>4, <2>1, <3>1 DEF Inv, Placed, Apart
  <2>2. CASE lost' = lost \cup {j} /\ UNCHANGED pushed
    <3> HIDE DEF j
    <3> QED
      BY <1>2, <1>3, <1>4, <2>2 DEF Inv, Placed, Apart
  <2> QED
    BY <1>5, <2>1, <2>2
<1>11. \A v \in Workers : v # w => batch'[v] = batch[v]
  BY <1>1
<1>12. OneDistributes'
  <2>1. \A v \in Workers : batch'[v] # <<>> => pc[v] = "push"
    BY <1>1, <1>11 DEF Inv, OneDistributes
  <2> QED
    BY <1>4, <2>1 DEF Inv, OneDistributes, Busy
(* No other worker has a batch. *)
<1>13. pc[w] = "push" /\ \A v \in Workers : v # w => batch[v] = <<>>
  BY <1>1 DEF Inv, OneDistributes, Busy
<1>14. \A p, i : Earlier(p, i) => Earlier(p, i)'
  BY <1>4 DEF Earlier
<1> DEFINE s == batch[w]
<1>15. /\ s \in Seq(Jobs) /\ Len(s) \in Nat /\ Len(s) >= 1
       /\ batch'[w] = Tail(s) /\ j = s[1]
       /\ \A i, k \in 1 .. Len(s) : i < k => executeTick[s[i]] <= executeTick[s[k]]
  BY <1>1 DEF Inv, InOrder
<1>16. \A i \in Batched(c) : Earlier(j, i)
  <2> SUFFICES ASSUME NEW i \in Batched(batch), i # j
               PROVE  Earlier(j, i)
    BY <1>3
  <2>1. i \in Range(s)
    BY <1>13 DEF Batched, Range
  <2>2. PICK k \in 1 .. Len(s) : s[k] = i
    BY <2>1, <1>15 DEF Range
  <2>3. 1 \in 1 .. Len(s) /\ 1 < k
    BY <1>15, <2>2
  <2> QED
    BY <1>15, <2>2, <2>3 DEF Earlier
<1>17. \A p \in Range(pushed) : Earlier(p, j)
  BY <1>3 DEF Inv, InOrder
<1>18. (\A v \in Workers : \A i, k \in DOMAIN batch[v] :
          i < k => executeTick[batch[v][i]] <= executeTick[batch[v][k]])'
  <2> SUFFICES ASSUME NEW v \in Workers, NEW i \in DOMAIN batch'[v], NEW k \in DOMAIN batch'[v], i < k
               PROVE  executeTick[batch'[v][i]] <= executeTick[batch'[v][k]]
    BY <1>4
  <2>1. CASE v = w
    <3>1. DOMAIN Tail(s) = 1 .. Len(s) - 1 /\ \A x \in 1 .. Len(s) - 1 : Tail(s)[x] = s[x + 1]
      BY <1>15
    <3>2. i \in 1 .. Len(s) - 1 /\ k \in 1 .. Len(s) - 1
      BY <1>15, <2>1, <3>1
    <3>3. i + 1 \in 1 .. Len(s) /\ k + 1 \in 1 .. Len(s) /\ i + 1 < k + 1
      BY <1>15, <3>2
    <3>4. batch'[v][i] = s[i + 1] /\ batch'[v][k] = s[k + 1]
      BY <1>15, <2>1, <3>1, <3>2
    <3> HIDE DEF s
    <3> QED
      BY <1>15, <3>3, <3>4
  <2>2. CASE v # w
    BY <1>11, <2>2 DEF Inv, InOrder
  <2> QED
    BY <2>1, <2>2
<1> HIDE DEF j, s
<1>19. Range(pushed') \subseteq Range(pushed) \cup {j}
  BY <1>5, <1>7
<1>20. (\A p \in Range(pushed), i \in Batched(batch) : Earlier(p, i))'
  BY <1>2, <1>3, <1>14, <1>16, <1>19 DEF Inv, InOrder
<1>21. (\A p \in Range(pushed) \cup Batched(batch), i \in items : Earlier(p, i))'
  BY <1>2, <1>3, <1>4, <1>14, <1>19 DEF Inv, InOrder
<1>22. (\A i, k \in DOMAIN pushed : i < k => Earlier(pushed[i], pushed[k]))'
  <2>1. CASE pushed' = Append(pushed, j)
    <3>1. /\ Len(pushed) \in Nat /\ DOMAIN pushed = 1 .. Len(pushed)
          /\ DOMAIN pushed' = 1 .. Len(pushed) + 1
          /\ \A x \in 1 .. Len(pushed) : pushed'[x] = pushed[x]
          /\ pushed'[Len(pushed) + 1] = j
      BY <1>3, <1>6, <2>1
    <3>2. \A x \in 1 .. Len(pushed) : pushed[x] \in Range(pushed)
      BY <3>1 DEF Range
    <3> SUFFICES ASSUME NEW i \in DOMAIN pushed', NEW k \in DOMAIN pushed', i < k
                 PROVE  Earlier(pushed[i], pushed[k])'
      OBVIOUS
    <3>3. i \in 1 .. Len(pushed) /\ (k \in 1 .. Len(pushed) \/ k = Len(pushed) + 1)
      BY <3>1
    <3>4. Earlier(pushed'[i], pushed'[k])
      <4>1. CASE k \in 1 .. Len(pushed)
        BY <3>1, <3>3, <4>1 DEF Inv, InOrder
      <4>2. CASE k = Len(pushed) + 1
        BY <1>17, <3>1, <3>2, <3>3, <4>2
      <4> QED
        BY <3>3, <4>1, <4>2
    <3> QED
      BY <1>4, <3>4 DEF Earlier
  <2>2. CASE UNCHANGED pushed
    BY <1>14, <2>2 DEF Inv, InOrder
  <2> QED
    BY <1>5, <2>1, <2>2
<1>23. InOrder'
  BY <1>18, <1>20, <1>21, <1>22 DEF InOrder
<1> QED
  BY <1>9, <1>10, <1>12, <1>23 DEF Inv

LEMMA LeaveKeeps == ASSUME Inv, NEW w \in Workers, Leave(w) PROVE Inv'
<1>1. Types'
  BY DEF Inv, Types, Leave
<1>2. Placed'
  BY DEF Inv, Placed, Leave
<1>3. OneDistributes'
  BY DEF Inv, Types, OneDistributes, Busy, Leave
<1>4. InOrder'
  BY DEF Inv, InOrder, Earlier, Leave
<1> QED
  BY <1>1, <1>2, <1>3, <1>4 DEF Inv

LEMMA ClearKeeps == Inv /\ Clear => Inv'
<1> SUFFICES ASSUME Inv, Clear PROVE Inv'
  OBVIOUS
<1>1. Types'
  BY DEF Inv, Types, Clear
<1>2. Placed'
  BY DEF Inv, Placed, Apart, Clear
<1>3. OneDistributes'
  BY DEF Inv, OneDistributes, Busy, Clear
<1>4. InOrder'
  BY DEF Inv, InOrder, Earlier, Clear
<1> QED
  BY <1>1, <1>2, <1>3, <1>4 DEF Inv

LEMMA StepInv == Inv /\ [Next]_vars => Inv'
<1> SUFFICES ASSUME Inv, [Next]_vars PROVE Inv'
  OBVIOUS
<1>1. CASE Tick
  BY <1>1, TickKeeps
<1>2. CASE \E q \in Owners : Release(q)
  BY <1>2, ReleaseKeeps
<1>3. CASE \E j \in Jobs : Reserve(j)
  BY <1>3, ReserveKeeps
<1>4. CASE \E j \in Jobs, tickAfter \in 0 .. MaxTick : DoTimer(j, tickAfter)
  BY <1>4, DoTimerKeeps
<1>5. CASE \E w \in Workers : WorkerTurn(w)
  BY <1>5, DistributeReservedJobsKeeps, EnterKeeps, CollectKeeps, PushKeeps, LeaveKeeps
     DEF WorkerTurn
<1>6. CASE Clear
  BY <1>6, ClearKeeps
<1>7. CASE UNCHANGED vars
  <2>1. Types' /\ Placed' /\ OneDistributes'
    BY <1>7 DEF Inv, Types, Placed, OneDistributes, Busy, vars
  <2>2. InOrder'
    BY <1>7 DEF Inv, InOrder, Earlier, vars
  <2> QED
    BY <2>1, <2>2 DEF Inv
<1> QED
  BY <1>1, <1>2, <1>3, <1>4, <1>5, <1>6, <1>7 DEF Next

LEMMA Invariance == Spec => []Inv
BY InitInv, StepInv, PTL DEF Spec

(* A reserved job is at one place of the timer at a time, or has left it in
   one way; no job is pushed twice, for any workers and jobs. *)
THEOREM TypeCorrect == Spec => []TypeOK
<1>1. Inv => TypeOK
  BY TypeOKParts DEF Inv
<1> QED
  BY <1>1, Invariance, PTL

(* The pushes of all workers together follow the deadlines, but for a job
   that was reserved after a later one had been taken out. *)
THEOREM DeadlinesInOrder == Spec => []PushedInOrder
BY PushedOrdered, Invariance, PTL
==============================================================================
