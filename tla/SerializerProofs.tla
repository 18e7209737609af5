-------------------------- MODULE SerializerProofs --------------------------
(***************************************************************************)
(* Proofs about Serializer: for every collection, exactly the bytes that   *)
(* were counted are written, and exactly the values that were sent are     *)
(* read before the decoder leaves the packet.                              *)
(*                                                                         *)
(* What a recursive function is for every argument is shown by induction   *)
(* over a set of numbers (UpTo, DownFrom), and that there is one by        *)
(* LoopExists.  From these follow that a word is read as it was written    *)
(* (WordReadBack), that a value's bytes are as many as were counted        *)
(* (EncodedIs), and that the decoder, in front of them, reads that value   *)
(* and stops behind it or at a string's zero (ScalarRead, StringRead,      *)
(* ArrayRead).  The invariant, SerializerInv, says that the values written *)
(* so far lie where Sizes puts them, and that the decoder is behind as     *)
(* many as it has read.                                                    *)
(***************************************************************************)
EXTENDS Serializer, WellFoundedInduction, SequenceTheorems, TLAPS

(* Induction, as facts about sets. *)

LEMMA Smallest ==
    ASSUME NEW S, S \subseteq Nat, S # {}
    PROVE  \E m \in S : \A n \in S : m <= n
<1> DEFINE Less == OpToRel(<, Nat)
<1>1. \A m, n \in Nat : <<n, m>> \in Less <=> n < m
  BY DEF OpToRel
<1>2. IsWellFoundedOn(Less, Nat)
  BY NatLessThanWellFounded
<1> HIDE DEF Less
<1>3. PICK m \in S : \A n \in S : ~(<<n, m>> \in Less)
  BY <1>2, WFMin
<1>4. ASSUME NEW n \in S PROVE m <= n
  <2>1. ~(<<n, m>> \in Less) /\ n \in Nat /\ m \in Nat
    BY <1>3
  <2>2. ~(n < m)
    BY <1>1, <2>1
  <2> QED
    BY <2>1, <2>2
<1> QED
  BY <1>4

(* What holds of 0 and of i when it holds of i - 1 holds up to n. *)
LEMMA UpTo ==
    ASSUME NEW n \in Nat, NEW T, 0 \in T, \A i \in 1 .. n : i - 1 \in T => i \in T
    PROVE  0 .. n \subseteq T
<1> SUFFICES ASSUME (0 .. n) \ T # {} PROVE FALSE
  OBVIOUS
<1>1. PICK m \in (0 .. n) \ T : \A k \in (0 .. n) \ T : m <= k
  <2>1. (0 .. n) \ T \subseteq Nat
    OBVIOUS
  <2> QED
    BY <2>1, Smallest
<1>2. m \in 1 .. n /\ m - 1 \in 0 .. n /\ ~(m <= m - 1)
  BY <1>1
<1> QED
  BY <1>1, <1>2

(* What holds of n and of i when it holds of i + 1 holds down to 1. *)
LEMMA DownFrom ==
    ASSUME NEW n \in Nat, NEW T, n + 1 \in T, \A i \in 1 .. n : i + 1 \in T => i \in T
    PROVE  1 .. n + 1 \subseteq T
<1> DEFINE U == {j \in 0 .. n : n + 1 - j \in T}
<1>1. 0 \in U
  OBVIOUS
<1>2. ASSUME NEW j \in 1 .. n, j - 1 \in U PROVE j \in U
  <2>1. n + 1 - j \in 1 .. n /\ (n + 1 - j) + 1 = n + 1 - (j - 1)
    OBVIOUS
  <2>2. n + 1 - (j - 1) \in T
    BY <1>2
  <2> QED
    BY <2>1, <2>2
<1>3. 0 .. n \subseteq U
  <2> HIDE DEF U
  <2> QED
    BY <1>1, <1>2, UpTo
<1>4. ASSUME NEW i \in 1 .. n + 1 PROVE i \in T
  <2>1. n + 1 - i \in U
    BY <1>3
  <2>2. n + 1 - (n + 1 - i) = i
    OBVIOUS
  <2> QED
    BY <2>1, <2>2
<1> QED
  BY <1>4

(* The values of a loop that starts with a and goes on with g[1] .. g[n]. *)
Loop(f, a, g, n) == f[0] = a /\ \A i \in 1 .. n : f[i] = g[i][f[i - 1]]

LEMMA LoopExists ==
    ASSUME NEW D, NEW a \in D, NEW n \in Nat, NEW g \in [1 .. n -> [D -> D]]
    PROVE  \E f \in [0 .. n -> D] : Loop(f, a, g, n)
<1> DEFINE T == {m \in 0 .. n : \E f \in [0 .. m -> D] : Loop(f, a, g, m)}
<1>1. 0 \in T
  <2>1. [i \in 0 .. 0 |-> a] \in [0 .. 0 -> D] /\ Loop([i \in 0 .. 0 |-> a], a, g, 0)
    BY DEF Loop
  <2> QED
    BY <2>1
<1>2. ASSUME NEW m \in 1 .. n, m - 1 \in T PROVE m \in T
  <2>1. PICK f \in [0 .. m - 1 -> D] : Loop(f, a, g, m - 1)
    BY <1>2
  <2> DEFINE h == [i \in 0 .. m |-> IF i = m THEN g[m][f[m - 1]] ELSE f[i]]
  <2>2. g[m] \in [D -> D] /\ f[m - 1] \in D
    OBVIOUS
  <2>3. h \in [0 .. m -> D]
    BY <2>2
  <2>4. h[0] = a
    BY <2>1 DEF Loop
  <2>5. ASSUME NEW i \in 1 .. m PROVE h[i] = g[i][h[i - 1]]
    <3>1. CASE i = m
      BY <3>1
    <3>2. CASE i # m
      <4>1. i \in 1 .. m - 1 /\ i - 1 \in 0 .. m - 1 /\ i - 1 # m
        BY <3>2
      <4>2. h[i] = f[i] /\ h[i - 1] = f[i - 1]
        BY <4>1, <3>2
      <4> QED
        BY <2>1, <4>1, <4>2 DEF Loop
    <3> QED
      BY <3>1, <3>2
  <2>6. Loop(h, a, g, m)
    <3> HIDE DEF h
    <3> QED
      BY <2>4, <2>5 DEF Loop
  <2> QED
    BY <2>3, <2>6
<1>3. n \in T
  <2> HIDE DEF T
  <2>1. 0 .. n \subseteq T
    BY <1>1, <1>2, UpTo
  <2> QED
    BY <2>1
<1> QED
  BY <1>3

------------------------------------------------------------------------------
(* The recursive functions of the model are such loops. *)

LEMMA Divided == ASSUME NEW n \in Nat PROVE n \div Base \in Nat /\ n % Base \in 0 .. Base - 1
BY BaseAssumption DEF Wides

LEMMA ShiftedIs ==
    ASSUME NEW n \in Nat, NEW w \in Nat
    PROVE  /\ Shifted(n, w) \in [0 .. w -> Nat]
           /\ Shifted(n, w)[0] = n
           /\ \A i \in 1 .. w : Shifted(n, w)[i] = Shifted(n, w)[i - 1] \div Base
<1> DEFINE g == [i \in 1 .. w |-> [x \in Nat |-> x \div Base]]
           Is(f) == f = [i \in 0 .. w |-> IF i = 0 THEN n ELSE f[i - 1] \div Base]
<1>1. g \in [1 .. w -> [Nat -> Nat]]
  BY Divided
<1>2. PICK f \in [0 .. w -> Nat] : Loop(f, n, g, w)
  <2> HIDE DEF g
  <2> QED
    BY <1>1, LoopExists
<1>3. ASSUME NEW i \in 1 .. w, NEW x \in Nat PROVE g[i][x] = x \div Base
  OBVIOUS
<1>4. ASSUME NEW i \in 1 .. w PROVE f[i] = f[i - 1] \div Base
  <2>1. f[i - 1] \in Nat /\ f[i] = g[i][f[i - 1]]
    BY <1>2 DEF Loop
  <2> HIDE DEF g
  <2> QED
    BY <1>3, <2>1
<1>5. Is(f)
  BY <1>2, <1>4 DEF Loop
<1> DEFINE e == Shifted(n, w)
<1>6. Is(e)
  <2>1. e = CHOOSE h : Is(h)
    BY DEF Shifted
  <2> HIDE DEF Is, e
  <2> QED
    BY <1>5, <2>1
<1>7. e = [i \in 0 .. w |-> IF i = 0 THEN n ELSE e[i - 1] \div Base]
  BY <1>6
<1> HIDE DEF e, Is
<1>8. e[0] = n /\ \A i \in 1 .. w : e[i] = e[i - 1] \div Base
  BY <1>7
<1>9. \A i \in 0 .. w : e[i] = f[i]
  <2> DEFINE T == {i \in 0 .. w : e[i] = f[i]}
  <2>1. 0 \in T
    BY <1>2, <1>8 DEF Loop
  <2>2. ASSUME NEW i \in 1 .. w, i - 1 \in T PROVE i \in T
    BY <1>4, <1>8, <2>2
  <2> HIDE DEF T
  <2>3. 0 .. w \subseteq T
    BY <2>1, <2>2, UpTo
  <2> QED
    BY <2>3 DEF T
<1>10. e \in [0 .. w -> Nat]
  BY <1>7, <1>9
<1> QED
  BY <1>8, <1>10 DEF e

LEMMA Times == ASSUME NEW n \in Nat PROVE Base * n \in Nat
BY BaseAssumption

LEMMA JoinedIs ==
    ASSUME NEW s \in Seq(Nat)
    PROVE  /\ Joined(s) \in [1 .. Len(s) + 1 -> Nat]
           /\ Joined(s)[Len(s) + 1] = 0
           /\ \A i \in 1 .. Len(s) : Joined(s)[i] = s[i] + Base * Joined(s)[i + 1]
<1> DEFINE n == Len(s)
           g == [i \in 1 .. n |-> [x \in Nat |-> s[n + 1 - i] + Base * x]]
           Is(h) == h = [i \in 1 .. n + 1 |-> IF i > n THEN 0 ELSE s[i] + Base * h[i + 1]]
<1>1. n \in Nat /\ \A i \in 1 .. n : s[i] \in Nat
  OBVIOUS
<1>2. g \in [1 .. n -> [Nat -> Nat]]
  <2>1. ASSUME NEW i \in 1 .. n, NEW x \in Nat PROVE s[n + 1 - i] + Base * x \in Nat
    <3>1. n + 1 - i \in 1 .. n
      BY <1>1
    <3>2. s[n + 1 - i] \in Nat
      BY <1>1, <3>1
    <3>3. Base * x \in Nat
      BY Times
    <3> QED
      BY <3>2, <3>3
  <2> QED
    BY <2>1
<1>3. PICK f \in [0 .. n -> Nat] : Loop(f, 0, g, n)
  <2> HIDE DEF g, n
  <2> QED
    BY <1>1, <1>2, LoopExists
<1> DEFINE h == [i \in 1 .. n + 1 |-> f[n + 1 - i]]
<1>4. ASSUME NEW i \in 1 .. n PROVE h[i] = s[i] + Base * h[i + 1]
  <2>1. /\ n + 1 - i \in 1 .. n /\ (n + 1 - i) - 1 = n + 1 - (i + 1)
        /\ n + 1 - (i + 1) \in 0 .. n /\ n + 1 - (n + 1 - i) = i
    BY <1>1
  <2>2. f[n + 1 - i] = g[n + 1 - i][f[n + 1 - (i + 1)]]
    <3> HIDE DEF g
    <3> QED
      BY <1>3, <2>1 DEF Loop
  <2>3. f[n + 1 - (i + 1)] \in Nat
    BY <1>3, <2>1
  <2>4. g[n + 1 - i][f[n + 1 - (i + 1)]] = s[i] + Base * f[n + 1 - (i + 1)]
    BY <2>1, <2>3
  <2> HIDE DEF g
  <2> QED
    BY <1>1, <2>2, <2>4
<1>5. h[n + 1] = 0
  BY <1>1, <1>3 DEF Loop
<1>6. Is(h)
  <2>1. h = [i \in 1 .. n + 1 |-> h[i]]
    OBVIOUS
  <2>2. \A i \in 1 .. n + 1 : h[i] = IF i > n THEN 0 ELSE s[i] + Base * h[i + 1]
    <3> HIDE DEF h
    <3> QED
      BY <1>1, <1>4, <1>5
  <2> HIDE DEF h
  <2> QED
    BY <2>1, <2>2
<1> DEFINE e == Joined(s)
<1>7. Is(e)
  <2>1. e = CHOOSE j : Is(j)
    BY DEF Joined
  <2> HIDE DEF Is, e, h
  <2> QED
    BY <1>6, <2>1
<1>8. e = [i \in 1 .. n + 1 |-> IF i > n THEN 0 ELSE s[i] + Base * e[i + 1]]
  BY <1>7
<1> HIDE DEF e, Is, h, g, n
<1>9. e[n + 1] = 0 /\ \A i \in 1 .. n : e[i] = s[i] + Base * e[i + 1]
  BY <1>1, <1>8
<1>10. \A i \in 1 .. n + 1 : e[i] \in Nat
  <2> DEFINE T == {i \in 1 .. n + 1 : e[i] \in Nat}
  <2>1. n + 1 \in T
    BY <1>1, <1>9
  <2>2. ASSUME NEW i \in 1 .. n, i + 1 \in T PROVE i \in T
    <3>1. e[i] = s[i] + Base * e[i + 1] /\ s[i] \in Nat /\ Base * e[i + 1] \in Nat
      BY <1>1, <1>9, <2>2, Times
    <3> QED
      BY <1>1, <3>1
  <2> HIDE DEF T
  <2>3. 1 .. n + 1 \subseteq T
    BY <1>1, <2>1, <2>2, DownFrom
  <2> QED
    BY <2>3 DEF T
<1>11. e \in [1 .. n + 1 -> Nat]
  BY <1>8, <1>10
<1> QED
  BY <1>9, <1>11 DEF e, n

------------------------------------------------------------------------------
(* A word is read as it was written. *)

LEMMA BytesAre ==
    ASSUME NEW n \in Nat, NEW w \in Nat
    PROVE  /\ ToBytes(n, w) \in Seq(0 .. Base - 1) /\ ToBytes(n, w) \in Seq(Nat)
           /\ Len(ToBytes(n, w)) = w
           /\ \A i \in 1 .. w : ToBytes(n, w)[i] = Shifted(n, w)[i - 1] % Base
<1>1. ASSUME NEW i \in 1 .. w PROVE Shifted(n, w)[i - 1] % Base \in 0 .. Base - 1
  <2>1. Shifted(n, w) \in [0 .. w -> Nat] /\ i - 1 \in 0 .. w
    BY ShiftedIs
  <2>2. Shifted(n, w)[i - 1] \in Nat
    BY <2>1
  <2> QED
    BY <2>2, Divided
<1> QED
  BY <1>1 DEF ToBytes

LEMMA DivisionBound ==
    ASSUME NEW x \in Nat, NEW m \in Nat, x <= Base - 1 + Base * m
    PROVE  x \div Base <= m
<1> DEFINE q == x \div Base
<1>1. q \in Nat /\ x = Base * q + (x % Base) /\ x % Base \in 0 .. Base - 1
  BY BaseAssumption DEF Wides
<1> HIDE DEF q
<1>2. SUFFICES ASSUME q >= m + 1 PROVE FALSE
  BY <1>1 DEF q
<1>3. PICK d \in Nat : q = m + 1 + d
  <2>1. q - (m + 1) \in Nat /\ q = m + 1 + (q - (m + 1))
    BY <1>1, <1>2
  <2> QED
    BY <2>1
<1>4. Base * q = Base * m + Base + Base * d /\ Base * d \in Nat
  BY <1>3, BaseAssumption
<1>5. Base * m \in Nat /\ Base \in Nat
  BY BaseAssumption
<1> QED
  BY <1>1, <1>4, <1>5

LEMMA FullWord ==
    ASSUME NEW w \in Nat
    PROVE  [i \in 1 .. w |-> Base - 1] \in Seq(Nat) /\ Len([i \in 1 .. w |-> Base - 1]) = w
BY BaseAssumption DEF Wides

LEMMA LargestIs == ASSUME NEW w \in Nat PROVE LargestOf(w) \in Nat
<1> DEFINE u == [i \in 1 .. w |-> Base - 1]
<1>1. u \in Seq(Nat)
  BY FullWord
<1> HIDE DEF u
<1>2. Joined(u) \in [1 .. Len(u) + 1 -> Nat] /\ 1 \in 1 .. Len(u) + 1
  BY <1>1, JoinedIs
<1> QED
  BY <1>2 DEF LargestOf, FromBytes, u

LEMMA ShiftedOut ==
    ASSUME NEW w \in Nat, NEW n \in 0 .. LargestOf(w)
    PROVE  Shifted(n, w)[w] = 0
<1> DEFINE u == [i \in 1 .. w |-> Base - 1]
           J == Joined(u)
           S == Shifted(n, w)
           T == {i \in 0 .. w : S[i] <= J[i + 1]}
<1>1. /\ J \in [1 .. w + 1 -> Nat] /\ J[w + 1] = 0 /\ n <= J[1]
      /\ \A i \in 1 .. w : J[i] = Base - 1 + Base * J[i + 1]
  <2>1. u \in Seq(Nat) /\ Len(u) = w /\ \A i \in 1 .. w : u[i] = Base - 1
    BY FullWord
  <2>2. n <= J[1]
    BY DEF LargestOf, FromBytes
  <2> HIDE DEF u
  <2> QED
    BY <2>1, <2>2, JoinedIs
<1>2. S \in [0 .. w -> Nat] /\ S[0] = n /\ \A i \in 1 .. w : S[i] = S[i - 1] \div Base
  <2>1. n \in Nat
    BY LargestIs
  <2> QED
    BY <2>1, ShiftedIs
<1> HIDE DEF J, S, u
<1>3. 0 \in T
  BY <1>1, <1>2
<1>4. ASSUME NEW i \in 1 .. w, i - 1 \in T PROVE i \in T
  <2>1. S[i - 1] \in Nat /\ J[i + 1] \in Nat /\ S[i - 1] <= J[i]
    BY <1>1, <1>2, <1>4
  <2>2. S[i] = S[i - 1] \div Base /\ J[i] = Base - 1 + Base * J[i + 1]
    BY <1>1, <1>2
  <2> QED
    BY <2>1, <2>2, DivisionBound
<1>5. w \in T
  <2> HIDE DEF T
  <2>1. 0 .. w \subseteq T
    BY <1>3, <1>4, UpTo
  <2> QED
    BY <2>1
<1> QED
  BY <1>1, <1>2, <1>5 DEF S

LEMMA WordReadBack ==
    ASSUME NEW w \in Nat, NEW n \in 0 .. LargestOf(w)
    PROVE  FromBytes(ToBytes(n, w)) = n
<1> DEFINE b == ToBytes(n, w)
           J == Joined(b)
           S == Shifted(n, w)
           T == {i \in 1 .. w + 1 : J[i] = S[i - 1]}
<1>1. n \in Nat
  BY LargestIs
<1>2. b \in Seq(Nat) /\ Len(b) = w /\ \A i \in 1 .. w : b[i] = S[i - 1] % Base
  BY <1>1, BytesAre
<1>3. J[w + 1] = 0 /\ \A i \in 1 .. w : J[i] = b[i] + Base * J[i + 1]
  <2> HIDE DEF b
  <2> QED
    BY <1>2, JoinedIs
<1>4. S \in [0 .. w -> Nat] /\ S[0] = n /\ \A i \in 1 .. w : S[i] = S[i - 1] \div Base
  BY <1>1, ShiftedIs
<1>5. S[w] = 0
  BY ShiftedOut
<1> HIDE DEF J, S, b
<1>6. w + 1 \in T
  BY <1>3, <1>5
<1>7. ASSUME NEW i \in 1 .. w, i + 1 \in T PROVE i \in T
  <2>1. J[i] = (S[i - 1] % Base) + Base * (S[i - 1] \div Base) /\ S[i - 1] \in Nat
    BY <1>2, <1>3, <1>4, <1>7
  <2>2. ASSUME NEW x \in Nat PROVE (x % Base) + Base * (x \div Base) = x
    BY BaseAssumption DEF Wides
  <2> QED
    BY <2>1, <2>2
<1>8. 1 \in T
  <2> HIDE DEF T
  <2>1. 1 .. w + 1 \subseteq T
    BY <1>6, <1>7, DownFrom
  <2> QED
    BY <2>1
<1> QED
  BY <1>4, <1>8 DEF FromBytes, J, b

------------------------------------------------------------------------------
(* What a value is and how it lies in memory. *)

LEMMA FirstIs ==
    ASSUME NEW S, NEW s \in Seq(S), NEW x, \E i \in 1 .. Len(s) : s[i] = x
    PROVE  /\ First(s, x) \in 1 .. Len(s) /\ s[First(s, x)] = x
           /\ \A k \in 1 .. First(s, x) - 1 : s[k] # x
<1> DEFINE T == {i \in 1 .. Len(s) : s[i] = x}
<1>1. PICK m \in T : \A i \in T : m <= i
  <2>1. T \subseteq Nat /\ T # {}
    OBVIOUS
  <2> QED
    BY <2>1, Smallest
<1>2. \A k \in 1 .. m - 1 : s[k] # x
  <2>1. \A k \in 1 .. m - 1 : k \in 1 .. Len(s) /\ ~(m <= k)
    BY <1>1
  <2> QED
    BY <1>1, <2>1
<1>3. m \in DOMAIN s /\ s[m] = x /\ \A k \in 1 .. m - 1 : s[k] # x
  BY <1>1, <1>2
<1> QED
  BY <1>3 DEF First

LEMMA Widths ==
    /\ \A t \in Types : Width[t] \in Nat /\ Width[t] >= 1
    /\ Width[String] = 1
    /\ String \in Types /\ Words \in Types /\ Wides \in Types
    /\ Words # String /\ Wides # String
    /\ \A t \in Types : t \in {Byte, Word, Wide} \/ t = String \/ t \in {Words, Wides}
    /\ {Byte, Word, Wide} \subseteq Types
    /\ {Byte, Word, Wide} \cap {String, Words, Wides} = {}
    /\ \A t \in Types : t \in 1 .. Base - 1
BY WideAssumption, BaseAssumption DEF Width, Types, Byte, Word, String, Wide, Words, Wides

Kinds == {Byte, Word, Wide}
Arrays == {Words, Wides}

(* The bytes in front of a value's words. *)
Before(v) == IF v.type = String THEN 3 ELSE 1

LEMMA VariantIs ==
    ASSUME NEW v, PacketVariant(v)
    PROVE  /\ v.type \in Types /\ v = [type |-> v.type, data |-> v.data]
           /\ v.type = String => v.data \in Seq(0 .. Base - 1)
           /\ v.type \in Arrays =>
                 /\ v.data \in Seq(0 .. Largest(v.type))
                 /\ \E i \in 1 .. Len(v.data) : v.data[i] = Largest(v.type)
           /\ v.type \in Kinds => v.data \in 0 .. Largest(v.type)
<1>1. PICK t \in Types : v \in [type : {t}, data : DataOf(t)]
  BY DEF PacketVariant
<1>2. v.type = t /\ v.data \in DataOf(t) /\ v = [type |-> v.type, data |-> v.data]
  BY <1>1
<1>3. CASE t = String
  <2>1. v.data \in Seq(0 .. Base - 1)
    BY <1>2, <1>3, Widths DEF DataOf
  <2> QED
    BY <1>2, <1>3, <2>1, Widths DEF Kinds, Arrays
<1>4. CASE t \in Arrays
  <2>1. v.data \in {s \in Seq(0 .. Largest(t)) : Contains(s, Largest(t))}
    BY <1>2, <1>4, Widths DEF DataOf, Arrays
  <2> QED
    BY <1>2, <1>4, <2>1, Widths DEF Kinds, Arrays, Contains
<1>5. CASE t \in Kinds
  <2>1. v.data \in 0 .. Largest(t)
    BY <1>2, <1>5, Widths DEF DataOf, Kinds
  <2> QED
    BY <1>2, <1>5, <2>1, Widths DEF Kinds, Arrays
<1> QED
  BY <1>3, <1>4, <1>5, Widths DEF Kinds, Arrays

LEMMA Initial ==
    ASSUME NEW S, NEW s \in Seq(S), NEW n \in 0 .. Len(s)
    PROVE  /\ SubSeq(s, 1, n) \in Seq(S) /\ Len(SubSeq(s, 1, n)) = n
           /\ \A k \in 1 .. n : SubSeq(s, 1, n)[k] = s[k]
<1>1. 1 \in Int /\ n \in Int /\ \A i \in 1 .. n : s[i] \in S
  OBVIOUS
<1>2. /\ SubSeq(s, 1, n) \in Seq(S)
      /\ Len(SubSeq(s, 1, n)) = IF 1 <= n THEN n - 1 + 1 ELSE 0
      /\ \A i \in 1 .. n - 1 + 1 : SubSeq(s, 1, n)[i] = s[1 + i - 1]
  BY <1>1, SubSeqProperties
<1> QED
  BY <1>2

(* The words of a string end with the only zero among them, ... *)
LEMMA StringWords ==
    ASSUME NEW v, PacketVariant(v), v.type = String
    PROVE  LET W == WordsOf(v) IN
           /\ W \in Seq(0 .. Base - 1) /\ Len(W) >= 1
           /\ W[Len(W)] = 0 /\ \A k \in 1 .. Len(W) - 1 : W[k] # 0
           /\ Size(v) = 3 + Len(W) /\ Len(CString(v.data)) = Len(W) - 1
           /\ Meaning(v) = [type |-> String, data |-> [k \in 1 .. Len(W) - 1 |-> W[k]]]
<1> DEFINE d == v.data
           a == Append(d, 0)
           n == First(a, 0)
           W == WordsOf(v)
<1>1. d \in Seq(0 .. Base - 1) /\ v = [type |-> String, data |-> d] /\ 0 \in 0 .. Base - 1
  BY VariantIs, BaseAssumption DEF Wides
<1>2. a \in Seq(0 .. Base - 1) /\ Len(a) = Len(d) + 1 /\ a[Len(d) + 1] = 0
      /\ \A k \in 1 .. Len(d) : a[k] = d[k]
  BY <1>1
<1>3. n \in 1 .. Len(a) /\ a[n] = 0 /\ \A k \in 1 .. n - 1 : a[k] # 0
  <2>1. \E i \in 1 .. Len(a) : a[i] = 0
    BY <1>1, <1>2
  <2> HIDE DEF a
  <2> QED
    BY <1>2, <2>1, FirstIs
<1>4. CString(d) = SubSeq(d, 1, n - 1)
  BY DEF CString
<1> HIDE DEF a, n
<1>5. /\ CString(d) \in Seq(0 .. Base - 1) /\ Len(CString(d)) = n - 1
      /\ \A k \in 1 .. n - 1 : CString(d)[k] = d[k]
  <2>1. n - 1 \in 0 .. Len(d)
    BY <1>1, <1>2, <1>3
  <2>2. d \in Seq(0 .. Base - 1)
    BY <1>1
  <2> HIDE DEF d
  <2> QED
    BY <1>4, <2>1, <2>2, Initial
<1>6. W = Append(CString(d), 0)
  BY Widths DEF WordsOf
<1>7. /\ W \in Seq(0 .. Base - 1) /\ Len(W) = n /\ n \in Nat /\ W[n] = 0
      /\ \A k \in 1 .. n - 1 : W[k] = d[k] /\ W[k] = CString(d)[k]
  <2> HIDE DEF W, d
  <2> QED
    BY <1>1, <1>3, <1>5, <1>6
<1>8. \A k \in 1 .. n - 1 : W[k] # 0
  BY <1>2, <1>3, <1>7
<1>9. Size(v) = 3 + n
  <2>1. Size(v) = 1 + 2 + Len(CString(d)) + 1
    BY Widths DEF Size
  <2> QED
    BY <1>5, <1>7, <2>1
<1>10. CString(d) = [k \in 1 .. n - 1 |-> W[k]]
  <2>1. CString(d) = [k \in 1 .. n - 1 |-> CString(d)[k]]
    BY <1>5
  <2> QED
    BY <1>7, <2>1
<1>11. Meaning(v) = [type |-> String, data |-> CString(d)]
  BY <1>1 DEF Meaning
<1> HIDE DEF W
<1> QED
  BY <1>3, <1>5, <1>7, <1>8, <1>9, <1>10, <1>11 DEF W

(* ... those of an array with the only largest word, ... *)
LEMMA ArrayWords ==
    ASSUME NEW v, PacketVariant(v), v.type \in Arrays
    PROVE  LET W == WordsOf(v) IN
           /\ W \in Seq(0 .. Largest(v.type)) /\ Len(W) >= 1
           /\ W[Len(W)] = Largest(v.type) /\ \A k \in 1 .. Len(W) - 1 : W[k] # Largest(v.type)
           /\ Size(v) = 1 + Width[v.type] * Len(W)
           /\ Meaning(v) = [type |-> v.type, data |-> W]
<1> DEFINE d == v.data
           x == Largest(v.type)
           n == First(d, x)
           W == WordsOf(v)
<1>1. /\ d \in Seq(0 .. x) /\ v = [type |-> v.type, data |-> d]
      /\ \E i \in 1 .. Len(d) : d[i] = x
  BY VariantIs
<1>2. /\ v.type # String /\ v.type \in {Words, Wides}
  BY Widths DEF Arrays
<1>3. W = SubSeq(d, 1, n)
  BY <1>2 DEF WordsOf, Terminated
<1>4. Size(v) = 1 + Width[v.type] * n
  BY <1>2 DEF Size
<1>5. Meaning(v) = [type |-> v.type, data |-> SubSeq(d, 1, n)]
  <2>1. Meaning(v) = [v EXCEPT !.data = SubSeq(d, 1, n)]
    BY <1>2 DEF Meaning, Terminated
  <2> HIDE DEF d, n
  <2> QED
    BY <1>1, <2>1
<1> HIDE DEF d, x
<1>6. n \in 1 .. Len(d) /\ d[n] = x /\ \A k \in 1 .. n - 1 : d[k] # x
  BY <1>1, FirstIs
<1> HIDE DEF n, W
<1>7. n \in 0 .. Len(d)
  BY <1>6
<1>8. W \in Seq(0 .. x) /\ Len(W) = n /\ \A k \in 1 .. n : W[k] = d[k]
  BY <1>1, <1>3, <1>7, Initial
<1>9. Len(W) >= 1 /\ W[Len(W)] = x /\ \A k \in 1 .. Len(W) - 1 : W[k] # x
  BY <1>1, <1>6, <1>8
<1> QED
  BY <1>3, <1>4, <1>5, <1>8, <1>9 DEF W, x

(* ... and any other value is one word. *)
LEMMA ScalarWords ==
    ASSUME NEW v, PacketVariant(v), v.type \in Kinds
    PROVE  LET W == WordsOf(v) IN
           /\ W \in Seq(0 .. Largest(v.type)) /\ Len(W) = 1
           /\ Size(v) = 1 + Width[v.type]
           /\ Meaning(v) = [type |-> v.type, data |-> W[1]]
<1>1. v.data \in 0 .. Largest(v.type) /\ v = [type |-> v.type, data |-> v.data]
  BY VariantIs
<1>2. v.type # String /\ v.type \notin {Words, Wides}
  BY Widths DEF Kinds
<1>3. WordsOf(v) = <<v.data>>
  BY <1>2 DEF WordsOf
<1>4. Size(v) = 1 + Width[v.type]
  BY <1>2 DEF Size
<1>5. Meaning(v) = [type |-> v.type, data |-> v.data]
  BY <1>1, <1>2 DEF Meaning
<1> QED
  BY <1>1, <1>3, <1>4, <1>5

LEMMA LargestByte == LargestOf(1) = Base - 1
<1> DEFINE u == [i \in 1 .. 1 |-> Base - 1]
<1>1. u \in Seq(Nat) /\ Len(u) = 1 /\ u[1] = Base - 1
  BY BaseAssumption DEF Wides
<1> HIDE DEF u
<1>2. Joined(u)[1] = u[1] + Base * Joined(u)[1 + 1] /\ Joined(u)[1 + 1] = 0
  BY <1>1, JoinedIs
<1> QED
  BY <1>1, <1>2, BaseAssumption DEF LargestOf, FromBytes, u

LEMMA ValueWords ==
    ASSUME NEW v, PacketVariant(v)
    PROVE  LET W == WordsOf(v) w == Width[v.type] IN
           /\ w \in Nat /\ w >= 1 /\ Len(W) \in Nat /\ Len(W) >= 1
           /\ W \in Seq(0 .. LargestOf(w)) /\ LargestOf(w) \in Nat
           /\ Size(v) = Before(v) + w * Len(W)
           /\ v.type \in 1 .. Base - 1
<1> DEFINE W == WordsOf(v)
           w == Width[v.type]
<1>1. v.type \in Types
  BY VariantIs
<1>2. w \in Nat /\ w >= 1 /\ v.type \in 1 .. Base - 1
  BY <1>1, Widths
<1>3. LargestOf(w) \in Nat
  BY <1>2, LargestIs
<1>4. CASE v.type = String
  <2>1. w = 1
    BY <1>4, Widths
  <2>2. W \in Seq(0 .. Base - 1) /\ Len(W) >= 1 /\ Size(v) = 3 + Len(W)
    BY <1>4, StringWords
  <2> HIDE DEF W, w
  <2>3. LargestOf(w) = Base - 1 /\ Len(W) \in Nat /\ w * Len(W) = Len(W)
    BY <2>1, <2>2, LargestByte
  <2> QED
    BY <1>2, <1>3, <1>4, <2>2, <2>3 DEF W, w, Before
<1>5. CASE v.type \in Arrays
  <2>1. W \in Seq(0 .. LargestOf(w)) /\ Len(W) >= 1 /\ Size(v) = 1 + w * Len(W)
    BY <1>5, ArrayWords DEF Largest
  <2>2. v.type # String
    BY <1>5, Widths DEF Arrays
  <2> HIDE DEF W, w
  <2>3. Len(W) \in Nat
    BY <2>1
  <2> QED
    BY <1>2, <1>3, <2>1, <2>2, <2>3 DEF W, w, Before
<1>6. CASE v.type \in Kinds
  <2>1. W \in Seq(0 .. LargestOf(w)) /\ Len(W) = 1 /\ Size(v) = 1 + w
    BY <1>6, ScalarWords DEF Largest
  <2>2. v.type # String
    BY <1>6, Widths DEF Kinds
  <2> HIDE DEF W, w
  <2>3. w * Len(W) = w
    BY <1>2, <2>1
  <2> QED
    BY <1>2, <1>3, <2>1, <2>2, <2>3 DEF W, w, Before
<1> QED
  BY <1>1, <1>4, <1>5, <1>6, Widths DEF Kinds, Arrays

(* Where the bytes of word k lie. *)
LEMMA Position ==
    ASSUME NEW w \in Nat, w >= 1, NEW n \in Nat, NEW k \in 1 .. n, NEW r \in 1 .. w
    PROVE  /\ w * (k - 1) + r \in 1 .. w * n
           /\ (w * (k - 1) + r - 1) \div w = k - 1
           /\ (w * (k - 1) + r - 1) % w = r - 1
<1>1. PICK d \in Nat : n = k + d
  <2>1. n - k \in Nat /\ n = k + (n - k)
    OBVIOUS
  <2> QED
    BY <2>1
<1>2. w * n = w * (k - 1) + w + w * d /\ w * d \in Nat /\ w * (k - 1) \in Nat
  BY <1>1
<1>3. w * (k - 1) + r \in 1 .. w * n
  BY <1>2
<1>4. ASSUME NEW q \in Nat, NEW c \in 0 .. w - 1
      PROVE  (w * q + c) \div w = q /\ (w * q + c) % w = c
  <2> DEFINE x == w * q + c
             p == x \div w
             m == x % w
  <2>1. x \in Nat /\ p \in Nat /\ m \in 0 .. w - 1 /\ x = w * p + m
    <3>1. w * q \in Nat
      OBVIOUS
    <3>2. x \in Nat
      BY <3>1
    <3> HIDE DEF x
    <3> QED
      BY <3>2
  <2> HIDE DEF p, m
  <2>2. w * q + c = w * p + m
    BY <2>1
  <2>3. p = q
    <3>1. CASE p >= q + 1
      <4>1. PICK e \in Nat : p = q + 1 + e
        <5>1. p - (q + 1) \in Nat /\ p = q + 1 + (p - (q + 1))
          BY <2>1, <3>1
        <5> QED
          BY <5>1
      <4>2. w * p = w * q + w + w * e /\ w * e \in Nat /\ w * q \in Nat
        BY <4>1
      <4> QED
        BY <2>1, <2>2, <4>2
    <3>2. CASE q >= p + 1
      <4>1. PICK e \in Nat : q = p + 1 + e
        <5>1. q - (p + 1) \in Nat /\ q = p + 1 + (q - (p + 1))
          BY <2>1, <3>2
        <5> QED
          BY <5>1
      <4>2. w * q = w * p + w + w * e /\ w * e \in Nat /\ w * p \in Nat
        BY <2>1, <4>1
      <4> QED
        BY <2>1, <2>2, <4>2
    <3> QED
      BY <2>1, <3>1, <3>2
  <2>4. m = c
    BY <2>1, <2>2, <2>3
  <2> QED
    BY <2>3, <2>4 DEF p, m
<1>5. k - 1 \in Nat /\ r - 1 \in 0 .. w - 1 /\ w * (k - 1) + r - 1 = w * (k - 1) + (r - 1)
  BY <1>2
<1> QED
  BY <1>3, <1>4, <1>5

LEMMA InMemoryIs ==
    ASSUME NEW w \in Nat, w >= 1, NEW s \in Seq(Nat)
    PROVE  /\ InMemory(s, w) \in Seq(0 .. Base - 1) /\ Len(InMemory(s, w)) = w * Len(s)
           /\ \A k \in 1 .. Len(s), r \in 1 .. w :
                 /\ w * (k - 1) + r \in 1 .. w * Len(s)
                 /\ InMemory(s, w)[w * (k - 1) + r] = ToBytes(s[k], w)[r]
<1> DEFINE B(j) == ToBytes(s[(j - 1) \div w + 1], w)[((j - 1) % w) + 1]
<1>1. Len(s) \in Nat /\ w * Len(s) \in Nat /\ \A k \in 1 .. Len(s) : s[k] \in Nat
  OBVIOUS
<1>2. ASSUME NEW j \in 1 .. w * Len(s) PROVE B(j) \in 0 .. Base - 1
  <2> DEFINE q == (j - 1) \div w
             c == (j - 1) % w
  <2>1. j - 1 \in Nat
    BY <1>1
  <2>2. q \in Nat /\ c \in 0 .. w - 1 /\ j - 1 = w * q + c
    <3> DEFINE x == j - 1
    <3> HIDE DEF x
    <3>1. x \div w \in Nat /\ x % w \in 0 .. w - 1 /\ x = w * (x \div w) + (x % w)
      BY <2>1 DEF x
    <3> QED
      BY <3>1 DEF x
  <2> HIDE DEF q, c
  <2>3. q < Len(s)
    <3>1. SUFFICES ASSUME q >= Len(s) PROVE FALSE
      BY <1>1, <2>2
    <3>2. PICK d \in Nat : q = Len(s) + d
      <4>1. q - Len(s) \in Nat /\ q = Len(s) + (q - Len(s))
        BY <1>1, <2>2, <3>1
      <4> QED
        BY <4>1
    <3>3. w * q = w * Len(s) + w * d /\ w * d \in Nat
      BY <1>1, <3>2
    <3> QED
      BY <1>1, <2>1, <2>2, <3>3
  <2>4. q + 1 \in 1 .. Len(s) /\ c + 1 \in 1 .. w
    BY <1>1, <2>2, <2>3
  <2> DEFINE b == ToBytes(s[q + 1], w)
  <2>5. b \in Seq(0 .. Base - 1) /\ Len(b) = w
    BY <1>1, <2>4, BytesAre
  <2> HIDE DEF b
  <2>6. b[c + 1] \in 0 .. Base - 1
    BY <2>4, <2>5, ElementOfSeq
  <2> QED
    BY <2>6 DEF q, c, b
<1>3. InMemory(s, w) = [j \in 1 .. w * Len(s) |-> B(j)]
  BY DEF InMemory
<1>4. ASSUME NEW k \in 1 .. Len(s), NEW r \in 1 .. w
      PROVE  /\ w * (k - 1) + r \in 1 .. w * Len(s)
             /\ B(w * (k - 1) + r) = ToBytes(s[k], w)[r]
  <2>1. /\ w * (k - 1) + r \in 1 .. w * Len(s)
        /\ (w * (k - 1) + r - 1) \div w = k - 1
        /\ (w * (k - 1) + r - 1) % w = r - 1
    BY <1>1, Position
  <2>2. (k - 1) + 1 = k /\ (r - 1) + 1 = r
    OBVIOUS
  <2> QED
    BY <2>1, <2>2
<1> HIDE DEF B
<1> QED
  BY <1>1, <1>2, <1>3, <1>4

(* The length in front of a string. *)
LEMMA LengthIs ==
    ASSUME NEW v, PacketVariant(v), v.type = String
    PROVE  LET l == ToBytes(Len(CString(v.data)), 2) IN l \in Seq(0 .. Base - 1) /\ Len(l) = 2
<1>1. Len(WordsOf(v)) >= 1 /\ Len(CString(v.data)) = Len(WordsOf(v)) - 1
  BY StringWords
<1>2. Len(WordsOf(v)) \in Nat
  BY ValueWords
<1>3. Len(CString(v.data)) \in Nat
  BY <1>1, <1>2
<1> QED
  BY <1>3, BytesAre

(* Serialization writes as many bytes as were counted: the tag, the length of
   a string, and the words. *)
LEMMA EncodedIs ==
    ASSUME NEW v, PacketVariant(v)
    PROVE  LET W == WordsOf(v) w == Width[v.type] IN
           /\ Encoded(v) \in Seq(0 .. Base - 1) /\ Len(Encoded(v)) = Size(v)
           /\ Encoded(v)[1] = v.type
           /\ \A k \in 1 .. Len(W), r \in 1 .. w :
                 /\ Before(v) + w * (k - 1) + r \in 1 .. Size(v)
                 /\ Encoded(v)[Before(v) + w * (k - 1) + r] = ToBytes(W[k], w)[r]
<1> DEFINE W == WordsOf(v)
           w == Width[v.type]
           M == InMemory(W, w)
           l == IF v.type = String THEN ToBytes(Len(CString(v.data)), 2) ELSE <<>>
           S == 0 .. Base - 1
<1>1. /\ w \in Nat /\ w >= 1 /\ Len(W) \in Nat /\ Len(W) >= 1
      /\ W \in Seq(0 .. LargestOf(w)) /\ LargestOf(w) \in Nat
      /\ Size(v) = Before(v) + w * Len(W) /\ v.type \in S
  <2>1. v.type \in 1 .. Base - 1
    BY ValueWords
  <2> QED
    BY <2>1, ValueWords
<1>2. <<v.type>> \in Seq(S) /\ Len(<<v.type>>) = 1 /\ <<v.type>>[1] = v.type
  BY <1>1
<1>3. l \in Seq(S) /\ 1 + Len(l) = Before(v) /\ Len(l) \in Nat
  <2>1. CASE v.type = String
    <3> DEFINE b == ToBytes(Len(CString(v.data)), 2)
    <3>1. b \in Seq(S) /\ Len(b) = 2
      BY <2>1, LengthIs
    <3>2. l = b /\ Before(v) = 3
      BY <2>1 DEF Before
    <3> HIDE DEF l, b, S
    <3>3. l \in Seq(S) /\ Len(l) = 2
      BY <3>1, <3>2
    <3> QED
      BY <3>2, <3>3
  <2>2. CASE v.type # String
    BY <2>2 DEF Before
  <2> QED
    BY <2>1, <2>2
<1>4. Encoded(v) = (<<v.type>> \o l) \o M
  BY DEF Encoded
<1>5. /\ M \in Seq(S) /\ Len(M) = w * Len(W)
      /\ \A k \in 1 .. Len(W), r \in 1 .. w :
            w * (k - 1) + r \in 1 .. w * Len(W) /\ M[w * (k - 1) + r] = ToBytes(W[k], w)[r]
  <2>1. W \in Seq(Nat)
    <3> HIDE DEF W, w
    <3>1. \A k \in 1 .. Len(W) : W[k] \in Nat
      BY <1>1
    <3> QED
      BY <1>1, <3>1
  <2> HIDE DEF W, w
  <2> QED
    BY <1>1, <2>1, InMemoryIs
<1> DEFINE p == <<v.type>> \o l
<1> HIDE DEF W, w, M, l
<1>6. p \in Seq(S) /\ Len(p) = Before(v) /\ p[1] = v.type
  BY <1>2, <1>3, ConcatProperties
<1> HIDE DEF p, S
<1>7. /\ p \o M \in Seq(S) /\ Len(p \o M) = Len(p) + Len(M)
      /\ \A i \in 1 .. Len(p) + Len(M) : (p \o M)[i] = IF i <= Len(p) THEN p[i] ELSE M[i - Len(p)]
  BY <1>5, <1>6, ConcatProperties
<1>8. Before(v) \in Nat /\ Before(v) >= 1
  BY DEF Before
<1>9. w * Len(W) \in Nat
  BY <1>1
<1>10. Encoded(v) = p \o M
  BY <1>4 DEF p
<1>11. Len(Encoded(v)) = Size(v) /\ Encoded(v)[1] = v.type
  BY <1>1, <1>5, <1>6, <1>7, <1>8, <1>9, <1>10
<1>12. ASSUME NEW k \in 1 .. Len(W), NEW r \in 1 .. w
       PROVE  /\ Before(v) + w * (k - 1) + r \in 1 .. Size(v)
              /\ Encoded(v)[Before(v) + w * (k - 1) + r] = ToBytes(W[k], w)[r]
  <2> DEFINE m == w * (k - 1)
             z == w * Len(W)
             j == m + r
             i == Before(v) + m + r
  <2>1. j \in 1 .. z /\ M[j] = ToBytes(W[k], w)[r] /\ m \in Nat
    <3>1. k - 1 \in Nat
      BY <1>1
    <3>2. m \in Nat
      BY <1>1, <3>1
    <3> QED
      BY <1>5, <3>2
  <2>2. Size(v) = Before(v) + z /\ z \in Nat /\ Len(M) = z
    BY <1>1, <1>5, <1>9
  <2> HIDE DEF m, z
  <2>3. i = Before(v) + j /\ i \in Nat /\ i \in 1 .. Size(v)
    BY <1>1, <1>8, <2>1, <2>2
  <2> HIDE DEF i, j
  <2>4. i \in 1 .. Len(p) + Len(M) /\ ~(i <= Len(p)) /\ i - Len(p) = j
    BY <1>6, <1>8, <2>1, <2>2, <2>3
  <2>5. (p \o M)[i] = M[j]
    BY <1>7, <2>4
  <2> QED
    BY <1>10, <2>1, <2>3, <2>5 DEF i, m
<1> QED
  BY <1>7, <1>10, <1>11, <1>12 DEF S, W, w

------------------------------------------------------------------------------
(* A value is read where it was written. *)

(* The decoder sees the bytes of v from o on. *)
Holds(o, v) == o + Size(v) <= Len(memory) /\ \A j \in 1 .. Size(v) : At(o + j - 1) = Encoded(v)[j]

LEMMA OneByte ==
    ASSUME NEW n \in 0 .. Base - 1
    PROVE  ToBytes(n, 1)[1] = n
<1>1. n \in Nat /\ 1 \in Nat /\ 1 \in 1 .. 1 /\ n % Base = n
  BY BaseAssumption DEF Wides
<1>2. Shifted(n, 1)[0] = n
  BY <1>1, ShiftedIs
<1>3. ToBytes(n, 1)[1] = Shifted(n, 1)[1 - 1] % Base
  BY <1>1, BytesAre
<1>4. 1 - 1 = 0
  OBVIOUS
<1> QED
  BY <1>1, <1>2, <1>3, <1>4

LEMMA WordsRead ==
    ASSUME NEW v, PacketVariant(v), NEW o \in Nat, Holds(o, v)
    PROVE  LET W == WordsOf(v) w == Width[v.type] IN
           /\ At(o) = v.type
           /\ \A k \in 1 .. Len(W) : WordAt(o + Before(v) + (k - 1) * w, w) = W[k]
           /\ v.type = String => \A k \in 1 .. Len(W) : At(o + 3 + k - 1) = W[k]
<1> DEFINE W == WordsOf(v)
           w == Width[v.type]
           E == Encoded(v)
<1>1. /\ w \in Nat /\ w >= 1 /\ Len(W) \in Nat /\ Len(W) >= 1
      /\ W \in Seq(0 .. LargestOf(w)) /\ LargestOf(w) \in Nat
      /\ Size(v) = Before(v) + w * Len(W)
  BY ValueWords
<1>2. /\ E[1] = v.type
      /\ \A k \in 1 .. Len(W), r \in 1 .. w :
            /\ Before(v) + w * (k - 1) + r \in 1 .. Size(v)
            /\ E[Before(v) + w * (k - 1) + r] = ToBytes(W[k], w)[r]
  BY EncodedIs
<1> HIDE DEF W, w, E
<1>3. Before(v) \in Nat /\ Before(v) >= 1 /\ w * Len(W) \in Nat
  BY <1>1 DEF Before
<1>4. Size(v) \in Nat /\ Size(v) >= 1
  BY <1>1, <1>3
<1>5. \A j \in 1 .. Size(v) : At(o + j - 1) = E[j]
  BY DEF Holds, E
<1>6. At(o) = v.type
  <2>1. 1 \in 1 .. Size(v) /\ o + 1 - 1 = o
    BY <1>4
  <2> QED
    BY <1>2, <1>5, <2>1
<1>7. ASSUME NEW k \in 1 .. Len(W), NEW r \in 1 .. w
      PROVE  At(o + Before(v) + (k - 1) * w + r - 1) = ToBytes(W[k], w)[r]
  <2> DEFINE m == w * (k - 1)
             j == Before(v) + m + r
  <2>1. k - 1 \in Nat
    BY <1>1
  <2>2. m \in Nat /\ m = (k - 1) * w
    BY <1>1, <2>1
  <2>3. j \in 1 .. Size(v) /\ E[j] = ToBytes(W[k], w)[r]
    BY <1>2
  <2> HIDE DEF m
  <2>4. o + j - 1 = o + Before(v) + (k - 1) * w + r - 1
    BY <1>1, <1>3, <2>2
  <2> HIDE DEF j
  <2> QED
    BY <1>5, <2>3, <2>4
<1>8. ASSUME NEW k \in 1 .. Len(W)
      PROVE  WordAt(o + Before(v) + (k - 1) * w, w) = W[k]
  <2> DEFINE b == ToBytes(W[k], w)
             i == o + Before(v) + (k - 1) * w
  <2>1. W[k] \in 0 .. LargestOf(w) /\ W[k] \in Nat
    <3>1. W[k] \in 0 .. LargestOf(w)
      BY <1>1, ElementOfSeq
    <3> QED
      BY <1>1, <3>1
  <2>2. Len(b) = w /\ b \in Seq(Nat)
    BY <1>1, <2>1, BytesAre
  <2>3. \A r \in 1 .. w : At(i + r - 1) = b[r]
    BY <1>7
  <2> HIDE DEF b, i
  <2>4. b = [r \in 1 .. w |-> At(i + r - 1)]
    BY <1>1, <2>2, <2>3
  <2>5. WordAt(i, w) = FromBytes(b)
    BY <2>4 DEF WordAt
  <2>6. FromBytes(b) = W[k]
    BY <1>1, <2>1, WordReadBack DEF b
  <2> QED
    BY <2>5, <2>6 DEF i
<1>9. ASSUME v.type = String, NEW k \in 1 .. Len(W)
      PROVE  At(o + 3 + k - 1) = W[k]
  <2>1. w = 1 /\ Before(v) = 3
    BY <1>9, Widths DEF w, Before
  <2>2. o + Before(v) + (k - 1) * w + 1 - 1 = o + 3 + k - 1 /\ 1 \in 1 .. w
    BY <1>1, <2>1
  <2>3. At(o + 3 + k - 1) = ToBytes(W[k], w)[1]
    BY <1>7, <2>2
  <2>4. W \in Seq(0 .. Base - 1)
    BY <1>9, StringWords DEF W
  <2>5. W[k] \in 0 .. Base - 1
    BY <2>4, ElementOfSeq
  <2>6. ToBytes(W[k], 1)[1] = W[k]
    BY <2>5, OneByte
  <2> QED
    BY <2>1, <2>3, <2>6
<1> QED
  BY <1>6, <1>8, <1>9 DEF W, w

(* The step that reads v. *)
Reads(v, end) ==
    /\ result' = Append(result, Meaning(v)) /\ currentByte' = end
    /\ UNCHANGED <<pc, sent, dataSize, body, memory, len>>

LEMMA StringRead ==
    ASSUME NEW v, PacketVariant(v), v.type = String, currentByte \in Nat,
           Holds(currentByte, v), Len(memory) \in Nat, ReadString
    PROVE  Reads(v, currentByte + Size(v) - 1)
<1> DEFINE W == WordsOf(v)
           start == currentByte + 3
           Is(n) == n \in 0 .. Len(memory) /\ At(start + n) = 0
                    /\ \A k \in 0 .. n - 1 : At(start + k) # 0
           n == CHOOSE n \in 0 .. Len(memory) :
                    At(start + n) = 0 /\ \A k \in 0 .. n - 1 : At(start + k) # 0
           z == Len(W) - 1
<1>1. /\ Len(W) \in Nat /\ Len(W) >= 1 /\ Size(v) = 3 + Len(W)
      /\ W[Len(W)] = 0 /\ \A k \in 1 .. Len(W) - 1 : W[k] # 0
      /\ Meaning(v) = [type |-> String, data |-> [k \in 1 .. Len(W) - 1 |-> W[k]]]
  BY StringWords, ValueWords
<1>2. Tag = String /\ \A k \in 1 .. Len(W) : At(start + k - 1) = W[k]
  BY WordsRead DEF Tag
<1>3. /\ result' = Append(result, [type |-> String, data |-> [k \in 1 .. n |-> At(start + k - 1)]])
      /\ currentByte' = start + n
      /\ UNCHANGED <<pc, sent, dataSize, body, memory, len>>
  BY DEF ReadString, Yields
<1> HIDE DEF W
<1>4. start \in Nat /\ z \in 0 .. Len(memory)
  BY <1>1 DEF Holds
<1>5. \A k \in 0 .. z - 1 : At(start + k) # 0
  <2>1. ASSUME NEW k \in 0 .. z - 1 PROVE At(start + k) # 0
    <3>1. k + 1 \in 1 .. Len(W) - 1 /\ k + 1 \in 1 .. Len(W) /\ start + (k + 1) - 1 = start + k
      BY <1>1, <1>4
    <3> HIDE DEF start
    <3> QED
      BY <1>1, <1>2, <3>1
  <2> QED
    BY <2>1
<1>6. At(start + z) = 0
  <2>1. Len(W) \in 1 .. Len(W) /\ start + Len(W) - 1 = start + z
    BY <1>1, <1>4
  <2> HIDE DEF start, z
  <2> QED
    BY <1>1, <1>2, <2>1
<1> HIDE DEF start, z
<1>7. Is(z)
  BY <1>4, <1>5, <1>6
<1>8. n = CHOOSE m : Is(m)
  OBVIOUS
<1> HIDE DEF n
<1>9. Is(n)
  <2> HIDE DEF Is
  <2> QED
    BY <1>7, <1>8
<1>10. n = z
  <2>1. ~(n \in 0 .. z - 1) /\ ~(z \in 0 .. n - 1)
    BY <1>5, <1>6, <1>9
  <2> QED
    BY <1>4, <1>9, <2>1
<1>11. [k \in 1 .. n |-> At(start + k - 1)] = [k \in 1 .. z |-> W[k]]
  BY <1>1, <1>2, <1>10 DEF z
<1>12. start + n = currentByte + Size(v) - 1
  BY <1>1, <1>10 DEF start, z
<1> QED
  BY <1>1, <1>3, <1>11, <1>12 DEF Reads, z

LEMMA ArrayRead ==
    ASSUME NEW v, PacketVariant(v), v.type \in Arrays, currentByte \in Nat,
           Holds(currentByte, v), Len(memory) \in Nat
    PROVE  /\ ReadArray => Reads(v, currentByte + Size(v))
           /\ Lengths # {}
<1> DEFINE W == WordsOf(v)
           w == Width[v.type]
           x == Largest(v.type)
<1>1. /\ w \in Nat /\ w >= 1 /\ Len(W) \in Nat /\ Len(W) >= 1 /\ W \in Seq(0 .. x)
      /\ Size(v) = 1 + w * Len(W) /\ Before(v) = 1
      /\ W[Len(W)] = x /\ \A k \in 1 .. Len(W) - 1 : W[k] # x
      /\ Meaning(v) = [type |-> v.type, data |-> W]
  BY ArrayWords, ValueWords, Widths DEF Arrays, Before
<1>2. Tag = v.type /\ \A k \in 1 .. Len(W) : WordAt(currentByte + Before(v) + (k - 1) * w, w) = W[k]
  BY WordsRead DEF Tag
<1>3. \A k \in 1 .. Len(W) : Element(k) = W[k]
  BY <1>1, <1>2 DEF Element
<1>4. Len(W) \in 1 .. Len(memory)
  <2> HIDE DEF W, w
  <2>1. w * Len(W) \in Nat /\ w * Len(W) >= Len(W)
    <3>1. PICK d \in Nat : w = 1 + d
      <4>1. w - 1 \in Nat /\ w = 1 + (w - 1)
        BY <1>1
      <4> QED
        BY <4>1
    <3>2. w * Len(W) = Len(W) + d * Len(W) /\ d * Len(W) \in Nat
      BY <1>1, <3>1
    <3> QED
      BY <1>1, <3>2
  <2>2. currentByte + (1 + w * Len(W)) <= Len(memory)
    BY <1>1 DEF Holds
  <2> HIDE DEF W, w
  <2> QED
    BY <1>1, <2>1, <2>2
<1> HIDE DEF W, w, x
<1>5. Lengths = {n \in 1 .. Len(memory) : Element(n) = x /\ \A k \in 1 .. n - 1 : Element(k) # x}
  BY <1>2 DEF Lengths, x
<1>6. Len(W) \in Lengths
  <2>1. \A k \in 1 .. Len(W) - 1 : k \in 1 .. Len(W)
    BY <1>1
  <2>2. Element(Len(W)) = x /\ \A k \in 1 .. Len(W) - 1 : Element(k) # x
    BY <1>1, <1>3, <2>1
  <2> QED
    BY <1>4, <1>5, <2>2
<1>7. ASSUME NEW n \in Lengths PROVE n = Len(W)
  <2>1. n \in 1 .. Len(memory) /\ Element(n) = x /\ \A k \in 1 .. n - 1 : Element(k) # x
    BY <1>5
  <2>2. ~(n \in 1 .. Len(W) - 1)
    <3>1. \A k \in 1 .. Len(W) - 1 : k \in 1 .. Len(W)
      BY <1>1
    <3> QED
      BY <1>1, <1>3, <2>1, <3>1
  <2>3. ~(Len(W) \in 1 .. n - 1)
    BY <1>1, <1>3, <2>1
  <2> QED
    BY <1>1, <2>1, <2>2, <2>3
<1>8. ASSUME ReadArray PROVE Reads(v, currentByte + Size(v))
  <2>1. PICK n \in Lengths :
           /\ result' = Append(result, [type |-> Tag, data |-> [k \in 1 .. n |-> Element(k)]])
           /\ currentByte' = currentByte + 1 + n * Width[Tag]
           /\ UNCHANGED <<pc, sent, dataSize, body, memory, len>>
    BY <1>8 DEF ReadArray, Yields
  <2>2. n = Len(W)
    BY <1>7
  <2>3. [k \in 1 .. n |-> Element(k)] = W
    <3>1. W = [k \in 1 .. Len(W) |-> W[k]]
      BY <1>1
    <3> QED
      BY <1>3, <2>2, <3>1
  <2>4. Width[Tag] = w
    BY <1>2 DEF w
  <2>5. currentByte + 1 + n * w = currentByte + Size(v)
    BY <1>1, <2>2
  <2> QED
    BY <1>1, <1>2, <2>1, <2>3, <2>4, <2>5 DEF Reads
<1> QED
  BY <1>6, <1>8

LEMMA ScalarRead ==
    ASSUME NEW v, PacketVariant(v), v.type \in Kinds, currentByte \in Nat,
           Holds(currentByte, v), ReadScalar
    PROVE  Reads(v, currentByte + Size(v))
<1> DEFINE W == WordsOf(v)
           w == Width[v.type]
<1>1. /\ w \in Nat /\ Len(W) = 1 /\ Size(v) = 1 + w /\ Before(v) = 1
      /\ Meaning(v) = [type |-> v.type, data |-> W[1]]
  BY ScalarWords, ValueWords, Widths DEF Kinds, Before
<1>2. Tag = v.type /\ \A k \in 1 .. Len(W) : WordAt(currentByte + Before(v) + (k - 1) * w, w) = W[k]
  BY WordsRead DEF Tag
<1> HIDE DEF W
<1>3. 1 \in 1 .. Len(W) /\ currentByte + Before(v) + (1 - 1) * w = currentByte + 1
  BY <1>1
<1>4. WordAt(currentByte + 1, w) = W[1]
  BY <1>2, <1>3
<1>5. /\ result' = Append(result, [type |-> Tag, data |-> WordAt(currentByte + 1, Width[Tag])])
      /\ currentByte' = currentByte + 1 + Width[Tag]
      /\ UNCHANGED <<pc, sent, dataSize, body, memory, len>>
  BY DEF ReadScalar, Yields
<1> QED
  BY <1>1, <1>2, <1>4, <1>5 DEF Reads

------------------------------------------------------------------------------
(* The sizes of a collection's beginnings *)

Collection(c) == c \in Seq(Range(c)) /\ \A v \in Range(c) : PacketVariant(v)

LEMMA Elements ==
    ASSUME NEW c, Collection(c)
    PROVE  Len(c) \in Nat /\ \A i \in 1 .. Len(c) : PacketVariant(c[i])
BY DEF Collection, Range

LEMMA SizePositive ==
    ASSUME NEW v, PacketVariant(v)
    PROVE  Size(v) \in Nat /\ Size(v) >= 1
<1> DEFINE z == Width[v.type] * Len(WordsOf(v))
<1>1. z \in Nat /\ Size(v) = Before(v) + z
  BY ValueWords
<1> HIDE DEF z
<1>2. Before(v) \in Nat /\ Before(v) >= 1
  BY DEF Before
<1> QED
  BY <1>1, <1>2

LEMMA SizesAre ==
    ASSUME NEW c, Collection(c)
    PROVE  /\ Sizes(c) \in [0 .. Len(c) -> Nat]
           /\ Sizes(c)[0] = 0
           /\ \A i \in 1 .. Len(c) : Sizes(c)[i] = Sizes(c)[i - 1] + Size(c[i])
<1> DEFINE n == Len(c)
           g == [i \in 1 .. n |-> [x \in Nat |-> x + Size(c[i])]]
           Is(f) == f = [i \in 0 .. n |-> IF i = 0 THEN 0 ELSE f[i - 1] + Size(c[i])]
<1>1. n \in Nat /\ \A i \in 1 .. n : Size(c[i]) \in Nat
  BY Elements, SizePositive
<1>2. g \in [1 .. n -> [Nat -> Nat]]
  BY <1>1
<1>3. PICK f \in [0 .. n -> Nat] : Loop(f, 0, g, n)
  <2> HIDE DEF g, n
  <2> QED
    BY <1>1, <1>2, LoopExists
<1>4. ASSUME NEW i \in 1 .. n, NEW x \in Nat PROVE g[i][x] = x + Size(c[i])
  OBVIOUS
<1> HIDE DEF g
<1>5. ASSUME NEW i \in 1 .. n PROVE f[i] = f[i - 1] + Size(c[i])
  <2>1. f[i - 1] \in Nat /\ f[i] = g[i][f[i - 1]]
    BY <1>1, <1>3 DEF Loop
  <2> QED
    BY <1>4, <2>1
<1>6. Is(f)
  BY <1>1, <1>3, <1>5 DEF Loop
<1> DEFINE e == Sizes(c)
<1>7. Is(e)
  <2>1. e = CHOOSE h : Is(h)
    BY DEF Sizes
  <2> HIDE DEF Is, e
  <2> QED
    BY <1>6, <2>1
<1>8. e = [i \in 0 .. n |-> IF i = 0 THEN 0 ELSE e[i - 1] + Size(c[i])]
  BY <1>7
<1> HIDE DEF e, Is, n
<1>9. e[0] = 0 /\ \A i \in 1 .. n : e[i] = e[i - 1] + Size(c[i])
  BY <1>1, <1>8
<1>10. \A i \in 0 .. n : e[i] \in Nat
  <2> DEFINE T == {i \in 0 .. n : e[i] \in Nat}
  <2>1. 0 \in T
    BY <1>1, <1>9
  <2>2. ASSUME NEW i \in 1 .. n, i - 1 \in T PROVE i \in T
    BY <1>1, <1>9, <2>2
  <2> HIDE DEF T
  <2>3. 0 .. n \subseteq T
    BY <1>1, <2>1, <2>2, UpTo
  <2> QED
    BY <2>3 DEF T
<1>11. e \in [0 .. n -> Nat]
  BY <1>8, <1>10
<1> QED
  BY <1>9, <1>11 DEF e, n

LEMMA SizesUpTo ==
    ASSUME NEW c, Collection(c), NEW m \in 0 .. Len(c), NEW k \in 0 .. m
    PROVE  Sizes(c)[k] <= Sizes(c)[m] /\ (k < m => Sizes(c)[k] < Sizes(c)[m])
<1> DEFINE n == Len(c)
           e == Sizes(c)
           T == {i \in 0 .. n : \A j \in 0 .. i : e[j] <= e[i] /\ (j < i => e[j] < e[i])}
<1>1. n \in Nat /\ \A i \in 1 .. n : Size(c[i]) \in Nat /\ Size(c[i]) >= 1
  BY Elements, SizePositive
<1>2. e \in [0 .. n -> Nat] /\ \A i \in 1 .. n : e[i] = e[i - 1] + Size(c[i])
  BY SizesAre
<1> HIDE DEF n, e
<1>3. 0 \in T
  BY <1>1, <1>2
<1>4. ASSUME NEW i \in 1 .. n, i - 1 \in T PROVE i \in T
  <2>1. e[i - 1] \in Nat /\ e[i] \in Nat /\ e[i - 1] < e[i]
    BY <1>1, <1>2
  <2>2. ASSUME NEW j \in 0 .. i, j # i PROVE e[j] < e[i]
    <3>1. j \in 0 .. i - 1 /\ e[j] \in Nat
      BY <1>1, <1>2, <2>2
    <3>2. e[j] <= e[i - 1]
      BY <1>4, <3>1
    <3> QED
      BY <2>1, <3>1, <3>2
  <2>3. ASSUME NEW j \in 0 .. i PROVE e[j] <= e[i] /\ (j < i => e[j] < e[i])
    <3>1. CASE j = i
      BY <2>1, <3>1
    <3>2. CASE j # i
      <4>1. e[j] \in Nat
        BY <1>1, <1>2
      <4> QED
        BY <2>1, <2>2, <3>2, <4>1
    <3> QED
      BY <3>1, <3>2
  <2> QED
    BY <1>1, <2>3
<1>5. m \in T
  <2> HIDE DEF T
  <2>1. 0 .. n \subseteq T
    BY <1>1, <1>3, <1>4, UpTo
  <2> QED
    BY <2>1 DEF n
<1> QED
  BY <1>5 DEF n, e

LEMMA FlattenIs ==
    ASSUME NEW S, NEW s \in Seq(Seq(S))
    PROVE  FlattenSeq(s) \in Seq(S)
<1> DEFINE n == Len(s)
           g == [i \in 1 .. n |-> [x \in Seq(S) |-> x \o s[i]]]
           Is(f) == f = [i \in 1 .. n |-> IF i = 1 THEN s[i] ELSE f[i - 1] \o s[i]]
<1>1. n \in Nat /\ \A i \in 1 .. n : s[i] \in Seq(S)
  OBVIOUS
<1>2. CASE n = 0
  <2>1. s = <<>>
    BY <1>2
  <2> QED
    BY <1>2, <2>1 DEF FlattenSeq
<1>3. CASE n # 0
  <2>1. g \in [1 .. n -> [Seq(S) -> Seq(S)]]
    <3>1. ASSUME NEW i \in 1 .. n, NEW x \in Seq(S) PROVE x \o s[i] \in Seq(S)
      BY <1>1, ConcatProperties
    <3> QED
      BY <3>1
  <2>2. PICK f \in [0 .. n -> Seq(S)] : Loop(f, <<>>, g, n)
    <3>1. <<>> \in Seq(S)
      OBVIOUS
    <3> HIDE DEF g, n
    <3> QED
      BY <1>1, <2>1, <3>1, LoopExists
  <2>3. ASSUME NEW i \in 1 .. n, NEW x \in Seq(S) PROVE g[i][x] = x \o s[i]
    OBVIOUS
  <2> DEFINE h == [i \in 1 .. n |-> f[i]]
  <2> HIDE DEF g
  <2>4. ASSUME NEW i \in 1 .. n PROVE f[i] = f[i - 1] \o s[i] /\ f[i - 1] \in Seq(S)
    <3>1. i - 1 \in 0 .. n
      BY <1>1
    <3> HIDE DEF n
    <3>2. f[i - 1] \in Seq(S)
      BY <2>2, <3>1
    <3>3. f[i] = g[i][f[i - 1]]
      BY <2>2 DEF Loop
    <3> QED
      BY <2>3, <3>2, <3>3
  <2>5. 1 \in 1 .. n /\ 1 - 1 = 0
    BY <1>1, <1>3
  <2>6. f[1] = s[1]
    <3>1. f[1] = f[1 - 1] \o s[1] /\ f[0] = <<>> /\ s[1] \in Seq(S)
      BY <1>1, <2>2, <2>4, <2>5 DEF Loop
    <3>2. <<>> \o s[1] = s[1]
      BY <3>1, ConcatEmptySeq
    <3> QED
      BY <2>5, <3>1, <3>2
  <2>7. Is(h)
    <3>1. ASSUME NEW i \in 1 .. n PROVE h[i] = IF i = 1 THEN s[i] ELSE h[i - 1] \o s[i]
      <4>1. CASE i = 1
        BY <2>6, <4>1
      <4>2. CASE i # 1
        <5>1. i - 1 \in 1 .. n
          BY <1>1, <4>2
        <5> QED
          BY <2>4, <4>2, <5>1
      <4> QED
        BY <4>1, <4>2
    <3> HIDE DEF h
    <3>2. h = [i \in 1 .. n |-> h[i]]
      BY DEF h
    <3> QED
      BY <3>1, <3>2
  <2> DEFINE e == CHOOSE j : Is(j)
  <2>8. Is(e)
    <3> HIDE DEF Is, h
    <3> QED
      BY <2>7
  <2>9. FlattenSeq(s) = e[n]
    BY <1>3 DEF FlattenSeq
  <2> HIDE DEF e
  <2>10. \A i \in 1 .. n : e[i] = IF i = 1 THEN s[i] ELSE e[i - 1] \o s[i]
    BY <2>8
  <2> HIDE DEF Is, n, h
  <2> DEFINE T == {i \in 0 .. n : i # 0 => e[i] \in Seq(S)}
  <2>11. 0 \in T
    BY <1>1
  <2>12. ASSUME NEW i \in 1 .. n, i - 1 \in T PROVE i \in T
    <3>1. CASE i = 1
      <4>1. e[i] = s[i]
        BY <2>10, <3>1
      <4>2. e[i] \in Seq(S)
        BY <1>1, <4>1
      <4> QED
        BY <1>1, <4>2
    <3>2. CASE i # 1
      <4>1. e[i - 1] \in Seq(S) /\ e[i] = e[i - 1] \o s[i] /\ s[i] \in Seq(S)
        <5>1. i - 1 # 0 /\ i - 1 \in 0 .. n
          BY <1>1, <3>2
        <5>2. e[i - 1] \in Seq(S)
          BY <2>12, <5>1
        <5>3. e[i] = e[i - 1] \o s[i]
          BY <2>10, <3>2
        <5>4. s[i] \in Seq(S)
          BY <1>1
        <5> QED
          BY <5>2, <5>3, <5>4
      <4>2. e[i] \in Seq(S)
        BY <4>1, ConcatProperties
      <4> QED
        BY <1>1, <4>2
    <3> QED
      BY <3>1, <3>2
  <2>13. n \in T
    <3> HIDE DEF T
    <3>1. 0 .. n \subseteq T
      BY <1>1, <2>11, <2>12, UpTo
    <3> QED
      BY <1>1, <3>1
  <2> QED
    BY <1>1, <1>3, <2>9, <2>13
<1> QED
  BY <1>2, <1>3

------------------------------------------------------------------------------
(* The invariant *)

Total == Sizes(sent)[Len(sent)]

(* The first k values of the collection have been written. *)
Written(k) ==
    /\ body \in Seq(0 .. Base - 1) /\ Len(body) = Sizes(sent)[k]
    /\ \A i \in 1 .. k : \A j \in 1 .. Size(sent[i]) :
          body[Sizes(sent)[i - 1] + j] = Encoded(sent[i])[j]

Writing ==
    /\ currentByte = 0
    /\ Len(result) \in 0 .. Len(sent) /\ Written(Len(result))

(* What the decoder gets. *)
Received ==
    /\ Written(Len(sent))
    /\ Len(memory) \in Nat /\ HeaderSize + dataSize <= Len(memory)
    /\ \A j \in 1 .. dataSize : memory[HeaderSize + j] = body[j]
    /\ len = dataSize + HeaderSize

Found(k) == Len(result) >= k /\ \A i \in 1 .. k : result[i] = Meaning(sent[i])

(* The decoder has read k values and is behind them, or at the zero of a string. *)
Behind(k) ==
    /\ k \in 0 .. Len(sent) /\ Len(result) = k /\ Found(k)
    /\ \/ currentByte = Sizes(sent)[k]
       \/ k > 0 /\ sent[k].type = String /\ currentByte = Sizes(sent)[k] - 1

Reading ==
    IF currentByte < dataSize THEN pc = "read" /\ \E k \in 0 .. Len(sent) : Behind(k)
                              ELSE Found(Len(sent))

SerializerInv ==
    /\ pc \in {"write", "read", "done", "astray"}
    /\ sent \in Collections /\ dataSize = Total
    /\ currentByte \in Nat /\ result \in Seq(Range(result))
    /\ pc = "write" => Writing
    /\ pc # "write" => Received /\ Reading

LEMMA Sent ==
    ASSUME sent \in Collections
    PROVE  /\ Collection(sent) /\ Len(sent) \in Nat /\ Total \in Nat
           /\ Total + HeaderSize < Base * Base /\ GetDataSize(sent) = Total
           /\ \A k \in 0 .. Len(sent) : Sizes(sent)[k] \in Nat /\ Sizes(sent)[k] <= Total
           /\ \A k \in 0 .. Len(sent) - 1 : Sizes(sent)[k] < Total
<1>1. Collection(sent) /\ Total + HeaderSize < Base * Base
  BY CollectionsAssumption DEF Collection, Total
<1>2. Len(sent) \in Nat
  BY <1>1, Elements
<1>3. \A k \in 0 .. Len(sent) : Sizes(sent)[k] \in Nat
  BY <1>1, SizesAre
<1>4. Total \in Nat
  BY <1>2, <1>3 DEF Total
<1>5. GetDataSize(sent) = Total
  <2> DEFINE b == Base * Base
  <2>1. b \in Nat /\ Total < b
    BY <1>1, <1>4, BaseAssumption DEF HeaderSize
  <2> HIDE DEF b
  <2>2. Total % b = Total
    BY <1>4, <2>1
  <2> QED
    BY <2>2 DEF GetDataSize, Total, b
<1>6. \A k \in 0 .. Len(sent) : Sizes(sent)[k] <= Total
  BY <1>1, <1>2, SizesUpTo DEF Total
<1>7. \A k \in 0 .. Len(sent) - 1 : Sizes(sent)[k] < Total
  BY <1>1, <1>2, SizesUpTo DEF Total
<1> QED
  BY <1>1, <1>2, <1>3, <1>4, <1>5, <1>6, <1>7

(* c is s followed by t. *)
Joins(c, s, t) ==
    /\ Len(c) = Len(s) + Len(t)
    /\ \A i \in 1 .. Len(s) : c[i] = s[i]
    /\ \A j \in 1 .. Len(t) : c[Len(s) + j] = t[j]

LEMMA Joint ==
    ASSUME NEW S, NEW s \in Seq(S), NEW t \in Seq(S)
    PROVE  s \o t \in Seq(S) /\ Joins(s \o t, s, t)
<1> DEFINE c == s \o t
           m == Len(s)
           n == Len(t)
<1>1. /\ m \in Nat /\ n \in Nat /\ c \in Seq(S) /\ Len(c) = m + n
      /\ \A i \in 1 .. m + n : c[i] = IF i <= m THEN s[i] ELSE t[i - m]
  BY ConcatProperties
<1> HIDE DEF c, m, n
<1>2. ASSUME NEW j \in 1 .. n PROVE c[m + j] = t[j]
  <2> DEFINE i == m + j
  <2>1. i \in 1 .. m + n /\ ~(i <= m) /\ i - m = j
    BY <1>1
  <2> HIDE DEF i
  <2>2. c[i] = t[j]
    BY <1>1, <2>1
  <2> QED
    BY <2>2 DEF i
<1>3. \A i \in 1 .. m : i \in 1 .. m + n /\ i <= m
  BY <1>1
<1> QED
  BY <1>1, <1>2, <1>3 DEF c, m, n, Joins

(* Result is a sequence, whatever is appended. *)
LEMMA Longer ==
    ASSUME NEW s, s \in Seq(Range(s)), NEW x
    PROVE  /\ Append(s, x) \in Seq(Range(Append(s, x))) /\ Len(Append(s, x)) = Len(s) + 1
           /\ Len(s) \in Nat /\ Append(s, x)[Len(s) + 1] = x
           /\ \A i \in 1 .. Len(s) : Append(s, x)[i] = s[i]
<1> DEFINE S == Range(s) \cup {x}
           a == Append(s, x)
<1>1. s \in Seq(S)
  <2>1. \A i \in 1 .. Len(s) : s[i] \in S
    BY DEF Range
  <2> QED
    BY <2>1
<1>2. /\ a \in Seq(S) /\ Len(a) = Len(s) + 1 /\ Len(s) \in Nat /\ a[Len(s) + 1] = x
      /\ \A i \in 1 .. Len(s) : a[i] = s[i]
  <2> HIDE DEF S
  <2> QED
    BY <1>1, AppendProperties DEF S
<1>3. a \in Seq(Range(a))
  <2> HIDE DEF a, S
  <2>1. \A i \in 1 .. Len(a) : a[i] \in Range(a)
    BY <1>2 DEF Range
  <2> QED
    BY <1>2, <2>1
<1> QED
  BY <1>2, <1>3

LEMMA InitOK == Init => SerializerInv
<1> SUFFICES ASSUME Init PROVE SerializerInv
  OBVIOUS
<1>1. sent \in Collections /\ dataSize = Total /\ pc = "write" /\ currentByte = 0
  BY Sent DEF Init
<1>2. result = <<>> /\ body = <<>> /\ Len(sent) \in Nat
  BY Sent DEF Init
<1>3. Sizes(sent)[0] = 0
  BY <1>1, Sent, SizesAre
<1>4. Written(0)
  BY <1>2, <1>3 DEF Written
<1>5. Len(result) = 0 /\ result \in Seq(Range(result))
  BY <1>2
<1> QED
  BY <1>1, <1>2, <1>4, <1>5 DEF SerializerInv, Writing

LEMMA SerializationOK ==
    ASSUME SerializerInv, Serialization
    PROVE  SerializerInv'
<1> DEFINE n == Len(result)
           v == sent[n + 1]
           e == Sizes(sent)
<1>1. /\ sent \in Collections /\ Collection(sent) /\ Len(sent) \in Nat
      /\ Writing /\ result \in Seq(Range(result))
  BY Sent DEF SerializerInv, Serialization
<1>2. n \in Nat /\ n < Len(sent) /\ n + 1 \in 1 .. Len(sent)
  BY <1>1 DEF Serialization, Writing
<1>3. /\ body' = body \o Encoded(v) /\ result' = Append(result, v)
      /\ UNCHANGED <<pc, sent, dataSize, memory, len, currentByte>> /\ pc = "write"
  BY DEF Serialization
<1>4. PacketVariant(v)
  BY <1>1, <1>2, Elements
<1>5. result' \in Seq(Range(result))' /\ Len(result') = n + 1
  BY <1>1, <1>3, Longer
<1>6. Encoded(v) \in Seq(0 .. Base - 1) /\ Len(Encoded(v)) = Size(v) /\ Size(v) \in Nat
  BY <1>4, EncodedIs, SizePositive
<1>7. e \in [0 .. Len(sent) -> Nat] /\ e[n + 1] = e[n] + Size(v)
  <2>1. e[n + 1] = e[(n + 1) - 1] + Size(sent[n + 1])
    BY <1>1, <1>2, SizesAre
  <2> QED
    BY <1>1, <1>2, <2>1, SizesAre
<1>8. /\ body \in Seq(0 .. Base - 1) /\ Len(body) = e[n]
      /\ \A i \in 1 .. n : \A j \in 1 .. Size(sent[i]) : body[e[i - 1] + j] = Encoded(sent[i])[j]
  BY <1>1 DEF Writing, Written
<1> HIDE DEF n, e
<1>9. e[n] \in Nat
  BY <1>2, <1>7
<1>10. /\ body' \in Seq(0 .. Base - 1) /\ Len(body') = e[n + 1]
       /\ \A i \in 1 .. e[n] : body'[i] = body[i]
       /\ \A j \in 1 .. Size(v) : body'[e[n] + j] = Encoded(v)[j]
  <2> DEFINE S == 0 .. Base - 1
             E == Encoded(v)
  <2>1. E \in Seq(S) /\ Len(E) = Size(v) /\ body \in Seq(S) /\ body' = body \o E
    BY <1>3, <1>6, <1>8
  <2> HIDE DEF S, E, v
  <2> DEFINE c == body \o E
  <2>2. c \in Seq(S) /\ Joins(c, body, E)
    BY <2>1, Joint
  <2> HIDE DEF c
  <2>3. body' = c
    BY <2>1 DEF c
  <2> QED
    BY <1>7, <1>8, <2>1, <2>2, <2>3 DEF S, E, Joins
<1>11. ASSUME NEW i \in 1 .. n + 1, NEW j \in 1 .. Size(sent[i])
       PROVE  body'[e[i - 1] + j] = Encoded(sent[i])[j]
  <2>1. CASE i = n + 1
    <3>1. i - 1 = n /\ j \in 1 .. Size(v)
      BY <1>2, <2>1
    <3> QED
      BY <1>10, <2>1, <3>1
  <2>2. CASE i # n + 1
    <3>1. i \in 1 .. n /\ i \in 1 .. Len(sent)
      BY <1>2, <2>2
    <3>2. e[i] = e[i - 1] + Size(sent[i]) /\ e[i - 1] \in Nat /\ Size(sent[i]) \in Nat
      <4>1. i - 1 \in 0 .. Len(sent)
        BY <1>1, <3>1
      <4> QED
        BY <1>1, <1>7, <3>1, <4>1, SizesAre, Elements, SizePositive DEF e
    <3>3. e[i] <= e[n]
      BY <1>1, <1>2, <3>1, SizesUpTo DEF e
    <3>4. e[i - 1] + j \in 1 .. e[n]
      BY <1>9, <3>2, <3>3
    <3> QED
      BY <1>8, <1>10, <3>1, <3>4
  <2> QED
    BY <2>1, <2>2
<1>12. sent' = sent /\ Len(result') \in 0 .. Len(sent) /\ Len(result') = n + 1
  BY <1>1, <1>2, <1>3, <1>5
<1>13. Written(Len(result))'
  BY <1>10, <1>11, <1>12 DEF Written, e
<1> QED
  BY <1>1, <1>3, <1>5, <1>12, <1>13 DEF SerializerInv, Writing, Total

------------------------------------------------------------------------------
(* The packet arrives. *)

LEMMA LargestWord == LargestOf(2) = Base * Base - 1
<1> DEFINE u == [i \in 1 .. 2 |-> Base - 1]
           J == Joined(u)
<1>1. u \in Seq(Nat) /\ Len(u) = 2 /\ u[1] = Base - 1 /\ u[2] = Base - 1
  BY BaseAssumption DEF Wides
<1> HIDE DEF u
<1>2. J[1] = u[1] + Base * J[1 + 1] /\ J[2] = u[2] + Base * J[2 + 1] /\ J[2 + 1] = 0
  BY <1>1, JoinedIs
<1> HIDE DEF J
<1>3. 1 + 1 = 2 /\ Base \in Nat
  BY BaseAssumption
<1>4. J[2] = Base - 1
  BY <1>1, <1>2, <1>3
<1>5. J[1] = Base - 1 + Base * (Base - 1)
  BY <1>1, <1>2, <1>3, <1>4
<1>6. Base - 1 + Base * (Base - 1) = Base * Base - 1
  BY <1>3
<1> QED
  BY <1>5, <1>6 DEF LargestOf, FromBytes, J, u

LEMMA HeaderIs ==
    ASSUME NEW n \in Nat, NEW id \in Ids
    PROVE  /\ Header(n, id) \in Seq(0 .. Base - 1) /\ Len(Header(n, id)) = HeaderSize
           /\ \A i \in 1 .. 2 : Header(n, id)[i] = ToBytes(n, 2)[i]
<1> DEFINE S == 0 .. Base - 1
           a == ToBytes(n, 2)
           b == ToBytes(id, 2)
<1>1. id \in Nat
  <2> DEFINE z == Base * Base - 1
  <2>1. Ids \subseteq 0 .. z
    BY IdsAssumption
  <2> HIDE DEF z
  <2> QED
    BY <2>1
<1>2. a \in Seq(S) /\ b \in Seq(S) /\ Len(a) = 2 /\ Len(b) = 2
  BY <1>1, BytesAre
<1> HIDE DEF a, b, S
<1>3. a \o b \in Seq(S) /\ Joins(a \o b, a, b)
  BY <1>2, Joint
<1> QED
  BY <1>2, <1>3 DEF Header, HeaderSize, Joins, a, b, S

LEMMA PacketIs ==
    ASSUME NEW c \in Others, NEW id \in Ids
    PROVE  Packet(c, id) \in Seq(0 .. Base - 1)
<1> DEFINE S == 0 .. Base - 1
           n == GetDataSize(c) + HeaderSize
           e == [i \in DOMAIN c |-> Encoded(c[i])]
<1>1. Collection(c) /\ Len(c) \in Nat /\ \A i \in 1 .. Len(c) : PacketVariant(c[i])
  BY CollectionsAssumption, Elements DEF Collection
<1>2. n \in Nat
  <2> DEFINE z == Base * Base
             x == Sizes(c)[Len(c)]
  <2>1. z \in Nat /\ z > 0
    BY BaseAssumption DEF Wides
  <2>2. x \in Nat
    BY <1>1, SizesAre
  <2> HIDE DEF z, x
  <2>3. x % z \in Nat
    BY <2>1, <2>2
  <2> QED
    BY <2>3 DEF GetDataSize, HeaderSize, z, x
<1>3. \A i \in 1 .. Len(c) : Encoded(c[i]) \in Seq(S)
  BY <1>1, EncodedIs
<1>4. DOMAIN c = 1 .. Len(c)
  BY <1>1 DEF Collection
<1> HIDE DEF S, n
<1>5. e \in Seq(Seq(S))
  BY <1>1, <1>3, <1>4
<1> HIDE DEF e
<1>6. Header(n, id) \in Seq(S)
  BY <1>2, HeaderIs DEF S
<1>7. FlattenSeq(e) \in Seq(S)
  BY <1>5, FlattenIs
<1>8. Header(n, id) \o FlattenSeq(e) \in Seq(S)
  BY <1>6, <1>7, Joint
<1> QED
  BY <1>8 DEF Packet, S, n, e

LEMMA OnRecvPacketOK ==
    ASSUME SerializerInv, OnRecvPacket
    PROVE  SerializerInv'
<1> DEFINE S == 0 .. Base - 1
           n == dataSize + HeaderSize
<1>1. /\ sent \in Collections /\ Collection(sent) /\ Len(sent) \in Nat
      /\ dataSize = Total /\ dataSize \in Nat /\ n < Base * Base /\ currentByte = 0
      /\ Written(Len(sent))
  BY Sent DEF SerializerInv, OnRecvPacket, Writing
<1>2. body \in Seq(S) /\ Len(body) = dataSize
  BY <1>1 DEF Written, Total
<1>3. /\ len' = FromBytes(SubSeq(memory', 1, 2)) /\ pc' = "read" /\ result' = <<>>
      /\ UNCHANGED <<sent, dataSize, body, currentByte>>
  BY DEF OnRecvPacket
<1>4. PICK id \in Ids, c \in Others, k \in Int :
         memory' = Header(n, id) \o body \o SubSeq(Packet(c, id), k, Len(Packet(c, id)))
  <2>1. PICK id \in Ids, c \in Others : \E k \in 1 .. HeaderSize + GetDataSize(c) + 1 :
           memory' = Header(n, id) \o body \o SubSeq(Packet(c, id), k, Len(Packet(c, id)))
    BY DEF OnRecvPacket
  <2>2. \A k \in 1 .. HeaderSize + GetDataSize(c) + 1 : k \in Int
    OBVIOUS
  <2> QED
    BY <2>1, <2>2
<1> DEFINE h == Header(n, id)
           next == Packet(c, id)
           t == SubSeq(next, k, Len(next))
<1>5. h \in Seq(S) /\ Len(h) = HeaderSize /\ \A i \in 1 .. 2 : h[i] = ToBytes(n, 2)[i]
  BY <1>1, HeaderIs DEF HeaderSize
<1>6. t \in Seq({next[i] : i \in k .. Len(next)})
  <2>1. next \in Seq(S)
    BY PacketIs
  <2> HIDE DEF next, S
  <2>2. Len(next) \in Int /\ \A i \in k .. Len(next) : next[i] \in {next[j] : j \in k .. Len(next)}
    BY <2>1
  <2> QED
    BY <2>2, SubSeqProperties
<1>7. memory' = (h \o body) \o t
  BY <1>4
<1> DEFINE U == S \cup {next[i] : i \in k .. Len(next)}
           m == (h \o body) \o t
<1>8. h \in Seq(U) /\ body \in Seq(U) /\ t \in Seq(U)
  <2> DEFINE R == {next[i] : i \in k .. Len(next)}
  <2> HIDE DEF h, t, S, R
  <2>1. h \in Seq(S) /\ body \in Seq(S) /\ t \in Seq(R)
    BY <1>2, <1>5, <1>6 DEF R
  <2>2. h \in Seq(S \cup R) /\ body \in Seq(S \cup R) /\ t \in Seq(S \cup R)
    BY <2>1
  <2> QED
    BY <2>2 DEF R
<1> HIDE DEF h, t, U
<1>9. /\ Len(m) \in Nat /\ Len(m) >= HeaderSize + dataSize
      /\ \A i \in 1 .. 2 : m[i] = h[i]
      /\ \A j \in 1 .. dataSize : m[HeaderSize + j] = body[j]
  <2> DEFINE p == h \o body
  <2>1. p \in Seq(U) /\ Joins(p, h, body)
    BY <1>8, Joint
  <2> HIDE DEF p
  <2>2. m \in Seq(U) /\ Joins(m, p, t)
    <3>1. p \o t \in Seq(U) /\ Joins(p \o t, p, t)
      BY <1>8, <2>1, Joint
    <3>2. m = p \o t
      BY DEF p
    <3> QED
      BY <3>1, <3>2
  <2> HIDE DEF m
  <2>3. Len(p) = HeaderSize + dataSize /\ Len(t) \in Nat
    BY <1>2, <1>5, <1>8, <2>1 DEF Joins
  <2>4. /\ \A i \in 1 .. HeaderSize + dataSize : m[i] = p[i]
        /\ \A i \in 1 .. HeaderSize : p[i] = h[i]
        /\ \A j \in 1 .. dataSize : p[HeaderSize + j] = body[j]
    BY <1>2, <1>5, <2>1, <2>2, <2>3 DEF Joins
  <2>5. \A i \in 1 .. 2 : i \in 1 .. HeaderSize + dataSize /\ i \in 1 .. HeaderSize
    BY <1>1 DEF HeaderSize
  <2>6. \A j \in 1 .. dataSize : HeaderSize + j \in 1 .. HeaderSize + dataSize
    BY <1>1 DEF HeaderSize
  <2>7. Len(m) \in Nat /\ Len(m) >= HeaderSize + dataSize
    BY <1>1, <2>2, <2>3 DEF HeaderSize, Joins
  <2> QED
    BY <2>4, <2>5, <2>6, <2>7
<1>10. m \in Seq(U)
  <2>1. h \o body \in Seq(U)
    BY <1>8, Joint
  <2> QED
    BY <1>8, <2>1, Joint
<1>11. memory' = m
  BY <1>7
<1> HIDE DEF m
<1>12. len' = n
  <2> DEFINE b == ToBytes(n, 2)
             s == SubSeq(m, 1, 2)
  <2>1. 2 \in 0 .. Len(m)
    BY <1>1, <1>9 DEF HeaderSize
  <2>2. s \in Seq(U) /\ Len(s) = 2 /\ \A i \in 1 .. 2 : s[i] = m[i]
    BY <1>10, <2>1, Initial
  <2>3. n \in Nat /\ b \in Seq(Nat) /\ Len(b) = 2
    <3>1. n \in Nat
      BY <1>1 DEF HeaderSize
    <3> HIDE DEF n
    <3> QED
      BY <3>1, BytesAre
  <2>4. \A i \in 1 .. 2 : s[i] = b[i]
    BY <1>5, <1>9, <2>2
  <2> HIDE DEF s, b, n
  <2>5. s = b
    <3>1. s = [i \in 1 .. 2 |-> s[i]] /\ b = [i \in 1 .. 2 |-> b[i]]
      BY <2>2, <2>3
    <3> QED
      BY <2>4, <3>1
  <2>6. n \in 0 .. LargestOf(2)
    <3> DEFINE z == Base * Base
    <3>1. z \in Nat /\ n < z /\ LargestOf(2) = z - 1
      BY <1>1, LargestWord, BaseAssumption DEF n
    <3> HIDE DEF z
    <3> QED
      BY <2>3, <3>1
  <2>7. FromBytes(b) = n
    BY <2>6, WordReadBack DEF b
  <2> QED
    BY <1>3, <1>11, <2>5, <2>7 DEF s
<1>13. Received'
  BY <1>1, <1>3, <1>9, <1>11, <1>12 DEF Received, Written, n
<1>14. Len(result') = 0 /\ result' \in Seq(Range(result))'
  BY <1>3
<1>15. Behind(0)'
  <2>1. Sizes(sent)[0] = 0
    BY <1>1, SizesAre
  <2> QED
    BY <1>1, <1>3, <1>14, <2>1 DEF Behind, Found
<1>16. Reading'
  <2>1. CASE dataSize > 0
    BY <1>1, <1>3, <1>15, <2>1 DEF Reading
  <2>2. CASE ~(dataSize > 0)
    <3>1. Len(sent) = 0
      <4> SUFFICES ASSUME Len(sent) # 0 PROVE FALSE
        OBVIOUS
      <4>1. 0 \in 0 .. Len(sent) - 1 /\ Sizes(sent)[0] < Total
        BY <1>1, Sent
      <4>2. Sizes(sent)[0] = 0
        BY <1>1, SizesAre
      <4> QED
        BY <1>1, <2>2, <4>1, <4>2
    <3> QED
      BY <1>1, <1>3, <1>14, <2>2, <3>1 DEF Reading, Found
  <2> QED
    BY <2>1, <2>2
<1> QED
  BY <1>1, <1>3, <1>13, <1>14, <1>16 DEF SerializerInv, Total

------------------------------------------------------------------------------
(* The decoder in the packet *)

LEMMA Holding ==
    ASSUME sent \in Collections, dataSize = Total, Received, NEW k \in 0 .. Len(sent) - 1
    PROVE  /\ Holds(Sizes(sent)[k], sent[k + 1]) /\ PacketVariant(sent[k + 1])
           /\ Sizes(sent)[k] \in Nat /\ Size(sent[k + 1]) \in Nat /\ Len(memory) \in Nat
           /\ Sizes(sent)[k + 1] = Sizes(sent)[k] + Size(sent[k + 1])
<1> DEFINE o == Sizes(sent)[k]
           v == sent[k + 1]
           z == Size(v)
<1>1. Collection(sent) /\ Len(sent) \in Nat /\ Total \in Nat
  BY Sent
<1>2. k + 1 \in 1 .. Len(sent) /\ (k + 1) - 1 = k /\ k \in 0 .. Len(sent) /\ k + 1 \in 0 .. Len(sent)
  BY <1>1
<1>3. PacketVariant(v) /\ z \in Nat
  BY <1>1, <1>2, Elements, SizePositive
<1>4. o \in Nat /\ Sizes(sent)[k + 1] = o + z /\ o + z <= Total
  <2>1. Sizes(sent)[k + 1] = Sizes(sent)[(k + 1) - 1] + z
    BY <1>1, <1>2, SizesAre
  <2>2. Sizes(sent)[k] \in Nat /\ Sizes(sent)[k + 1] <= Total
    BY <1>2, Sent
  <2> QED
    BY <1>2, <2>1, <2>2
<1>5. \A j \in 1 .. z : body[o + j] = Encoded(v)[j]
  <2>1. \A j \in 1 .. z : body[Sizes(sent)[(k + 1) - 1] + j] = Encoded(v)[j]
    BY <1>2 DEF Received, Written
  <2> QED
    BY <1>2, <2>1
<1>6. /\ Len(memory) \in Nat /\ HeaderSize + Total <= Len(memory)
      /\ \A j \in 1 .. Total : memory[HeaderSize + j] = body[j]
  BY DEF Received
<1> HIDE DEF o, v, z
<1>7. ASSUME NEW j \in 1 .. z PROVE At(o + j - 1) = Encoded(v)[j]
  <2> DEFINE i == o + j
  <2>1. i \in 1 .. Total /\ i = o + j
    BY <1>1, <1>3, <1>4
  <2>2. o + j - 1 = i - 1
    BY <1>3, <1>4
  <2>3. body[i] = Encoded(v)[j]
    BY <1>5
  <2> HIDE DEF i
  <2>4. HeaderSize + (i - 1) < Len(memory) /\ HeaderSize + (i - 1) + 1 = HeaderSize + i
    BY <1>1, <1>6, <2>1 DEF HeaderSize
  <2>5. At(i - 1) = memory[HeaderSize + i]
    BY <2>4 DEF At
  <2> QED
    BY <1>6, <2>1, <2>2, <2>3, <2>5
<1>8. o + z <= Len(memory)
  BY <1>1, <1>3, <1>4, <1>6 DEF HeaderSize
<1> QED
  BY <1>3, <1>4, <1>6, <1>7, <1>8 DEF Holds, o, v, z

(* Behind the text of a string the decoder sees its zero. *)
LEMMA ZeroSeen ==
    ASSUME sent \in Collections, dataSize = Total, Received,
           NEW k \in 1 .. Len(sent), sent[k].type = String
    PROVE  At(Sizes(sent)[k] - 1) = 0
<1> DEFINE m == k - 1
           v == sent[k]
           W == WordsOf(v)
           o == Sizes(sent)[m]
<1>1. Len(sent) \in Nat
  BY Sent
<1>2. m \in 0 .. Len(sent) - 1 /\ m + 1 = k
  BY <1>1
<1>3. /\ Holds(o, v) /\ PacketVariant(v) /\ o \in Nat
      /\ Sizes(sent)[k] = o + Size(v)
  <2> HIDE DEF m
  <2>1. Holds(o, sent[m + 1]) /\ PacketVariant(sent[m + 1]) /\ o \in Nat
        /\ Sizes(sent)[m + 1] = o + Size(sent[m + 1])
    BY <1>2, Holding
  <2> QED
    BY <1>2, <2>1
<1>4. Len(W) \in Nat /\ Len(W) >= 1 /\ Size(v) = 3 + Len(W) /\ W[Len(W)] = 0
  BY <1>3, StringWords, ValueWords
<1>5. \A j \in 1 .. Len(W) : At(o + 3 + j - 1) = W[j]
  BY <1>3, WordsRead
<1> HIDE DEF W, o, v
<1>6. Len(W) \in 1 .. Len(W) /\ Sizes(sent)[k] - 1 = o + 3 + Len(W) - 1
  BY <1>3, <1>4
<1> QED
  BY <1>4, <1>5, <1>6

(* Behind k values the packet ends only if there are no more. *)
LEMMA AtTheEnd ==
    ASSUME sent \in Collections, NEW k \in 0 .. Len(sent), NEW b,
           b = Sizes(sent)[k] \/ (k > 0 /\ b = Sizes(sent)[k] - 1), ~(b < Total)
    PROVE  k = Len(sent)
<1>1. SUFFICES ASSUME k # Len(sent) PROVE FALSE
  OBVIOUS
<1>2. Len(sent) \in Nat /\ Total \in Nat
  BY Sent
<1>3. k \in 0 .. Len(sent) - 1
  BY <1>1, <1>2
<1>4. Sizes(sent)[k] \in Nat /\ Sizes(sent)[k] < Total
  BY <1>3, Sent
<1> QED
  BY <1>2, <1>4

LEMMA ReadsOK ==
    ASSUME SerializerInv, pc = "read", NEW k \in 0 .. Len(sent) - 1, Behind(k),
           currentByte = Sizes(sent)[k], NEW end, Reads(sent[k + 1], end),
           \/ end = currentByte + Size(sent[k + 1])
           \/ sent[k + 1].type = String /\ end = currentByte + Size(sent[k + 1]) - 1
    PROVE  SerializerInv'
<1> DEFINE v == sent[k + 1]
           n == k + 1
<1>1. /\ sent \in Collections /\ dataSize = Total /\ Received
      /\ Len(sent) \in Nat /\ Collection(sent) /\ result \in Seq(Range(result))
  BY Sent DEF SerializerInv
<1>2. /\ PacketVariant(v) /\ Sizes(sent)[k] \in Nat /\ Size(v) \in Nat /\ Size(v) >= 1
      /\ Sizes(sent)[n] = Sizes(sent)[k] + Size(v)
  BY <1>1, Holding, SizePositive
<1>3. /\ result' = Append(result, Meaning(v)) /\ currentByte' = end
      /\ UNCHANGED <<pc, sent, dataSize, body, memory, len>>
  BY DEF Reads
<1>4. n \in 1 .. Len(sent) /\ n \in 0 .. Len(sent) /\ n > 0 /\ k \in Nat
  BY <1>1
<1>5. Len(result) = k /\ \A i \in 1 .. k : result[i] = Meaning(sent[i])
  BY DEF Behind, Found
<1>6. /\ result' \in Seq(Range(result))' /\ Len(result') = n
      /\ \A i \in 1 .. n : result'[i] = Meaning(sent[i])
  <2> DEFINE x == Meaning(v)
             r == Append(result, x)
  <2>1. /\ r \in Seq(Range(r)) /\ Len(r) = k + 1 /\ r[k + 1] = x
        /\ \A i \in 1 .. k : r[i] = result[i]
    <3> HIDE DEF x
    <3> QED
      BY <1>1, <1>5, Longer
  <2>2. \A i \in 1 .. n : i = n \/ i \in 1 .. k
    BY <1>4
  <2>3. \A i \in 1 .. n : r[i] = Meaning(sent[i])
    <3> HIDE DEF r
    <3> QED
      BY <1>5, <2>1, <2>2
  <2>4. result' = r
    BY <1>3
  <2> HIDE DEF r
  <2> QED
    BY <2>1, <2>3, <2>4
<1> HIDE DEF v
<1>7. currentByte' \in Nat /\ \/ currentByte' = Sizes(sent)[n]
                              \/ sent[n].type = String /\ currentByte' = Sizes(sent)[n] - 1
  BY <1>2, <1>3 DEF v
<1> HIDE DEF n
<1>8. Behind(n)'
  BY <1>1, <1>3, <1>4, <1>6, <1>7 DEF Behind, Found
<1>9. Reading'
  <2>1. CASE currentByte' < dataSize
    BY <1>3, <1>4, <1>8, <2>1 DEF Reading
  <2>2. CASE ~(currentByte' < dataSize)
    <3>1. n = Len(sent)
      BY <1>1, <1>4, <1>7, <2>2, AtTheEnd
    <3> QED
      BY <1>3, <1>6, <1>4, <2>2, <3>1 DEF Reading, Found
  <2> QED
    BY <2>1, <2>2
<1>10. Received'
  BY <1>1, <1>3 DEF Received, Written
<1> QED
  BY <1>1, <1>3, <1>6, <1>7, <1>9, <1>10 DEF SerializerInv, Total

LEMMA WithinOK ==
    ASSUME SerializerInv, pc = "read", currentByte < dataSize, Deserialization
    PROVE  SerializerInv'
<1>1. /\ sent \in Collections /\ dataSize = Total /\ Received /\ Reading
      /\ Len(sent) \in Nat /\ Total \in Nat /\ currentByte \in Nat
  BY Sent DEF SerializerInv
<1>2. PICK k \in 0 .. Len(sent) : Behind(k)
  BY <1>1 DEF Reading
<1>3. ~Return
  BY <1>1 DEF Return, Received, HeaderSize
<1>4. CASE currentByte = Sizes(sent)[k]
  <2> DEFINE v == sent[k + 1]
  <2>1. k \in 0 .. Len(sent) - 1
    <3>1. k # Len(sent)
      BY <1>1, <1>4 DEF Total
    <3> QED
      BY <1>1, <3>1
  <2>2. Holds(currentByte, v) /\ PacketVariant(v) /\ Len(memory) \in Nat
    BY <1>1, <1>4, <2>1, Holding
  <2>3. Tag = v.type /\ v.type \in Types
    BY <1>1, <2>2, WordsRead, VariantIs DEF Tag
  <2> DEFINE z == Size(v)
  <2>4. CASE ReadScalar
    <3>1. v.type \in Kinds
      BY <2>3, <2>4 DEF ReadScalar, Kinds
    <3>2. Reads(v, currentByte + z)
      BY <1>1, <2>2, <2>4, <3>1, ScalarRead
    <3> QED
      BY <1>2, <1>4, <2>1, <3>2, ReadsOK
  <2>5. CASE ReadString
    <3>1. v.type = String
      BY <2>3, <2>5 DEF ReadString
    <3>2. Reads(v, currentByte + z - 1)
      BY <1>1, <2>2, <2>5, <3>1, StringRead
    <3> QED
      BY <1>2, <1>4, <2>1, <3>1, <3>2, ReadsOK
  <2>6. CASE ReadArray
    <3>1. v.type \in Arrays
      BY <2>3, <2>6 DEF ReadArray, Arrays
    <3>2. Reads(v, currentByte + z)
      BY <1>1, <2>2, <2>6, <3>1, ArrayRead
    <3> QED
      BY <1>2, <1>4, <2>1, <3>2, ReadsOK
  <2>7. CASE RunAway
    <3>1. v.type \in Arrays /\ Lengths = {}
      BY <2>3, <2>7 DEF RunAway, Arrays
    <3> QED
      BY <1>1, <2>2, <3>1, ArrayRead
  <2>8. CASE SkipByte
    BY <2>3, <2>8 DEF SkipByte
  <2> QED
    BY <1>3, <2>4, <2>5, <2>6, <2>7, <2>8 DEF Deserialization
<1>5. CASE currentByte # Sizes(sent)[k]
  <2>1. k > 0 /\ sent[k].type = String /\ currentByte = Sizes(sent)[k] - 1
    BY <1>2, <1>5 DEF Behind
  <2>2. Sizes(sent)[k] \in Nat /\ k \in 1 .. Len(sent)
    BY <1>1, <2>1, Sent
  <2>3. Tag = 0
    BY <1>1, <2>1, <2>2, ZeroSeen DEF Tag
  <2>4. SkipByte
    BY <1>3, <2>3 DEF Deserialization, ReadScalar, ReadString, ReadArray, RunAway, Byte, Word,
          String, Wide, Words, Wides
  <2>5. /\ currentByte' = Sizes(sent)[k] /\ currentByte' \in Nat
        /\ UNCHANGED <<pc, sent, dataSize, body, memory, len, result>>
    BY <2>1, <2>2, <2>4 DEF SkipByte
  <2>6. Behind(k)'
    BY <1>2, <2>5 DEF Behind, Found
  <2>7. Reading'
    <3>1. CASE currentByte' < dataSize
      BY <2>5, <2>6, <3>1 DEF Reading
    <3>2. CASE ~(currentByte' < dataSize)
      <4>1. k = Len(sent)
        BY <1>1, <2>5, <3>2, AtTheEnd
      <4> QED
        BY <2>5, <2>6, <3>2, <4>1 DEF Reading, Behind
    <3> QED
      BY <3>1, <3>2
  <2>8. Received' /\ result' \in Seq(Range(result))'
    BY <1>1, <2>5 DEF Received, Written, SerializerInv
  <2> QED
    BY <1>1, <2>5, <2>7, <2>8 DEF SerializerInv, Total
<1> QED
  BY <1>4, <1>5

------------------------------------------------------------------------------
(* The decoder behind the packet *)

(* There is a zero behind every place: that of the unused buffer at last. *)
LEMMA StringEnds ==
    ASSUME NEW start \in Nat, Len(memory) \in Nat
    PROVE  \E n \in 0 .. Len(memory) : At(start + n) = 0 /\ \A k \in 0 .. n - 1 : At(start + k) # 0
<1> DEFINE l == Len(memory)
           T == {n \in 0 .. l : At(start + n) = 0}
<1>1. ~(HeaderSize + (start + l) < l) /\ l \in 0 .. l
  BY DEF HeaderSize
<1>2. At(start + l) = 0
  BY <1>1 DEF At
<1> HIDE DEF l
<1>3. PICK n \in T : \A m \in T : n <= m
  <2>1. T \subseteq Nat /\ T # {}
    BY <1>1, <1>2
  <2> HIDE DEF T
  <2> QED
    BY <2>1, Smallest
<1>4. \A k \in 0 .. n - 1 : At(start + k) # 0
  <2>1. l \in Nat
    BY DEF l
  <2>2. \A k \in 0 .. n - 1 : k \in 0 .. l /\ ~(n <= k)
    BY <1>3, <2>1
  <2> QED
    BY <1>3, <2>2
<1> QED
  BY <1>3, <1>4 DEF l

(* No step of the decoder takes back what it has read, or goes back. *)
LEMMA Forwards ==
    ASSUME SerializerInv, pc = "read", Deserialization
    PROVE  /\ result' = result \/ \E x : result' = Append(result, x)
           /\ currentByte' \in Nat /\ currentByte' >= currentByte
           /\ pc' \in {"read", "done", "astray"}
           /\ UNCHANGED <<sent, dataSize, body, memory, len>>
<1>1. currentByte \in Nat /\ Len(memory) \in Nat
  BY DEF SerializerInv, Received
<1>2. CASE ReadScalar
  <2> DEFINE w == Width[Tag]
  <2>1. w \in Nat
    BY <1>2, Widths DEF ReadScalar
  <2>2. /\ \E x : result' = Append(result, x)
        /\ currentByte' = currentByte + 1 + w
        /\ pc' = pc /\ UNCHANGED <<sent, dataSize, body, memory, len>>
    BY <1>2 DEF ReadScalar, Yields
  <2> HIDE DEF w
  <2> QED
    BY <1>1, <2>1, <2>2
<1>3. CASE ReadString
  <2> DEFINE start == currentByte + 3
             Is(n) == /\ n \in 0 .. Len(memory) /\ At(start + n) = 0
                      /\ \A k \in 0 .. n - 1 : At(start + k) # 0
             n == CHOOSE n \in 0 .. Len(memory) :
                      At(start + n) = 0 /\ \A k \in 0 .. n - 1 : At(start + k) # 0
  <2>1. start \in Nat
    BY <1>1
  <2>2. /\ \E x : result' = Append(result, x)
        /\ currentByte' = start + n
        /\ pc' = pc /\ UNCHANGED <<sent, dataSize, body, memory, len>>
    BY <1>3 DEF ReadString, Yields
  <2>3. n \in 0 .. Len(memory)
    <3> HIDE DEF start
    <3>1. PICK l \in 0 .. Len(memory) : Is(l)
      BY <1>1, <2>1, StringEnds
    <3>2. n = CHOOSE m : Is(m)
      OBVIOUS
    <3> HIDE DEF n
    <3>3. Is(n)
      <4> HIDE DEF Is
      <4> QED
        BY <3>1, <3>2
    <3> QED
      BY <3>3
  <2> HIDE DEF n
  <2>4. start + n \in Nat /\ start + n >= currentByte
    BY <1>1, <2>3
  <2> HIDE DEF start
  <2> QED
    BY <2>2, <2>4
<1>4. CASE ReadArray
  <2> DEFINE w == Width[Tag]
  <2>1. w \in Nat
    BY <1>4, Widths DEF ReadArray
  <2>2. PICK n \in Lengths :
           /\ result' = Append(result, [type |-> Tag, data |-> [k \in 1 .. n |-> Element(k)]])
           /\ currentByte' = currentByte + 1 + n * w
           /\ pc' = pc /\ UNCHANGED <<sent, dataSize, body, memory, len>>
    BY <1>4 DEF ReadArray, Yields
  <2>3. n \in Nat
    BY <1>1 DEF Lengths
  <2> HIDE DEF w
  <2>4. n * w \in Nat
    BY <2>1, <2>3
  <2> DEFINE x == [type |-> Tag, data |-> [k \in 1 .. n |-> Element(k)]]
  <2>5. result' = Append(result, x)
    BY <2>2
  <2> HIDE DEF x
  <2>6. currentByte' \in Nat /\ currentByte' >= currentByte
    BY <1>1, <2>2, <2>4
  <2> QED
    BY <2>2, <2>5, <2>6
<1>5. CASE RunAway
  BY <1>1, <1>5 DEF RunAway
<1>6. CASE SkipByte
  BY <1>1, <1>6 DEF SkipByte
<1>7. CASE Return
  BY <1>1, <1>7 DEF Return
<1> QED
  BY <1>2, <1>3, <1>4, <1>5, <1>6, <1>7 DEF Deserialization

LEMMA BeyondOK ==
    ASSUME SerializerInv, pc = "read", ~(currentByte < dataSize), Deserialization
    PROVE  SerializerInv'
<1> DEFINE n == Len(sent)
<1>1. /\ sent \in Collections /\ dataSize = Total /\ Total \in Nat /\ Received
      /\ n \in Nat /\ currentByte \in Nat /\ result \in Seq(Range(result))
      /\ Len(result) >= n /\ \A i \in 1 .. n : result[i] = Meaning(sent[i])
  BY Sent DEF SerializerInv, Reading, Found
<1>2. /\ result' = result \/ \E x : result' = Append(result, x)
      /\ currentByte' \in Nat /\ currentByte' >= currentByte
      /\ pc' \in {"read", "done", "astray"}
      /\ UNCHANGED <<sent, dataSize, body, memory, len>>
  BY Forwards
<1> HIDE DEF n
<1>3. /\ result' \in Seq(Range(result))' /\ Len(result') >= n
      /\ \A i \in 1 .. n : result'[i] = Meaning(sent[i])
  <2>1. CASE result' = result
    BY <1>1, <2>1
  <2>2. ASSUME NEW x, result' = Append(result, x)
        PROVE  /\ result' \in Seq(Range(result))' /\ Len(result') >= n
               /\ \A i \in 1 .. n : result'[i] = Meaning(sent[i])
    <3> DEFINE r == Append(result, x)
    <3>1. /\ r \in Seq(Range(r)) /\ Len(r) = Len(result) + 1 /\ Len(result) \in Nat
          /\ \A i \in 1 .. Len(result) : r[i] = result[i]
      BY <1>1, Longer
    <3>2. result' = r
      BY <2>2
    <3> HIDE DEF r
    <3>3. \A i \in 1 .. n : i \in 1 .. Len(result)
      BY <1>1, <3>1
    <3> QED
      BY <1>1, <3>1, <3>2, <3>3
  <2> QED
    BY <1>2, <2>1, <2>2
<1>4. ~(currentByte' < dataSize')
  BY <1>1, <1>2
<1>5. Reading'
  BY <1>2, <1>3, <1>4 DEF Reading, Found, n
<1>6. Received'
  BY <1>1, <1>2 DEF Received, Written
<1> QED
  BY <1>1, <1>2, <1>3, <1>5, <1>6 DEF SerializerInv, Total

------------------------------------------------------------------------------
LEMMA NextOK == SerializerInv /\ [Next]_vars => SerializerInv'
<1> SUFFICES ASSUME SerializerInv, [Next]_vars PROVE SerializerInv'
  OBVIOUS
<1>1. CASE Serialization
  BY <1>1, SerializationOK
<1>2. CASE OnRecvPacket
  BY <1>2, OnRecvPacketOK
<1>3. CASE Deserialization
  <2>1. pc = "read"
    BY <1>3 DEF Deserialization, ReadScalar, ReadString, ReadArray, RunAway, SkipByte, Return, More
  <2>2. CASE currentByte < dataSize
    BY <1>3, <2>1, <2>2, WithinOK
  <2>3. CASE ~(currentByte < dataSize)
    BY <1>3, <2>1, <2>3, BeyondOK
  <2> QED
    BY <2>2, <2>3
<1>4. CASE UNCHANGED vars
  BY <1>4 DEF vars, SerializerInv, Writing, Written, Received, Reading, Behind, Found, Total
<1> QED
  BY <1>1, <1>2, <1>3, <1>4 DEF Next

LEMMA InvOK == Spec => []SerializerInv
<1>1. Init => SerializerInv
  BY InitOK
<1>2. SerializerInv /\ [Next]_vars => SerializerInv'
  BY NextOK
<1> QED
  BY <1>1, <1>2, PTL DEF Spec

(* Serialization writes exactly as many bytes as GetDataSize has counted, for
   every collection: MakeSendBuffer's buffer is neither too small nor left with
   bytes that nobody wrote. *)
THEOREM SizesMatch == Spec => []SizesAgree
<1>1. SerializerInv => SizesAgree
  <2> SUFFICES ASSUME SerializerInv, pc = "write" PROVE SizesAgree
    BY DEF SizesAgree
  <2>1. /\ sent \in Collections /\ dataSize = Total
        /\ Len(result) \in 0 .. Len(sent) /\ Len(body) = Sizes(sent)[Len(result)]
    BY DEF SerializerInv, Writing, Written
  <2>2. Sizes(sent)[Len(result)] <= Total
    BY <2>1, Sent
  <2> QED
    BY <2>1, <2>2 DEF SizesAgree, Total
<1> QED
  BY <1>1, InvOK, PTL

LEMMA Prefixed ==
    ASSUME NEW S, NEW s \in Seq(S), NEW t \in Seq(S), Len(s) <= Len(t),
           \A i \in 1 .. Len(s) : s[i] = t[i]
    PROVE  IsPrefix(s, t)
<1> DEFINE n == Len(s)
           a == SubSeq(s, 1, n)
           b == SubSeq(t, 1, n)
<1>1. n \in 0 .. Len(s) /\ n \in 0 .. Len(t)
  OBVIOUS
<1>2. a \in Seq(S) /\ Len(a) = n /\ \A i \in 1 .. n : a[i] = s[i]
  BY <1>1, Initial
<1>3. b \in Seq(S) /\ Len(b) = n /\ \A i \in 1 .. n : b[i] = t[i]
  BY <1>1, Initial
<1>4. a = b
  <2> HIDE DEF a, b
  <2>1. a = [i \in 1 .. n |-> a[i]] /\ b = [i \in 1 .. n |-> b[i]]
    BY <1>2, <1>3
  <2> QED
    BY <1>2, <1>3, <2>1
<1> QED
  BY <1>4 DEF IsPrefix

(* Deserialization reads back what Serialization wrote: in the packet it never
   goes astray, and what it has read are the first of the values that were
   sent, each as it was meant; when it leaves the packet these are all of them,
   in their order, whatever lies behind the packet. *)
THEOREM ReadBack == Spec => []RoundTrip
<1>1. SerializerInv => RoundTrip
  <2> SUFFICES ASSUME SerializerInv, pc # "write" PROVE RoundTrip
    BY DEF RoundTrip
  <2> DEFINE n == Len(sent)
             M == Meanings
             R == Range(result) \cup Range(M)
  <2>1. sent \in Collections /\ n \in Nat /\ Reading /\ result \in Seq(Range(result))
    BY Sent DEF SerializerInv
  <2>2. DOMAIN sent = 1 .. n
    BY <2>1, Sent DEF Collection
  <2>3. DOMAIN M = 1 .. n /\ \A i \in 1 .. n : M[i] = Meaning(sent[i])
    BY <2>2 DEF Meanings
  <2>4. M = [i \in 1 .. n |-> M[i]]
    BY <2>2 DEF Meanings
  <2> HIDE DEF M, n
  <2>5. M \in Seq(R) /\ Len(M) = n /\ result \in Seq(R)
    <3>1. \A i \in 1 .. n : M[i] \in R
      BY <2>3 DEF Range
    <3>2. \A i \in 1 .. Len(result) : result[i] \in R
      BY <2>1
    <3> HIDE DEF R
    <3>3. M \in Seq(R) /\ Len(M) = n
      BY <2>1, <2>4, <3>1
    <3> QED
      BY <2>1, <3>2, <3>3
  <2> HIDE DEF R
  <2>6. CASE currentByte < dataSize
    <3>1. PICK k \in 0 .. n : Behind(k)
      BY <2>1, <2>6 DEF Reading, n
    <3>2. Len(result) = k /\ \A i \in 1 .. k : result[i] = M[i]
      BY <2>1, <2>3, <3>1 DEF Behind, Found
    <3>3. IsPrefix(result, M)
      BY <2>1, <2>5, <3>2, Prefixed
    <3> QED
      BY <2>1, <2>6, <3>3 DEF RoundTrip, Reading, M
  <2>7. CASE ~(currentByte < dataSize)
    <3>1. Len(result) >= n /\ \A i \in 1 .. n : result[i] = M[i]
      BY <2>1, <2>3, <2>7 DEF Reading, Found, n
    <3>2. IsPrefix(M, result)
      BY <2>1, <2>5, <3>1, Prefixed
    <3> QED
      BY <2>7, <3>2 DEF RoundTrip, M
  <2> QED
    BY <2>6, <2>7
<1> QED
  BY <1>1, InvOK, PTL

==============================================================================
