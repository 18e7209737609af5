-------------------------- MODULE SendBufferProofs --------------------------
(***************************************************************************)
(* Proofs about SendBuffer, for any threads, packets and sizes: a finished *)
(* packet is never written over, and defined behaviour is left only for    *)
(* sizes that do not fit.                                                  *)
(*                                                                         *)
(* The argument is a division of each chunk at its _usedSize: finished     *)
(* packets lie below it, and only the thread whose chunk it is writes, at  *)
(* or above it.  No two threads have one chunk, because a chunk that a     *)
(* thread takes is used by nobody.                                         *)
(***************************************************************************)
EXTENDS SendBuffer, TLAPS

(* The bytes of a chunk from a up to b were written for p. *)
Filled(bytes, p, a, b) == \A i \in Bytes : a <= i /\ i < b => bytes[i] = p

(* No chunk has two threads. *)
ChunksApart ==
    \A t, u \in Threads : chunk[t] = chunk[u] /\ t # u => chunk[t] = None

(* A packet being made lies at the free end, used, of its thread's chunk c and
   has room there, and is filled as far as it was written. *)
PlacedIn(m, c, used, bytes) ==
    /\ m.chunk = c
    /\ m.from = used
    /\ m.from + PacketSize(m.count) <= ChunkSize
    /\ m.at # "header" => Filled(bytes, m.packet, m.from, m.from + HeaderSize)
    /\ m.at = "close" =>
          /\ m.from + HeaderSize + m.written <= ChunkSize
          /\ Filled(bytes, m.packet, m.from + HeaderSize, m.from + HeaderSize + m.written)

Placed(t) ==
    PlacedIn(making[t], chunk[t], usedSize[making[t].chunk], memory[making[t].chunk])

MakingPlaced == fault = None => \A t \in Threads : making[t] # None => Placed(t)

(* A finished packet lies below the free end, as it was written. *)
IntactIn(b, p, used, bytes) ==
    b.from + b.size <= used /\ Filled(bytes, p, b.from, b.from + b.size)

Intact(p) == IntactIn(buffer[p], p, usedSize[buffer[p].chunk], memory[buffer[p].chunk])

BuffersIntact == \A p \in Packets : buffer[p] # None => Intact(p)

IInv == TypeOK /\ ChunksApart /\ MakingPlaced /\ BuffersIntact /\ FaultJustified

------------------------------------------------------------------------------
(* Remainders stay below, and are the number itself where it is small. *)
LEMMA Remainder ==
    ASSUME NEW a \in Nat, NEW w \in Nat \ {0}
    PROVE  a % w \in Nat /\ a % w <= a /\ (a < w => a % w = a)
  <1>1. a % w \in 0 .. w - 1
    OBVIOUS
  <1>2. a < w => a % w = a
    OBVIOUS
  <1> QED BY <1>1, <1>2

(* The 16-bit sizes are never more than the numbers they are cast from, and
   equal to them where nothing wraps. *)
LEMMA SizeFacts ==
    ASSUME NEW n \in Sizes
    PROVE  /\ n \in Nat /\ DataSize(n) \in Nat /\ PacketSize(n) \in Nat
           /\ PacketSize(n) <= n + HeaderSize
           /\ n + HeaderSize < Word => PacketSize(n) = n + HeaderSize
           /\ DataSize(n) + HeaderSize < Word => PacketSize(n) = DataSize(n) + HeaderSize
  <1>1. n \in Nat /\ HeaderSize \in Nat /\ Word \in Nat \ {0}
    BY SizesAssumption, ChunkAssumption
  <1>2. DataSize(n) \in Nat /\ DataSize(n) <= n /\ (n < Word => DataSize(n) = n)
    BY <1>1, Remainder DEF DataSize
  <1>3. DataSize(n) + HeaderSize \in Nat
    BY <1>1, <1>2
  <1>4. /\ PacketSize(n) \in Nat
        /\ PacketSize(n) <= DataSize(n) + HeaderSize
        /\ DataSize(n) + HeaderSize < Word => PacketSize(n) = DataSize(n) + HeaderSize
    BY <1>1, <1>3, Remainder DEF PacketSize
  <1>5. ASSUME n + HeaderSize < Word PROVE PacketSize(n) = n + HeaderSize
    <2>1. n < Word
      BY <1>1, <1>5
    <2>2. DataSize(n) = n
      BY <1>2, <2>1
    <2> QED BY <1>4, <1>5, <2>2
  <1>6. PacketSize(n) <= n + HeaderSize
    <2>1. \A d, k \in Nat : d <= n /\ k <= d + HeaderSize => k <= n + HeaderSize
      BY <1>1
    <2> QED BY <1>2, <1>4, <2>1
  <1> QED BY <1>1, <1>2, <1>4, <1>5, <1>6

LEMMA InitIInv == Init => IInv
  <1> SUFFICES ASSUME Init PROVE IInv
    OBVIOUS
  <1>1. TypeOK
    BY ChunkAssumption DEF Init, TypeOK, Blank, Bytes
  <1> QED BY <1>1 DEF Init, IInv, ChunksApart, MakingPlaced, BuffersIntact, FaultJustified

------------------------------------------------------------------------------
(* A thread that opens a region has a chunk of its own, in which nothing
   below _usedSize has changed; what the others have has not changed. *)
LEMMA ChunkForOpen ==
    ASSUME IInv, NEW t \in Threads, NEW n \in Sizes,
           IF HasRoom(t, PacketSize(n)) THEN UNCHANGED <<chunk, usedSize, memory>> ELSE Replace(t)
    PROVE  \E c \in Chunks, used \in 0 .. ChunkSize :
              /\ chunk' = [chunk EXCEPT ![t] = c] /\ usedSize' = [usedSize EXCEPT ![c] = used]
              /\ c # None
              /\ \A u \in Threads \ {t} : chunk[u] # c
              /\ memory' \in [Chunks -> [Bytes -> Packets \cup {None}]]
              /\ \A d \in Chunks \ {c} : memory'[d] = memory[d]
              /\ \A p \in Packets : buffer[p] # None /\ buffer[p].chunk = c =>
                    used = usedSize[c] /\ memory' = memory
              /\ used = 0 \/ PacketSize(n) <= ChunkSize - used
  <1>0. TypeOK /\ ChunksApart
    BY DEF IInv
  <1>1. CASE HasRoom(t, PacketSize(n))
    <2>1. chunk[t] \in Chunks /\ chunk[t] # None
      BY <1>0, <1>1 DEF HasRoom, TypeOK
    <2>2. usedSize[chunk[t]] \in 0 .. ChunkSize
      BY <1>0, <2>1 DEF TypeOK
    <2>3. UNCHANGED <<chunk, usedSize, memory>>
      BY <1>1
    <2>4. chunk' = [chunk EXCEPT ![t] = chunk[t]]
          /\ usedSize' = [usedSize EXCEPT ![chunk[t]] = usedSize[chunk[t]]]
      BY <1>0, <2>1, <2>3 DEF TypeOK
    <2>5. \A u \in Threads \ {t} : chunk[u] # chunk[t]
      BY <1>0, <2>1 DEF ChunksApart
    <2>6. PacketSize(n) <= ChunkSize - usedSize[chunk[t]]
      BY <1>1, <2>2, SizeFacts, ChunkAssumption DEF HasRoom, FreeSize
    <2> QED BY <1>0, <2>1, <2>2, <2>3, <2>4, <2>5, <2>6 DEF TypeOK
  <1>2. CASE ~HasRoom(t, PacketSize(n))
    <2>1. PICK c \in Chunks :
              /\ Unused(c)
              /\ chunk' = [chunk EXCEPT ![t] = c]
              /\ usedSize' = [usedSize EXCEPT ![c] = 0]
              /\ memory' = [memory EXCEPT ![c] = Blank]
      BY <1>2 DEF Replace
    <2>2. c # None /\ (\A u \in Threads : chunk[u] # c)
          /\ \A p \in Packets : buffer[p] # None => buffer[p].chunk # c
      BY <2>1, NoneAssumption DEF Unused
    <2>3. memory' \in [Chunks -> [Bytes -> Packets \cup {None}]]
      BY <1>0, <2>1 DEF TypeOK, Blank
    <2>4. \A d \in Chunks \ {c} : memory'[d] = memory[d]
      BY <1>0, <2>1 DEF TypeOK
    <2>5. 0 \in 0 .. ChunkSize
      BY ChunkAssumption
    <2> QED BY <2>1, <2>2, <2>3, <2>4, <2>5
  <1> QED BY <1>1, <1>2

------------------------------------------------------------------------------
(* What was filled below an end stays so if nothing below the end changes. *)
LEMMA FilledKept ==
    ASSUME NEW bytes, NEW new, NEW p, NEW a \in Nat, NEW b \in Nat, NEW end \in Nat,
           Filled(bytes, p, a, b), b <= end,
           \A i \in Bytes : i < end => new[i] = bytes[i]
    PROVE  Filled(new, p, a, b)
  <1>1. \A i \in Bytes : i < b => i < end
    BY ChunkAssumption DEF Bytes
  <1> QED BY <1>1 DEF Filled

LEMMA IntactKept ==
    ASSUME NEW b \in Buffers, NEW p, NEW used \in Nat, NEW more \in Nat, NEW bytes, NEW new,
           IntactIn(b, p, used, bytes), used <= more,
           \A i \in Bytes : i < used => new[i] = bytes[i]
    PROVE  IntactIn(b, p, more, new)
  <1>1. b.from \in Nat /\ b.from + b.size \in Nat /\ b.from + b.size <= used
    BY DEF Buffers, IntactIn
  <1>2. Filled(bytes, p, b.from, b.from + b.size)
    BY DEF IntactIn
  <1>3. Filled(new, p, b.from, b.from + b.size)
    BY <1>1, <1>2, FilledKept
  <1>4. b.from + b.size <= more
    BY <1>1
  <1> QED BY <1>3, <1>4 DEF IntactIn

(* Two filled regions, one after the other, are one. *)
LEMMA FilledJoined ==
    ASSUME NEW bytes, NEW p, NEW a \in Nat, NEW b \in Nat, NEW c \in Nat,
           Filled(bytes, p, a, b), Filled(bytes, p, b, c)
    PROVE  Filled(bytes, p, a, c)
  <1>1. \A i \in Bytes : i < b \/ b <= i
    BY ChunkAssumption DEF Bytes
  <1> QED BY <1>1 DEF Filled

(* A thread that is making a packet has a chunk, and nobody else has it. *)
LEMMA OwnChunk ==
    ASSUME IInv, fault = None, NEW t \in Threads, making[t] # None
    PROVE  /\ making[t] \in Locals /\ making[t].chunk \in Chunks
           /\ chunk[t] = making[t].chunk
           /\ Placed(t)
           /\ \A u \in Threads \ {t} :
                 making[u] # None => making[u].chunk # making[t].chunk
  <1>1. \A u \in Threads : making[u] # None =>
            making[u] \in Locals /\ making[u].chunk \in Chunks /\ Placed(u)
            /\ making[u].chunk = chunk[u]
    BY DEF IInv, TypeOK, MakingPlaced, Placed, PlacedIn, Locals
  <1>2. chunk[t] # None
    BY <1>1, NoneAssumption
  <1> QED BY <1>1, <1>2 DEF IInv, ChunksApart

------------------------------------------------------------------------------
LEMMA OpenIInv ==
    ASSUME IInv, NEW t \in Threads, NEW q \in Packets, NEW n \in Sizes, Open(t, q, n)
    PROVE  IInv'
  <1>0. /\ TypeOK /\ ChunksApart /\ MakingPlaced /\ BuffersIntact
        /\ fault = None /\ making[t] = None
    BY DEF IInv, Open
  <1>1. PICK c \in Chunks, used \in 0 .. ChunkSize :
              /\ chunk' = [chunk EXCEPT ![t] = c] /\ usedSize' = [usedSize EXCEPT ![c] = used]
              /\ c # None
              /\ \A u \in Threads \ {t} : chunk[u] # c
              /\ memory' \in [Chunks -> [Bytes -> Packets \cup {None}]]
              /\ \A d \in Chunks \ {c} : memory'[d] = memory[d]
              /\ \A p \in Packets : buffer[p] # None /\ buffer[p].chunk = c =>
                    used = usedSize[c] /\ memory' = memory
              /\ used = 0 \/ PacketSize(n) <= ChunkSize - used
    <2>1. IF HasRoom(t, PacketSize(n)) THEN UNCHANGED <<chunk, usedSize, memory>> ELSE Replace(t)
      BY DEF Open
    <2> QED BY <2>1, ChunkForOpen
  <1>2. chunk'[t] = c /\ usedSize'[c] = used
    BY <1>0, <1>1 DEF TypeOK
  <1>3. /\ open' = IF Opened(PacketSize(n), used) THEN open \cup {c} ELSE open \ {c}
        /\ fault' = IF Opened(PacketSize(n), used) THEN None
                    ELSE [why |-> "null", count |-> n, written |-> n]
        /\ making' = [making EXCEPT ![t] =
                        [at |-> "header", packet |-> q, chunk |-> c, from |-> used,
                         count |-> n, written |-> 0]]
        /\ unmade' = unmade \ {q} /\ buffer' = buffer
    BY <1>2 DEF Open
  <1>4. n \in Nat /\ used \in Nat /\ ChunkSize \in Nat /\ HeaderSize \in Nat
        /\ PacketSize(n) \in Nat /\ PacketSize(n) <= n + HeaderSize
    BY SizeFacts, ChunkAssumption
  <1>5. TypeOK'
    <2>1. chunk' \in [Threads -> Chunks \cup {None}] /\ usedSize' \in [Chunks -> 0 .. ChunkSize]
      BY <1>0, <1>1 DEF TypeOK
    <2>2. making' \in [Threads -> Locals \cup {None}]
      BY <1>0, <1>3, <1>4 DEF TypeOK, Locals
    <2>3. fault' \in Faults \cup {None}
      BY <1>3, <1>4 DEF Faults
    <2>4. open' \subseteq Chunks /\ unmade' \subseteq Packets
          /\ buffer' \in [Packets -> Buffers \cup {None}]
      BY <1>0, <1>3 DEF TypeOK
    <2> QED BY <1>1, <2>1, <2>2, <2>3, <2>4 DEF TypeOK, Bytes
  <1>6. ChunksApart'
    <2>1. \A u \in Threads : chunk'[u] = IF u = t THEN c ELSE chunk[u]
      BY <1>0, <1>1 DEF TypeOK
    <2> QED BY <1>0, <1>1, <2>1 DEF ChunksApart
  <1>7. MakingPlaced'
    <2> SUFFICES ASSUME fault' = None, NEW u \in Threads, making'[u] # None
                 PROVE  Placed(u)'
      BY DEF MakingPlaced
    <2>1. CASE u = t
      <3> DEFINE m == [at |-> "header", packet |-> q, chunk |-> c, from |-> used,
                       count |-> n, written |-> 0]
      <3>1. making'[u] = m /\ chunk'[u] = c
        BY <1>0, <1>2, <1>3, <2>1 DEF TypeOK
      <3>2. Opened(PacketSize(n), used)
        <4>1. [why |-> "null", count |-> n, written |-> n] \in Faults
          BY <1>4 DEF Faults
        <4> QED BY <1>3, <4>1, NoFaultAssumption
      <3>3. used + PacketSize(n) <= ChunkSize
        BY <1>4, <3>2 DEF Opened
      <3>4. PlacedIn(m, c, used, memory'[c])
        BY <3>3 DEF PlacedIn
      <3> QED BY <1>2, <3>1, <3>4 DEF Placed
    <2>2. CASE u # t
      <3>1. making'[u] = making[u] /\ chunk'[u] = chunk[u]
        BY <1>0, <1>1, <1>3, <2>2 DEF TypeOK
      <3>2. making[u] # None /\ making[u].chunk \in Chunks /\ making[u].chunk = chunk[u]
            /\ Placed(u)
        BY <1>0, <3>1, OwnChunk
      <3>3. usedSize'[making[u].chunk] = usedSize[making[u].chunk]
            /\ memory'[making[u].chunk] = memory[making[u].chunk]
        BY <1>0, <1>1, <2>2, <3>2 DEF TypeOK
      <3> QED BY <3>1, <3>2, <3>3 DEF Placed
    <2> QED BY <2>1, <2>2
  <1>8. BuffersIntact'
    <2> SUFFICES ASSUME NEW p \in Packets, buffer'[p] # None
                 PROVE  Intact(p)'
      BY DEF BuffersIntact
    <2>1. buffer' = buffer /\ buffer[p].chunk \in Chunks /\ Intact(p)
      BY <1>0, <1>3 DEF TypeOK, Buffers, BuffersIntact
    <2>2. usedSize'[buffer[p].chunk] = usedSize[buffer[p].chunk]
          /\ memory'[buffer[p].chunk] = memory[buffer[p].chunk]
      BY <1>0, <1>1, <1>3, <2>1 DEF TypeOK
    <2> QED BY <2>1, <2>2 DEF Intact
  <1>9. FaultJustified'
    <2> SUFFICES ASSUME fault' # None
                 PROVE  fault'.why = "null" /\ fault'.count + HeaderSize > ChunkSize
      BY DEF FaultJustified
    <2>1. ~ Opened(PacketSize(n), used)
          /\ fault' = [why |-> "null", count |-> n, written |-> n]
      BY <1>3
    <2>2. used = 0
      BY <1>1, <2>1 DEF Opened
    <2>3. n + HeaderSize > ChunkSize
      BY <1>4, <2>1, <2>2 DEF Opened
    <2> QED BY <2>1, <2>3
  <1> QED BY <1>5, <1>6, <1>7, <1>8, <1>9 DEF IInv

------------------------------------------------------------------------------
(* A write that stays in the chunk fills its region and leaves what is before
   it; one that does not is a fault and writes nothing. *)
LEMMA WriteFacts ==
    ASSUME IInv, fault = None, NEW t \in Threads, making[t] # None,
           NEW pos \in Nat, NEW len \in Nat, NEW n \in Nat, Write(t, pos, len, n)
    PROVE  /\ memory' \in [Chunks -> [Bytes -> Packets \cup {None}]]
           /\ fault' \in Faults \cup {None}
           /\ \A d \in Chunks \ {making[t].chunk} : memory'[d] = memory[d]
           /\ \A i \in Bytes : i < making[t].from + pos =>
                 memory'[making[t].chunk][i] = memory[making[t].chunk][i]
           /\ fault' = None =>
                 /\ making[t].from + pos + len <= ChunkSize
                 /\ Filled(memory'[making[t].chunk], making[t].packet,
                           making[t].from + pos, making[t].from + pos + len)
           /\ fault' # None =>
                 /\ fault' = [why |-> "overrun", count |-> making[t].count, written |-> n]
                 /\ making[t].from + pos + len > ChunkSize
  <1> DEFINE m == making[t]
  <1>0. TypeOK /\ m \in Locals /\ m.chunk \in Chunks /\ m.packet \in Packets
        /\ m.from \in Nat /\ m.count \in Sizes
    BY OwnChunk DEF IInv, Locals
  <1>1. PICK first \in Nat : first = m.from + pos
    BY <1>0
  <1>2. IF first + len <= ChunkSize
          THEN /\ memory' = [memory EXCEPT ![m.chunk] =
                           [i \in Bytes |-> IF first <= i /\ i < first + len THEN m.packet
                                            ELSE @[i]]]
               /\ UNCHANGED fault
          ELSE /\ fault' = [why |-> "overrun", count |-> m.count, written |-> n]
               /\ UNCHANGED memory
    BY <1>1 DEF Write
  <1>3. CASE first + len <= ChunkSize
    <2>1. memory' = [memory EXCEPT ![m.chunk] =
                       [i \in Bytes |-> IF first <= i /\ i < first + len THEN m.packet
                                        ELSE @[i]]]
          /\ fault' = None
      BY <1>2, <1>3
    <2>2. memory'[m.chunk] = [i \in Bytes |-> IF first <= i /\ i < first + len THEN m.packet
                                              ELSE memory[m.chunk][i]]
      BY <1>0, <2>1 DEF TypeOK
    <2>3. \A d \in Chunks \ {m.chunk} : memory'[d] = memory[d]
      BY <1>0, <2>1 DEF TypeOK
    <2>4. memory' \in [Chunks -> [Bytes -> Packets \cup {None}]]
      BY <1>0, <2>1 DEF TypeOK
    <2>5. \A i \in Bytes : i < first => memory'[m.chunk][i] = memory[m.chunk][i]
      BY <2>2, ChunkAssumption DEF Bytes
    <2>6. Filled(memory'[m.chunk], m.packet, first, first + len)
      BY <2>2 DEF Filled
    <2> QED BY <1>1, <1>3, <2>1, <2>3, <2>4, <2>5, <2>6
  <1>4. CASE ~ (first + len <= ChunkSize)
    <2>1. fault' = [why |-> "overrun", count |-> m.count, written |-> n] /\ memory' = memory
      BY <1>2, <1>4
    <2>2. fault' \in Faults
      BY <1>0, <2>1 DEF Faults
    <2>3. fault' # None
      BY <2>2, NoFaultAssumption
    <2>4. first + len > ChunkSize
      BY <1>4, ChunkAssumption
    <2> QED BY <1>0, <1>1, <2>1, <2>2, <2>3, <2>4 DEF TypeOK
  <1> QED BY <1>3, <1>4

(* A step that writes behind _usedSize, and has its packet placed after. *)
LEMMA WriteIInv ==
    ASSUME IInv, fault = None, NEW t \in Threads, making[t] # None, NEW m \in Locals,
           memory' \in [Chunks -> [Bytes -> Packets \cup {None}]],
           fault' \in Faults \cup {None}, FaultJustified',
           \A d \in Chunks \ {making[t].chunk} : memory'[d] = memory[d],
           \A i \in Bytes : i < making[t].from =>
                 memory'[making[t].chunk][i] = memory[making[t].chunk][i],
           making' = [making EXCEPT ![t] = m], m.chunk = making[t].chunk,
           fault' = None => PlacedIn(m, making[t].chunk, making[t].from, memory'[making[t].chunk]),
           UNCHANGED <<chunk, usedSize, open, buffer, unmade>>
    PROVE  IInv'
  <1>0. /\ TypeOK /\ ChunksApart /\ MakingPlaced /\ BuffersIntact
        /\ making[t].chunk \in Chunks /\ chunk[t] = making[t].chunk
        /\ making[t].from = usedSize[making[t].chunk]
    BY OwnChunk DEF IInv, Placed, PlacedIn
  <1>1. TypeOK'
    <2>1. making' \in [Threads -> Locals \cup {None}]
      BY <1>0 DEF TypeOK
    <2> QED BY <1>0, <2>1 DEF TypeOK, Bytes
  <1>2. ChunksApart'
    BY <1>0 DEF ChunksApart
  <1>3. MakingPlaced'
    <2> SUFFICES ASSUME fault' = None, NEW u \in Threads, making'[u] # None
                 PROVE  Placed(u)'
      BY DEF MakingPlaced
    <2>1. CASE u = t
      <3>1. making'[u] = m /\ chunk'[u] = making[t].chunk
            /\ usedSize'[m.chunk] = making[t].from
        BY <1>0, <2>1 DEF TypeOK
      <3> QED BY <3>1 DEF Placed
    <2>2. CASE u # t
      <3>1. making'[u] = making[u] /\ chunk'[u] = chunk[u] /\ usedSize' = usedSize
        BY <1>0, <2>2 DEF TypeOK
      <3>2. making[u].chunk \in Chunks /\ making[u].chunk # making[t].chunk /\ Placed(u)
        BY <2>2, <3>1, OwnChunk
      <3>3. memory'[making[u].chunk] = memory[making[u].chunk]
        BY <3>2
      <3> QED BY <3>1, <3>2, <3>3 DEF Placed
    <2> QED BY <2>1, <2>2
  <1>4. BuffersIntact'
    <2> SUFFICES ASSUME NEW p \in Packets, buffer'[p] # None
                 PROVE  Intact(p)'
      BY DEF BuffersIntact
    <2>1. buffer' = buffer /\ usedSize' = usedSize /\ buffer[p] \in Buffers
          /\ buffer[p].chunk \in Chunks /\ usedSize[buffer[p].chunk] \in Nat
          /\ IntactIn(buffer[p], p, usedSize[buffer[p].chunk], memory[buffer[p].chunk])
      BY <1>0, ChunkAssumption DEF TypeOK, Buffers, BuffersIntact, Intact
    <2>2. \A i \in Bytes : i < usedSize[buffer[p].chunk] =>
              memory'[buffer[p].chunk][i] = memory[buffer[p].chunk][i]
      BY <1>0, <2>1
    <2>3. usedSize[buffer[p].chunk] <= usedSize[buffer[p].chunk]
      BY <2>1
    <2>4. IntactIn(buffer[p], p, usedSize[buffer[p].chunk], memory'[buffer[p].chunk])
      BY <2>1, <2>2, <2>3, IntactKept
    <2> QED BY <2>1, <2>4 DEF Intact
  <1> QED BY <1>1, <1>2, <1>3, <1>4 DEF IInv

LEMMA WriteHeaderIInv ==
    ASSUME IInv, NEW t \in Threads, WriteHeader(t)
    PROVE  IInv'
  <1>0. /\ fault = None /\ making[t] # None /\ making[t].at = "header"
        /\ Write(t, 0, HeaderSize, making[t].count)
        /\ making' = [making EXCEPT ![t].at = "body"]
        /\ UNCHANGED <<chunk, usedSize, open, buffer, unmade>>
    BY DEF WriteHeader, Making
  <1> DEFINE old == making[t]
             m == [old EXCEPT !.at = "body"]
  <1>1. /\ TypeOK /\ Placed(t) /\ old \in Locals /\ old.chunk \in Chunks
        /\ old.count \in Sizes /\ old.from \in Nat
        /\ old.from + PacketSize(old.count) <= ChunkSize
        /\ chunk[t] = old.chunk /\ old.from = usedSize[old.chunk]
    BY <1>0, OwnChunk DEF IInv, Placed, PlacedIn, Locals
  <1>2. old.count \in Nat /\ HeaderSize \in Nat /\ ChunkSize \in Nat /\ Word \in Nat
        /\ PacketSize(old.count) \in Nat
        /\ (old.count + HeaderSize < Word => PacketSize(old.count) = old.count + HeaderSize)
    BY <1>1, SizeFacts, ChunkAssumption
  <1>3. /\ memory' \in [Chunks -> [Bytes -> Packets \cup {None}]]
        /\ fault' \in Faults \cup {None}
        /\ \A d \in Chunks \ {old.chunk} : memory'[d] = memory[d]
        /\ \A i \in Bytes : i < old.from + 0 =>
                 memory'[old.chunk][i] = memory[old.chunk][i]
        /\ fault' = None =>
                 Filled(memory'[old.chunk], old.packet, old.from + 0, old.from + 0 + HeaderSize)
        /\ fault' # None =>
                 /\ fault' = [why |-> "overrun", count |-> old.count, written |-> old.count]
                 /\ old.from + 0 + HeaderSize > ChunkSize
    BY <1>0, <1>2, WriteFacts
  <1>4. /\ m \in Locals /\ m.at = "body" /\ m.chunk = old.chunk /\ m.from = old.from
        /\ m.count = old.count /\ m.packet = old.packet
        /\ making' = [making EXCEPT ![t] = m]
    BY <1>0, <1>1 DEF Locals, TypeOK
  <1>5. old.from + 0 = old.from
    BY <1>1
  <1>6. ASSUME fault' = None
        PROVE  PlacedIn(m, old.chunk, old.from, memory'[old.chunk])
    BY <1>1, <1>3, <1>4, <1>5, <1>6 DEF PlacedIn
  <1>7. FaultJustified'
    <2> SUFFICES ASSUME fault' # None
                 PROVE  fault'.why = "overrun" /\ fault'.count + HeaderSize >= Word
      BY DEF FaultJustified
    <2>1. old.from + HeaderSize > ChunkSize
      BY <1>3, <1>5
    <2>2. old.count + HeaderSize >= Word
      BY <1>1, <1>2, <2>1
    <2> QED BY <1>3, <2>2
  <1>8. \A i \in Bytes : i < old.from => memory'[old.chunk][i] = memory[old.chunk][i]
    BY <1>3, <1>5
  <1> HIDE DEF m
  <1> QED BY <1>0, <1>3, <1>4, <1>6, <1>7, <1>8, WriteIInv

LEMMA SerializationIInv ==
    ASSUME IInv, NEW t \in Threads, NEW n \in Sizes, Serialization(t, n)
    PROVE  IInv'
  <1>0. /\ fault = None /\ making[t] # None /\ making[t].at = "body"
        /\ Write(t, HeaderSize, n, n)
        /\ making' = [making EXCEPT ![t].at = "close", ![t].written = n]
        /\ UNCHANGED <<chunk, usedSize, open, buffer, unmade>>
    BY DEF Serialization, Making
  <1> DEFINE old == making[t]
             m == [old EXCEPT !.at = "close", !.written = n]
  <1>1. /\ TypeOK /\ Placed(t) /\ old \in Locals /\ old.chunk \in Chunks
        /\ old.count \in Sizes /\ old.from \in Nat
        /\ old.from + PacketSize(old.count) <= ChunkSize
        /\ chunk[t] = old.chunk /\ old.from = usedSize[old.chunk]
        /\ Filled(memory[old.chunk], old.packet, old.from, old.from + HeaderSize)
    BY <1>0, OwnChunk DEF IInv, Placed, PlacedIn, Locals
  <1>2. old.count \in Nat /\ n \in Nat /\ HeaderSize \in Nat /\ ChunkSize \in Nat /\ Word \in Nat
        /\ PacketSize(old.count) \in Nat
        /\ (old.count + HeaderSize < Word => PacketSize(old.count) = old.count + HeaderSize)
    BY <1>1, SizeFacts, ChunkAssumption
  <1>3. /\ memory' \in [Chunks -> [Bytes -> Packets \cup {None}]]
        /\ fault' \in Faults \cup {None}
        /\ \A d \in Chunks \ {old.chunk} : memory'[d] = memory[d]
        /\ \A i \in Bytes : i < old.from + HeaderSize =>
                 memory'[old.chunk][i] = memory[old.chunk][i]
        /\ fault' = None =>
                 /\ old.from + HeaderSize + n <= ChunkSize
                 /\ Filled(memory'[old.chunk], old.packet,
                           old.from + HeaderSize, old.from + HeaderSize + n)
        /\ fault' # None =>
                 /\ fault' = [why |-> "overrun", count |-> old.count, written |-> n]
                 /\ old.from + HeaderSize + n > ChunkSize
    BY <1>0, <1>2, WriteFacts
  <1>4. /\ m \in Locals /\ m.at = "close" /\ m.chunk = old.chunk /\ m.from = old.from
        /\ m.count = old.count /\ m.packet = old.packet /\ m.written = n
        /\ making' = [making EXCEPT ![t] = m]
    BY <1>0, <1>1, <1>2 DEF Locals, TypeOK
  <1>5. \A i \in Bytes : i < old.from => i < old.from + HeaderSize
    BY <1>1, <1>2 DEF Bytes
  <1>6. Filled(memory'[old.chunk], old.packet, old.from, old.from + HeaderSize)
    <2>1. old.from + HeaderSize \in Nat /\ old.from + HeaderSize <= old.from + HeaderSize
      BY <1>1, <1>2
    <2> QED BY <1>1, <1>3, <2>1, FilledKept
  <1>7. ASSUME fault' = None
        PROVE  PlacedIn(m, old.chunk, old.from, memory'[old.chunk])
    BY <1>1, <1>3, <1>4, <1>6, <1>7 DEF PlacedIn
  <1>8. FaultJustified'
    <2> SUFFICES ASSUME fault' # None
                 PROVE  /\ fault'.why = "overrun"
                        /\ fault'.count + HeaderSize >= Word \/ fault'.written > fault'.count
      BY DEF FaultJustified
    <2>1. fault' = [why |-> "overrun", count |-> old.count, written |-> n]
          /\ old.from + HeaderSize + n > ChunkSize
      BY <1>3
    <2>2. old.count + HeaderSize >= Word \/ n > old.count
      BY <1>1, <1>2, <2>1
    <2> QED BY <2>1, <2>2
  <1>9. \A i \in Bytes : i < old.from => memory'[old.chunk][i] = memory[old.chunk][i]
    BY <1>3, <1>5
  <1> HIDE DEF m
  <1> QED BY <1>0, <1>3, <1>4, <1>7, <1>8, <1>9, WriteIInv

(* Taking the region off the chunk moves the free end behind the packet, which
   is then complete. *)
LEMMA CloseIInv ==
    ASSUME IInv, NEW t \in Threads, Close(t)
    PROVE  IInv'
  <1> DEFINE m == making[t]
  <1>0. /\ fault = None /\ m # None /\ m.at = "close"
        /\ making' = [making EXCEPT ![t] = None]
        /\ UNCHANGED <<chunk, memory, unmade, fault>>
    BY DEF Close, Making
  <1>1. /\ TypeOK /\ ChunksApart /\ MakingPlaced /\ BuffersIntact /\ FaultJustified
        /\ m \in Locals /\ m.chunk \in Chunks /\ m.packet \in Packets
        /\ m.count \in Sizes /\ m.from \in Nat /\ m.written \in Nat
        /\ chunk[t] = m.chunk /\ m.from = usedSize[m.chunk]
        /\ m.from + PacketSize(m.count) <= ChunkSize
        /\ m.from + HeaderSize + m.written <= ChunkSize
        /\ Filled(memory[m.chunk], m.packet, m.from, m.from + HeaderSize)
        /\ Filled(memory[m.chunk], m.packet, m.from + HeaderSize,
                  m.from + HeaderSize + m.written)
    BY <1>0, OwnChunk DEF IInv, Placed, PlacedIn, Locals
  <1>2. PacketSize(m.count) \in Nat /\ DataSize(m.count) \in Nat /\ m.count \in Nat
        /\ HeaderSize \in Nat /\ ChunkSize \in Nat /\ Word \in Nat /\ ChunkSize < Word
        /\ (DataSize(m.count) + HeaderSize < Word =>
               PacketSize(m.count) = DataSize(m.count) + HeaderSize)
    BY <1>1, SizeFacts, ChunkAssumption
  <1>3. ChunksApart' /\ FaultJustified'
    BY <1>0, <1>1 DEF ChunksApart, FaultJustified
  <1>4. PICK end \in 0 .. ChunkSize :
           /\ usedSize' = [usedSize EXCEPT ![m.chunk] = end]
           /\ m.from <= end
           /\ \/ UNCHANGED <<buffer, open>>
              \/ /\ open' = open \ {m.chunk}
                 /\ buffer' = [buffer EXCEPT ![m.packet] =
                        [chunk |-> m.chunk, from |-> m.from, size |-> PacketSize(m.count)]]
                 /\ m.from + PacketSize(m.count) = end
                 /\ Filled(memory[m.chunk], m.packet, m.from, end)
    <2>1. CASE m.written = DataSize(m.count)
      <3>1. /\ usedSize' = [usedSize EXCEPT ![m.chunk] = @ + PacketSize(m.count)]
            /\ open' = open \ {m.chunk}
            /\ buffer' = [buffer EXCEPT ![m.packet] =
                   [chunk |-> m.chunk, from |-> m.from, size |-> PacketSize(m.count)]]
        BY <2>1 DEF Close, Taken
      <3>2. usedSize' = [usedSize EXCEPT ![m.chunk] = m.from + PacketSize(m.count)]
        BY <1>1, <3>1 DEF TypeOK
      <3>3. m.from + PacketSize(m.count) \in 0 .. ChunkSize
            /\ m.from <= m.from + PacketSize(m.count)
        BY <1>1, <1>2
      <3>4. DataSize(m.count) + HeaderSize < Word
        BY <1>1, <1>2, <2>1
      <3>5. m.from + HeaderSize + m.written = m.from + PacketSize(m.count)
        BY <1>1, <1>2, <2>1, <3>4
      <3>6. Filled(memory[m.chunk], m.packet, m.from, m.from + PacketSize(m.count))
        <4>1. m.from + HeaderSize \in Nat /\ m.from + HeaderSize + m.written \in Nat
          BY <1>1, <1>2
        <4> QED BY <1>1, <3>5, <4>1, FilledJoined
      <3> QED BY <3>1, <3>2, <3>3, <3>6
    <2>2. CASE m.written # DataSize(m.count)
      <3>1. UNCHANGED <<usedSize, open, buffer>>
        BY <2>2 DEF Close
      <3>2. usedSize' = [usedSize EXCEPT ![m.chunk] = m.from]
            /\ m.from \in 0 .. ChunkSize /\ m.from <= m.from
        BY <1>1, <3>1 DEF TypeOK
      <3> QED BY <3>1, <3>2
    <2> QED BY <2>1, <2>2
  <1>5. usedSize'[m.chunk] = end /\ \A d \in Chunks \ {m.chunk} : usedSize'[d] = usedSize[d]
    BY <1>1, <1>4 DEF TypeOK
  <1>6. TypeOK'
    <2>1. usedSize' \in [Chunks -> 0 .. ChunkSize]
      BY <1>1, <1>4 DEF TypeOK
    <2>2. making' \in [Threads -> Locals \cup {None}]
      BY <1>0, <1>1 DEF TypeOK
    <2>3. buffer' \in [Packets -> Buffers \cup {None}] /\ open' \subseteq Chunks
      BY <1>1, <1>2, <1>4 DEF TypeOK, Buffers
    <2> QED BY <1>0, <1>1, <2>1, <2>2, <2>3 DEF TypeOK, Bytes
  <1>7. MakingPlaced'
    <2> SUFFICES ASSUME NEW u \in Threads, making'[u] # None
                 PROVE  Placed(u)'
      BY DEF MakingPlaced
    <2>1. u # t /\ making'[u] = making[u] /\ chunk'[u] = chunk[u] /\ memory' = memory
      BY <1>0, <1>1 DEF TypeOK
    <2>2. making[u].chunk \in Chunks /\ making[u].chunk # m.chunk /\ Placed(u)
      BY <1>0, <2>1, OwnChunk
    <2>3. usedSize'[making[u].chunk] = usedSize[making[u].chunk]
      BY <1>5, <2>2
    <2> QED BY <2>1, <2>2, <2>3 DEF Placed
  <1>8. BuffersIntact'
    <2> SUFFICES ASSUME NEW p \in Packets, buffer'[p] # None
                 PROVE  Intact(p)'
      BY DEF BuffersIntact
    <2>1. ASSUME buffer'[p] = buffer[p]
          PROVE  Intact(p)'
      <3>1. buffer[p] \in Buffers /\ buffer[p].chunk \in Chunks
            /\ IntactIn(buffer[p], p, usedSize[buffer[p].chunk], memory[buffer[p].chunk])
        BY <1>1, <2>1 DEF TypeOK, Buffers, BuffersIntact, Intact
      <3>2. PICK more \in Nat : more = usedSize'[buffer[p].chunk]
        BY <1>6, <3>1, ChunkAssumption DEF TypeOK
      <3>3. PICK used \in Nat : used = usedSize[buffer[p].chunk]
        BY <1>1, <3>1, ChunkAssumption DEF TypeOK
      <3>4. used <= more
        <4>1. CASE buffer[p].chunk = m.chunk
          BY <1>1, <1>4, <1>5, <3>2, <3>3, <4>1
        <4>2. CASE buffer[p].chunk # m.chunk
          BY <1>5, <3>1, <3>2, <3>3, <4>2
        <4> QED BY <4>1, <4>2
      <3>5. IntactIn(buffer[p], p, more, memory[buffer[p].chunk])
        BY <3>1, <3>2, <3>3, <3>4, IntactKept
      <3> QED BY <1>0, <2>1, <3>2, <3>5 DEF Intact
    <2>2. ASSUME buffer'[p] # buffer[p]
          PROVE  Intact(p)'
      <3> DEFINE b == [chunk |-> m.chunk, from |-> m.from, size |-> PacketSize(m.count)]
      <3>1. p = m.packet /\ buffer'[p] = b /\ m.from + PacketSize(m.count) = end
            /\ Filled(memory[m.chunk], m.packet, m.from, end)
        BY <1>1, <1>4, <2>2 DEF TypeOK
      <3>2. IntactIn(b, p, end, memory[m.chunk])
        BY <1>1, <3>1 DEF IntactIn
      <3> QED BY <1>0, <1>5, <3>1, <3>2 DEF Intact
    <2> QED BY <2>1, <2>2
  <1> QED BY <1>3, <1>6, <1>7, <1>8 DEF IInv

LEMMA DropIInv ==
    ASSUME IInv, NEW q \in Packets, Drop(q)
    PROVE  IInv'
  <1>0. /\ buffer' = [buffer EXCEPT ![q] = None]
        /\ UNCHANGED <<chunk, usedSize, open, memory, making, unmade, fault>>
        /\ TypeOK /\ ChunksApart /\ MakingPlaced /\ BuffersIntact /\ FaultJustified
    BY DEF Drop, IInv
  <1>1. TypeOK'
    BY <1>0 DEF TypeOK, Bytes
  <1>2. ChunksApart' /\ MakingPlaced' /\ FaultJustified'
    BY <1>0 DEF ChunksApart, MakingPlaced, Placed, FaultJustified
  <1>3. BuffersIntact'
    <2> SUFFICES ASSUME NEW p \in Packets, buffer'[p] # None
                 PROVE  Intact(p)'
      BY DEF BuffersIntact
    <2>1. buffer'[p] = buffer[p]
      BY <1>0 DEF TypeOK
    <2> QED BY <1>0, <2>1 DEF BuffersIntact, Intact
  <1> QED BY <1>1, <1>2, <1>3 DEF IInv

LEMMA StepIInv == IInv /\ [Next]_vars => IInv'
  <1> SUFFICES ASSUME IInv, [Next]_vars PROVE IInv'
    OBVIOUS
  <1>1. ASSUME NEW t \in Threads, NEW p \in Packets, NEW n \in Sizes, Open(t, p, n) PROVE IInv'
    BY <1>1, OpenIInv
  <1>2. ASSUME NEW t \in Threads, WriteHeader(t) PROVE IInv'
    BY <1>2, WriteHeaderIInv
  <1>3. ASSUME NEW t \in Threads, NEW n \in Sizes, Serialization(t, n) PROVE IInv'
    BY <1>3, SerializationIInv
  <1>4. ASSUME NEW t \in Threads, Close(t) PROVE IInv'
    BY <1>4, CloseIInv
  <1>5. ASSUME NEW p \in Packets, Drop(p) PROVE IInv'
    BY <1>5, DropIInv
  <1>6. CASE UNCHANGED vars
    <2>1. /\ UNCHANGED <<chunk, usedSize, open, memory, making, buffer, unmade, fault>>
          /\ TypeOK /\ ChunksApart /\ MakingPlaced /\ BuffersIntact /\ FaultJustified
      BY <1>6 DEF vars, IInv
    <2>2. TypeOK' /\ ChunksApart' /\ FaultJustified'
      BY <2>1 DEF TypeOK, Bytes, ChunksApart, FaultJustified
    <2>3. MakingPlaced' /\ BuffersIntact'
      BY <2>1 DEF MakingPlaced, Placed, BuffersIntact, Intact
    <2> QED BY <2>2, <2>3 DEF IInv
  <1> QED BY <1>1, <1>2, <1>3, <1>4, <1>5, <1>6 DEF Next

LEMMA IInvHolds == Spec => []IInv
  <1> QED BY InitIInv, StepIInv, PTL DEF Spec

(* Whatever the threads and the sizes: _usedSize stays within the chunk, so
   that FreeSize never wraps, and every region lies where its type says. *)
THEOREM ChunksInBounds == Spec => []TypeOK
  <1>1. IInv => TypeOK
    BY DEF IInv
  <1> QED BY <1>1, IInvHolds, PTL

(* No step of any thread writes over a finished packet that is still referred
   to. *)
THEOREM FinishedIsIntact == Spec => []SentIntact
  <1>1. IInv => SentIntact
    BY DEF IInv, BuffersIntact, Intact, IntactIn, Filled, SentIntact
  <1> QED BY <1>1, IInvHolds, PTL

(* MakeSendBuffer leaves defined behaviour only for a packet that no chunk can
   hold, a size that wraps, or a collection that grew under it. *)
THEOREM FaultsJustified == Spec => []FaultJustified
  <1>1. IInv => FaultJustified
    BY DEF IInv
  <1> QED BY <1>1, IInvHolds, PTL
==============================================================================
