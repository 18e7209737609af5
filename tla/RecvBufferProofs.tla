-------------------------- MODULE RecvBufferProofs --------------------------
(***************************************************************************)
(* Proofs about RecvBuffer: the cursors never leave the buffer, WSARecv    *)
(* always gets room for a whole buffer, Clean's memcpy never overlaps, and *)
(* OnRecvPacket gets the packets of the stream, whole and one by one, for  *)
(* all sizes of packets, buffers and pieces of the stream.                 *)
(*                                                                         *)
(* The inductive invariant adds to the type invariant what OnRecv leaves   *)
(* behind: less than a packet, and a packet is no larger than a            *)
(* BufferSize.  Clean then frees all but that.                             *)
(*                                                                         *)
(* Then the contents: the bytes between the cursors are those received and *)
(* not handed over, and with those on the wire they are a stream of whole  *)
(* packets.  "Whole packets" is said of every byte (its packet is around   *)
(* it), so that no induction over the stream is needed to cut one off.     *)
(***************************************************************************)
EXTENDS RecvBuffer, SequenceTheorems, TLAPS

LeftOver == pc = "clean" => processLen = 0 /\ DataSize < BufferSize

Bounded == TypeOK /\ LeftOver /\ RoomToReceive /\ (pc = "receive" => processLen = 0)

(* There is room for three buffers at least. *)
LEMMA CapacityIsLarge ==
    Capacity \in Nat /\ Capacity >= 3 * BufferSize
  <1>1. PICK k \in Nat : BufferCount = 3 + k
    <2>1. BufferCount - 3 \in Nat /\ BufferCount = 3 + (BufferCount - 3)
      BY BufferAssumption
    <2> QED BY <2>1
  <1>2. Capacity = 3 * BufferSize + k * BufferSize
    BY <1>1, BufferAssumption DEF Capacity
  <1>3. k * BufferSize \in Nat
    BY <1>1, BufferAssumption
  <1> QED BY <1>2, <1>3, BufferAssumption

(* A packet's bytes are bytes. *)
LEMMA ContentsType ==
    ASSUME NEW p \in Packets
    PROVE  Size[p] \in HeaderSize .. BufferSize /\ Contents(p) \in Seq(Bytes)
  <1>1. Size[p] \in HeaderSize .. BufferSize
    BY SizeAssumption
  <1>2. Size[p] \in Nat
    BY <1>1, BufferAssumption
  <1>3. \A i \in 1 .. Size[p] : Byte(p, i) \in Bytes
    BY <1>1, BufferAssumption DEF Bytes
  <1>4. Contents(p) \in [1 .. Size[p] -> Bytes]
    BY <1>3 DEF Contents
  <1> QED BY <1>1, <1>2, <1>4, SeqDef

(* Whatever header the parser reads names a size that fits a buffer. *)
LEMMA HeaderSizesType ==
    ASSUME TypeOK, Next0 \in DOMAIN buffer, NEW size \in HeaderSizes
    PROVE  size \in 0 .. BufferSize
  <1>1. buffer[Next0] \in Bytes \cup {Zero}
    BY DEF TypeOK
  <1>2. CASE buffer[Next0].at = 1
    <2>1. buffer[Next0] \in Bytes
      BY <1>1, <1>2 DEF Zero
    <2>2. PICK p \in Packets, i \in 1 .. BufferSize : buffer[Next0] = Byte(p, i)
      BY <2>1 DEF Bytes
    <2>3. size = Size[p]
      BY <1>2, <2>2 DEF HeaderSizes, Byte
    <2> QED BY <2>3, SizeAssumption, BufferAssumption
  <1>3. CASE buffer[Next0].at # 1
    BY <1>3, BufferAssumption DEF HeaderSizes
  <1> QED BY <1>2, <1>3

LEMMA InitBounded == Init => Bounded
  <1> SUFFICES ASSUME Init PROVE Bounded
    OBVIOUS
  <1>1. buffer \in [0 .. Capacity - 1 -> Bytes \cup {Zero}]
    BY DEF Init
  <1>2. wire \in Seq(Bytes) /\ unread \in Seq(Bytes) /\ handed \in Seq(Bytes \cup {Zero})
    BY DEF Init
  <1>3. TypeOK
    BY <1>1, <1>2, CapacityIsLarge DEF Init, TypeOK
  <1> QED BY <1>3, CapacityIsLarge, BufferAssumption DEF Init, Bounded, LeftOver, RoomToReceive, FreeSize

LEMMA StepBounded == Bounded /\ [Next]_vars => Bounded'
  <1> SUFFICES ASSUME Bounded, [Next]_vars PROVE Bounded'
    OBVIOUS
  <1> USE CapacityIsLarge, BufferAssumption
  <1>0. TypeOK /\ Capacity' = Capacity
    BY DEF Bounded, Capacity
  <1>1. CASE UNCHANGED vars
    BY <1>1 DEF vars, Bounded, TypeOK, LeftOver, RoomToReceive, DataSize, FreeSize, Capacity
  <1>2. ASSUME NEW p \in Packets, PeerSends(p) PROVE Bounded'
    <2>1. wire' \in Seq(Bytes)
      BY <1>0, <1>2, ContentsType, ConcatProperties DEF PeerSends, TypeOK
    <2>2. UNCHANGED <<buffer, readPos, writePos, processLen, pc, unread, handed>>
      BY <1>2 DEF PeerSends
    <2> QED BY <2>1, <2>2 DEF Bounded, TypeOK, LeftOver, RoomToReceive, DataSize, FreeSize, Capacity
  <1>3. ASSUME NEW n \in 1 .. MaxWire, ProcessRecv(n) PROVE Bounded'
    <2>1. n \in 1 .. Len(wire) /\ n <= FreeSize /\ wire \in Seq(Bytes) /\ unread \in Seq(Bytes)
      BY <1>0, <1>3 DEF ProcessRecv, TypeOK
    <2>2. SubSeq(wire, 1, n) \in Seq(Bytes) /\ wire' \in Seq(Bytes)
      <3>1. \A i \in 1 .. Len(wire) : wire[i] \in Bytes
        BY <2>1, ElementOfSeq
      <3> QED BY <1>3, <2>1, <3>1, SubSeqProperties DEF ProcessRecv
    <2>3. unread' \in Seq(Bytes)
      BY <1>3, <2>1, <2>2, ConcatProperties DEF ProcessRecv
    <2>4. buffer' \in [0 .. Capacity - 1 -> Bytes \cup {Zero}]
      <3>1. \A i \in writePos .. writePos + n - 1 : wire[i - writePos + 1] \in Bytes
        BY <1>0, <2>1, ElementOfSeq DEF TypeOK
      <3> QED BY <1>0, <1>3, <3>1 DEF ProcessRecv, TypeOK
    <2>5. writePos' = writePos + n /\ readPos' = readPos /\ processLen' = 0 /\ pc' = "parse"
          /\ handed' = handed
      BY <1>3 DEF ProcessRecv
    <2>6. TypeOK'
      BY <1>0, <2>1, <2>2, <2>3, <2>4, <2>5 DEF TypeOK, FreeSize, Capacity
    <2> QED BY <2>5, <2>6 DEF Bounded, LeftOver, RoomToReceive
  <1>4. ASSUME OnRecvPacket PROVE Bounded'
    <2>1. Next0 \in 0 .. Capacity - 1
      BY <1>0, <1>4 DEF OnRecvPacket, HeaderThere, TypeOK, Next0, DataSize
    <2>2. PICK size \in HeaderSizes :
              /\ Whole(size)
              /\ handed' = [i \in 1 .. size |-> buffer[Next0 + i - 1]]
              /\ processLen' = processLen + size
              /\ unread' = SubSeq(unread, size + 1, Len(unread))
      BY <1>4 DEF OnRecvPacket
    <2>3. size \in 0 .. BufferSize
      BY <1>0, <2>1, HeaderSizesType DEF TypeOK
    <2>4. handed' \in Seq(Bytes \cup {Zero})
      <3>1. \A i \in 1 .. size : Next0 + i - 1 \in 0 .. Capacity - 1
        BY <1>0, <2>1, <2>2, <2>3 DEF Whole, DataSize, Next0, TypeOK
      <3>2. \A i \in 1 .. size : buffer[Next0 + i - 1] \in Bytes \cup {Zero}
        BY <1>0, <3>1 DEF TypeOK
      <3> QED BY <2>2, <2>3, <3>2, SeqDef
    <2>5. unread' \in Seq(Bytes)
      BY <1>0, <2>2, <2>3, SubSeqProperties, ElementOfSeq DEF TypeOK
    <2>6. UNCHANGED <<buffer, readPos, writePos, pc, wire>> /\ pc = "parse"
      BY <1>4 DEF OnRecvPacket
    <2>7. processLen' \in 0 .. writePos' - readPos'
      BY <1>0, <2>2, <2>3, <2>6 DEF TypeOK, Whole, DataSize
    <2>8. TypeOK'
      BY <1>0, <2>4, <2>5, <2>6, <2>7 DEF TypeOK, Capacity
    <2> QED BY <2>6, <2>8 DEF Bounded, LeftOver, RoomToReceive
  <1>5. ASSUME OnRead PROVE Bounded'
    <2>1. processLen <= DataSize /\ Next0 \in readPos .. writePos
      BY <1>0 DEF TypeOK, DataSize, Next0
    <2>2. /\ readPos' = Next0 /\ writePos' = writePos /\ processLen' = 0 /\ pc' = "clean"
          /\ handed' = <<>> /\ UNCHANGED <<buffer, wire, unread>>
      BY <1>0, <1>5, <2>1 DEF OnRead, TypeOK, DataSize
    <2>3. TypeOK'
      BY <1>0, <2>1, <2>2 DEF TypeOK, Capacity
    <2>4. DataSize - processLen < BufferSize
      <3>1. CASE ~HeaderThere
        BY <1>0, <3>1 DEF HeaderThere, TypeOK, DataSize
      <3>2. CASE HeaderThere
        <4>1. Next0 \in DOMAIN buffer
          BY <1>0, <3>2 DEF HeaderThere, TypeOK, Next0, DataSize
        <4>2. PICK size \in HeaderSizes : ~Whole(size)
          BY <1>5, <3>2 DEF OnRead
        <4>3. size \in 0 .. BufferSize
          BY <1>0, <4>1, HeaderSizesType
        <4> QED BY <1>0, <4>2, <4>3 DEF Whole, DataSize, TypeOK
      <3> QED BY <3>1, <3>2
    <2>5. DataSize' = DataSize - processLen
      BY <1>0, <2>2 DEF DataSize, Next0, TypeOK
    <2> QED BY <2>2, <2>3, <2>4, <2>5 DEF Bounded, LeftOver, RoomToReceive
  <1>6. ASSUME Clean PROVE Bounded'
    <2>1. DataSize \in 0 .. BufferSize - 1 /\ processLen = 0
      BY <1>0, <1>6 DEF Clean, Bounded, LeftOver, TypeOK, DataSize
    <2>2. pc' = "receive" /\ UNCHANGED <<processLen, wire, unread, handed>>
      BY <1>6 DEF Clean
    <2>3. \/ DataSize = 0 /\ Reset
          \/ Crowded /\ Move
          \/ DataSize # 0 /\ ~Crowded /\ UNCHANGED <<buffer, readPos, writePos>>
      BY <1>6 DEF Clean
    <2>4. buffer' \in [0 .. Capacity - 1 -> Bytes \cup {Zero}]
      <3>1. CASE Move
        <4>1. \A i \in 0 .. Capacity - 1 : i < DataSize => readPos + i \in 0 .. Capacity - 1
          BY <1>0, <2>1 DEF TypeOK, DataSize
        <4> QED BY <1>0, <3>1, <4>1 DEF Move, TypeOK
      <3> QED BY <1>0, <2>3, <3>1 DEF TypeOK, Reset
    <2>5. /\ writePos' \in Nat /\ writePos' <= Capacity - BufferSize
          /\ readPos' \in Nat /\ readPos' <= writePos'
      <3>1. CASE Reset
        BY <3>1 DEF Reset
      <3>2. CASE Move
        BY <2>1, <3>2 DEF Move
      <3>3. CASE ~Crowded /\ DataSize # 0 /\ UNCHANGED <<buffer, readPos, writePos>>
        BY <1>0, <3>3 DEF Crowded, FreeSize, TypeOK
      <3> QED BY <2>3, <3>1, <3>2, <3>3
    <2>6. writePos' \in 0 .. Capacity /\ readPos' \in 0 .. writePos'
      BY <2>5
    <2>7. processLen' \in 0 .. writePos' - readPos'
      <3>1. PICK w \in Nat, r \in Nat : w = writePos' /\ r = readPos'
        BY <2>5
      <3>2. r <= w
        BY <2>5, <3>1
      <3>3. 0 \in 0 .. w - r
        BY <3>2
      <3>4. processLen' = 0
        BY <2>1, <2>2
      <3> QED BY <3>1, <3>3, <3>4
    <2>8. TypeOK'
      BY <1>0, <2>2, <2>4, <2>6, <2>7 DEF TypeOK, Capacity
    <2>9. FreeSize' >= BufferSize
      <3>1. FreeSize' = Capacity - writePos'
        BY DEF FreeSize, Capacity
      <3>2. PICK w \in Nat : w = writePos'
        BY <2>5
      <3>3. w <= Capacity - BufferSize
        BY <2>5, <3>2
      <3>4. Capacity - w >= BufferSize
        BY <3>3
      <3> QED BY <3>1, <3>2, <3>4
    <2> QED BY <2>1, <2>2, <2>8, <2>9 DEF Bounded, LeftOver, RoomToReceive
  <1> QED BY <1>1, <1>2, <1>3, <1>4, <1>5, <1>6 DEF Next

LEMMA AlwaysBounded == Spec => []Bounded
  BY InitBounded, StepBounded, PTL DEF Spec

(* The cursors stay in the buffer and in their order, and OnRead never finds
   that OnRecv consumed more than there was. *)
THEOREM CursorsInBounds == Spec => []TypeOK
  <1>1. Bounded => TypeOK
    BY DEF Bounded
  <1> QED BY <1>1, AlwaysBounded, PTL

(* WSARecv always gets room for a whole buffer: a receive of 0 bytes only ever
   means that the peer has left. *)
THEOREM AlwaysRoom == Spec => []RoomToReceive
  <1>1. Bounded => RoomToReceive
    BY DEF Bounded
  <1> QED BY <1>1, AlwaysBounded, PTL

(* What Clean moves lies wholly behind where it moves it. *)
THEOREM CopiesAreDisjoint == Spec => []CopyNeverOverlaps
  <1>1. Bounded => CopyNeverOverlaps
    <2> SUFFICES ASSUME Bounded, pc = "clean", Crowded PROVE DataSize <= readPos
      BY DEF CopyNeverOverlaps
    <2>1. DataSize < BufferSize /\ FreeSize < BufferSize
      BY DEF Bounded, LeftOver, Crowded
    <2> QED BY <2>1, CapacityIsLarge, BufferAssumption DEF Bounded, TypeOK, DataSize, FreeSize
  <1> QED BY <1>1, AlwaysBounded, PTL
------------------------------------------------------------------------------
(* A stream of whole packets: every byte of it has its packet around it. *)
PacketAt(s, k, p) ==
    /\ k >= 1 /\ k + Size[p] - 1 <= Len(s)
    /\ \A j \in 1 .. Size[p] : s[k + j - 1] = Byte(p, j)

Framed(s) ==
    \A i \in 1 .. Len(s) :
        /\ s[i].at <= Size[s[i].packet]
        /\ PacketAt(s, i + 1 - s[i].at, s[i].packet)

(* The unread bytes are those of the buffer behind the parser. *)
Placed ==
    /\ pc = "parse" \/ processLen = 0
    /\ Len(unread) = DataSize - processLen
    /\ \A i \in 1 .. Len(unread) : buffer[Next0 + i - 1] = unread[i]

(* More is waited for only while the first packet is not there in full. *)
Incomplete ==
    pc \in {"receive", "clean"} /\ unread # <<>> => Len(unread) < Size[unread[1].packet]

Kept == Bounded /\ Placed /\ Framed(unread \o wire) /\ Incomplete /\ WholePackets

(* A byte is a place in a packet, and packets are at least headers. *)
LEMMA ByteFacts ==
    ASSUME NEW b \in Bytes
    PROVE  /\ b.packet \in Packets /\ b.at \in 1 .. BufferSize
           /\ Size[b.packet] \in HeaderSize .. BufferSize /\ Size[b.packet] >= 1
  <1>1. PICK p \in Packets, i \in 1 .. BufferSize : b = Byte(p, i)
    BY DEF Bytes
  <1>2. b.packet = p /\ b.at = i
    BY <1>1 DEF Byte
  <1> QED BY <1>2, SizeAssumption, BufferAssumption

(* The bytes of a packet. *)
LEMMA ContentsFacts ==
    ASSUME NEW p \in Packets
    PROVE  /\ Contents(p) \in Seq(Bytes) /\ Len(Contents(p)) = Size[p]
           /\ Size[p] \in Nat /\ Size[p] >= 1 /\ Size[p] <= BufferSize
           /\ \A j \in 1 .. Size[p] : /\ Contents(p)[j] = Byte(p, j)
                                      /\ Byte(p, j).packet = p /\ Byte(p, j).at = j
  <1>1. Size[p] \in HeaderSize .. BufferSize /\ Contents(p) \in Seq(Bytes)
    BY ContentsType
  <1>2. Size[p] \in Nat /\ Size[p] >= 1 /\ Size[p] <= BufferSize
    BY <1>1, BufferAssumption
  <1>3. Len(Contents(p)) = Size[p] /\ \A j \in 1 .. Size[p] : Contents(p)[j] = Byte(p, j)
    BY <1>2 DEF Contents
  <1> QED BY <1>1, <1>2, <1>3 DEF Byte

(* A stream of whole packets begins with one. *)
LEMMA FramedFirst ==
    ASSUME NEW s \in Seq(Bytes), Framed(s), s # <<>>
    PROVE  \E p \in Packets : /\ s[1].packet = p /\ s[1].at = 1
                              /\ Size[p] <= Len(s)
                              /\ \A j \in 1 .. Size[p] : s[j] = Byte(p, j)
  <1> DEFINE p == s[1].packet
  <1>1. Len(s) \in Nat /\ 1 \in 1 .. Len(s) /\ s[1] \in Bytes
    BY EmptySeq, ElementOfSeq
  <1>2. p \in Packets /\ s[1].at \in 1 .. BufferSize /\ Size[p] \in Nat
    BY <1>1, ByteFacts, BufferAssumption
  <1>3. PacketAt(s, 1 + 1 - s[1].at, p)
    BY <1>1 DEF Framed
  <1>4. s[1].at = 1
    BY <1>2, <1>3, BufferAssumption DEF PacketAt
  <1>5. PacketAt(s, 1, p)
    <2>1. 1 + 1 - s[1].at = 1
      BY <1>4
    <2> QED BY <1>3, <2>1
  <1>6. Size[p] <= Len(s) /\ \A j \in 1 .. Size[p] : s[j] = Byte(p, j)
    BY <1>1, <1>2, <1>5 DEF PacketAt
  <1> QED BY <1>2, <1>4, <1>6

(* A whole packet may follow a stream of whole packets. *)
LEMMA FramedConcat ==
    ASSUME NEW s \in Seq(Bytes), NEW p \in Packets, Framed(s)
    PROVE  Framed(s \o Contents(p))
  <1> DEFINE c == Contents(p)
             t == s \o c
  <1>1. /\ c \in Seq(Bytes) /\ Len(c) = Size[p] /\ Size[p] \in Nat /\ Size[p] >= 1
        /\ \A j \in 1 .. Size[p] : c[j] = Byte(p, j) /\ c[j].packet = p /\ c[j].at = j
    BY ContentsFacts
  <1> HIDE DEF c
  <1>2. /\ Len(s) \in Nat /\ Len(t) = Len(s) + Size[p]
        /\ \A i \in 1 .. Len(s) : t[i] = s[i]
        /\ \A j \in 1 .. Size[p] : t[Len(s) + j] = c[j]
    <2>1. Len(t) = Len(s) + Len(c)
          /\ \A i \in 1 .. Len(s) + Len(c) : t[i] = IF i <= Len(s) THEN s[i] ELSE c[i - Len(s)]
      BY <1>1, ConcatProperties
    <2>2. Len(s) \in Nat
      OBVIOUS
    <2> HIDE DEF t
    <2>3. \A j \in 1 .. Size[p] : t[Len(s) + j] = c[j]
      <3> SUFFICES ASSUME NEW j \in 1 .. Size[p] PROVE t[Len(s) + j] = c[j]
        OBVIOUS
      <3>1. Len(s) + j \in 1 .. Len(s) + Len(c) /\ ~(Len(s) + j <= Len(s))
            /\ (Len(s) + j) - Len(s) = j
        BY <1>1, <2>2
      <3> QED BY <2>1, <3>1
    <2>4. \A i \in 1 .. Len(s) : i \in 1 .. Len(s) + Len(c) /\ i <= Len(s)
      BY <1>1, <2>2
    <2>5. \A i \in 1 .. Len(s) : t[i] = s[i]
      BY <2>1, <2>4
    <2> QED BY <1>1, <2>1, <2>2, <2>3, <2>5
  <1> HIDE DEF t
  <1>3. ASSUME NEW i \in 1 .. Len(s)
        PROVE  t[i].at <= Size[t[i].packet] /\ PacketAt(t, i + 1 - t[i].at, t[i].packet)
    <2>1. t[i] = s[i] /\ s[i] \in Bytes
      BY <1>2, ElementOfSeq
    <2> DEFINE k == i + 1 - s[i].at
               q == s[i].packet
    <2>2. PacketAt(s, k, q) /\ s[i].at <= Size[q]
      BY DEF Framed
    <2>3. k \in Int /\ Size[q] \in Nat
      BY <2>1, ByteFacts, BufferAssumption
    <2> HIDE DEF k, q
    <2>4. \A j \in 1 .. Size[q] : k + j - 1 \in 1 .. Len(s)
      BY <1>2, <2>2, <2>3 DEF PacketAt
    <2>5. \A j \in 1 .. Size[q] : t[k + j - 1] = Byte(q, j)
      BY <1>2, <2>2, <2>4 DEF PacketAt
    <2>6. k >= 1 /\ k + Size[q] - 1 <= Len(t)
      BY <1>1, <1>2, <2>2, <2>3 DEF PacketAt
    <2>7. PacketAt(t, k, q)
      BY <2>5, <2>6 DEF PacketAt
    <2> QED BY <2>1, <2>2, <2>7 DEF k, q
  <1>4. ASSUME NEW j \in 1 .. Size[p]
        PROVE  /\ t[Len(s) + j].at <= Size[t[Len(s) + j].packet]
               /\ PacketAt(t, (Len(s) + j) + 1 - t[Len(s) + j].at, t[Len(s) + j].packet)
    <2>1. t[Len(s) + j].packet = p /\ t[Len(s) + j].at = j
      BY <1>1, <1>2
    <2>2. \A i \in 1 .. Size[p] : (Len(s) + 1) + i - 1 = Len(s) + i
      BY <1>1, <1>2
    <2>3. PacketAt(t, Len(s) + 1, p)
      BY <1>1, <1>2, <2>2 DEF PacketAt
    <2>4. (Len(s) + j) + 1 - j = Len(s) + 1
      BY <1>2
    <2> QED BY <1>1, <2>1, <2>3, <2>4
  <1>5. ASSUME NEW i \in 1 .. Len(t), i \notin 1 .. Len(s)
        PROVE  \E j \in 1 .. Size[p] : i = Len(s) + j
    <2>1. i - Len(s) \in 1 .. Size[p] /\ i = Len(s) + (i - Len(s))
      BY <1>1, <1>2, <1>5
    <2> QED BY <2>1
  <1>6. Framed(t)
    BY <1>3, <1>4, <1>5 DEF Framed
  <1> QED BY <1>6 DEF t, c

(* A stream of whole packets without its first is one. *)
LEMMA FramedRest ==
    ASSUME NEW s \in Seq(Bytes), Framed(s), s # <<>>, NEW p \in Packets, s[1].packet = p
    PROVE  Framed(SubSeq(s, Size[p] + 1, Len(s)))
  <1> DEFINE n == Size[p]
             t == SubSeq(s, n + 1, Len(s))
  <1>1. /\ n \in Nat /\ n >= 1 /\ n <= Len(s) /\ Len(s) \in Nat
        /\ \A j \in 1 .. n : s[j] = Byte(p, j)
    BY FramedFirst, ContentsFacts
  <1>2. /\ Len(t) = Len(s) - n
        /\ \A i \in 1 .. Len(s) - n : t[i] = s[n + i]
    <2>1. \A i \in n + 1 .. Len(s) : s[i] \in Bytes
      BY <1>1, ElementOfSeq
    <2>2. \A i \in 1 .. Len(s) - (n + 1) + 1 : t[i] = s[(n + 1) + i - 1]
      BY <1>1, <2>1, SubSeqProperties
    <2>3. Len(t) = IF n + 1 <= Len(s) THEN Len(s) - (n + 1) + 1 ELSE 0
      BY <1>1, <2>1, SubSeqProperties
    <2> HIDE DEF t
    <2>4. Len(t) = Len(s) - n
      BY <1>1, <2>3
    <2>5. \A i \in 1 .. Len(s) - n : t[i] = s[n + i]
      <3> SUFFICES ASSUME NEW i \in 1 .. Len(s) - n PROVE t[i] = s[n + i]
        OBVIOUS
      <3>1. i \in 1 .. Len(s) - (n + 1) + 1 /\ (n + 1) + i - 1 = n + i
        BY <1>1
      <3> QED BY <2>2, <3>1
    <2> QED BY <2>4, <2>5
  <1> HIDE DEF t, n
  <1>3. ASSUME NEW i \in 1 .. Len(t)
        PROVE  t[i].at <= Size[t[i].packet] /\ PacketAt(t, i + 1 - t[i].at, t[i].packet)
    <2> DEFINE q == t[i].packet
               a == t[i].at
               k == (n + i) + 1 - a
    <2>1. n + i \in 1 .. Len(s) /\ t[i] = s[n + i]
      BY <1>1, <1>2
    <2>2. t[i] \in Bytes
      BY <2>1, ElementOfSeq
    <2>3. /\ q \in Packets /\ a \in 1 .. BufferSize /\ Size[q] \in Nat /\ Size[q] >= 1
          /\ BufferSize \in Nat
      BY <2>2, ByteFacts, BufferAssumption
    <2>4. a <= Size[q] /\ PacketAt(s, k, q)
      BY <2>1 DEF Framed
    <2> HIDE DEF q, a
    <2>5. k > n
      <3> SUFFICES ASSUME k <= n PROVE FALSE
        BY <1>1, <2>3
      <3>1. k \in 1 .. n /\ s[k] = Byte(q, 1)
        <4>1. k >= 1 /\ k \in Int
          BY <1>1, <2>3, <2>4 DEF PacketAt
        <4>2. s[k + 1 - 1] = Byte(q, 1)
          BY <2>3, <2>4 DEF PacketAt
        <4> QED BY <1>1, <4>1, <4>2
      <3>2. s[k] = Byte(p, k)
        BY <1>1, <3>1
      <3>3. q = p /\ k = 1
        BY <3>1, <3>2 DEF Byte
      <3>4. a = n + i
        BY <1>1, <2>3, <3>3
      <3> QED BY <1>1, <2>3, <2>4, <3>3, <3>4 DEF n
    <2>6. PacketAt(t, i + 1 - a, q)
      <3>1. i + 1 - a = k - n /\ k - n >= 1 /\ k \in Int
        BY <1>1, <2>3, <2>5
      <3>2. k - n + Size[q] - 1 <= Len(t)
        BY <1>1, <1>2, <2>3, <2>4 DEF PacketAt
      <3>3. ASSUME NEW j \in 1 .. Size[q] PROVE t[(k - n) + j - 1] = Byte(q, j)
        <4>1. (k - n) + j - 1 \in 1 .. Len(s) - n /\ n + ((k - n) + j - 1) = k + j - 1
          BY <1>1, <1>2, <2>3, <3>1, <3>2
        <4>2. s[k + j - 1] = Byte(q, j)
          BY <2>4 DEF PacketAt
        <4> QED BY <1>2, <4>1, <4>2
      <3> HIDE DEF k
      <3>4. PacketAt(t, k - n, q)
        BY <3>1, <3>2, <3>3 DEF PacketAt
      <3> QED BY <3>1, <3>4
    <2> QED BY <2>4, <2>6 DEF q, a
  <1>4. Framed(t)
    BY <1>3 DEF Framed
  <1> QED BY <1>4 DEF t, n

(* A sequence that loses its first n elements in front of another. *)
LEMMA RestOfConcat ==
    ASSUME NEW u \in Seq(Bytes), NEW w \in Seq(Bytes), NEW n \in 0 .. Len(u)
    PROVE  SubSeq(u \o w, n + 1, Len(u \o w)) = SubSeq(u, n + 1, Len(u)) \o w
  <1> DEFINE a == SubSeq(u, n + 1, Len(u))
             b == SubSeq(u \o w, n + 1, Len(u \o w))
  <1>1. /\ Len(u) \in Nat /\ Len(w) \in Nat /\ n \in Nat /\ n <= Len(u)
        /\ u \o w \in Seq(Bytes) /\ Len(u \o w) = Len(u) + Len(w)
    BY ConcatProperties
  <1>2. /\ a \in Seq(Bytes) /\ Len(a) = Len(u) - n
        /\ \A i \in 1 .. Len(u) - n : a[i] = u[n + i]
    <2>1. \A i \in n + 1 .. Len(u) : u[i] \in Bytes
      BY <1>1, ElementOfSeq
    <2>2. /\ a \in Seq(Bytes) /\ Len(a) = IF n + 1 <= Len(u) THEN Len(u) - (n + 1) + 1 ELSE 0
          /\ \A i \in 1 .. Len(u) - (n + 1) + 1 : a[i] = u[(n + 1) + i - 1]
      BY <1>1, <2>1, SubSeqProperties
    <2> HIDE DEF a
    <2>3. \A i \in 1 .. Len(u) - n : i \in 1 .. Len(u) - (n + 1) + 1 /\ (n + 1) + i - 1 = n + i
      BY <1>1
    <2>4. \A i \in 1 .. Len(u) - n : a[i] = u[n + i]
      BY <2>2, <2>3
    <2>5. Len(a) = Len(u) - n
      <3>1. CASE n + 1 <= Len(u)
        BY <1>1, <2>2, <3>1
      <3>2. CASE ~(n + 1 <= Len(u))
        <4>1. n = Len(u)
          BY <1>1, <3>2
        <4> QED BY <1>1, <2>2, <3>2, <4>1
      <3> QED BY <3>1, <3>2
    <2> QED BY <2>2, <2>4, <2>5
  <1>3. /\ b \in Seq(Bytes) /\ Len(b) = Len(u) + Len(w) - n
        /\ \A i \in 1 .. Len(u) + Len(w) - n : b[i] = (u \o w)[n + i]
    <2> DEFINE m == Len(u \o w)
    <2>1. \A i \in n + 1 .. m : (u \o w)[i] \in Bytes
      BY <1>1, ElementOfSeq
    <2>2. /\ b \in Seq(Bytes) /\ Len(b) = IF n + 1 <= m THEN m - (n + 1) + 1 ELSE 0
          /\ \A i \in 1 .. m - (n + 1) + 1 : b[i] = (u \o w)[(n + 1) + i - 1]
      BY <1>1, <2>1, SubSeqProperties
    <2>3. m = Len(u) + Len(w)
      BY <1>1
    <2> HIDE DEF b, m
    <2>4. \A i \in 1 .. Len(u) + Len(w) - n :
             i \in 1 .. m - (n + 1) + 1 /\ (n + 1) + i - 1 = n + i
      BY <1>1, <2>3
    <2>5. \A i \in 1 .. Len(u) + Len(w) - n : b[i] = (u \o w)[n + i]
      BY <2>2, <2>4
    <2>6. Len(b) = Len(u) + Len(w) - n
      BY <1>1, <2>2, <2>3
    <2> QED BY <2>2, <2>5, <2>6
  <1> HIDE DEF a, b
  <1>4. /\ a \o w \in Seq(Bytes) /\ Len(a \o w) = Len(u) + Len(w) - n
        /\ \A i \in 1 .. Len(u) + Len(w) - n :
              (a \o w)[i] = IF i <= Len(u) - n THEN a[i] ELSE w[i - (Len(u) - n)]
    <2>0. /\ a \o w \in Seq(Bytes) /\ Len(a \o w) = Len(a) + Len(w)
          /\ \A i \in 1 .. Len(a) + Len(w) :
                (a \o w)[i] = IF i <= Len(a) THEN a[i] ELSE w[i - Len(a)]
      <3>1. a \in Seq(Bytes)
        BY <1>2
      <3> QED BY <3>1, ConcatProperties
    <2>1. /\ a \o w \in Seq(Bytes) /\ Len(a \o w) = (Len(u) - n) + Len(w)
          /\ \A i \in 1 .. (Len(u) - n) + Len(w) :
                (a \o w)[i] = IF i <= Len(u) - n THEN a[i] ELSE w[i - (Len(u) - n)]
      BY <1>2, <2>0
    <2>2. (Len(u) - n) + Len(w) = Len(u) + Len(w) - n
      BY <1>1
    <2> QED BY <2>1, <2>2
  <1>5. ASSUME NEW i \in 1 .. Len(u) + Len(w) - n PROVE b[i] = (a \o w)[i]
    <2>1. n + i \in 1 .. Len(u) + Len(w) /\ i - (Len(u) - n) = (n + i) - Len(u)
      BY <1>1
    <2>2. (u \o w)[n + i] = IF n + i <= Len(u) THEN u[n + i] ELSE w[(n + i) - Len(u)]
      BY <2>1, ConcatProperties
    <2>3. CASE i <= Len(u) - n
      <3>1. i \in 1 .. Len(u) - n /\ n + i <= Len(u)
        BY <1>1, <2>3
      <3> QED BY <1>2, <1>3, <1>4, <2>2, <2>3, <3>1
    <2>4. CASE ~(i <= Len(u) - n)
      <3>1. ~(n + i <= Len(u))
        BY <1>1, <2>4
      <3> QED BY <1>3, <1>4, <2>1, <2>2, <2>4, <3>1
    <2> QED BY <2>3, <2>4
  <1>6. Len(b) = Len(a \o w)
    BY <1>3, <1>4
  <1>7. b = a \o w
    BY <1>3, <1>4, <1>5, <1>6, SeqEqual
  <1> QED BY <1>7 DEF a, b

(* The first unread byte begins a packet, of which the next ones are. *)
LEMMA FirstUnread ==
    ASSUME TypeOK, Framed(unread \o wire), unread # <<>>
    PROVE  \E p \in Packets :
              /\ unread[1].packet = p /\ unread[1].at = 1
              /\ \A j \in 1 .. Size[p] : j <= Len(unread) => unread[j] = Byte(p, j)
  <1> DEFINE s == unread \o wire
  <1>1. unread \in Seq(Bytes) /\ wire \in Seq(Bytes) /\ Len(unread) \in Nat \ {0}
    BY EmptySeq DEF TypeOK
  <1>2. /\ s \in Seq(Bytes) /\ Len(s) = Len(unread) + Len(wire) /\ Len(wire) \in Nat
        /\ \A i \in 1 .. Len(unread) : s[i] = unread[i]
    <2>1. /\ s \in Seq(Bytes) /\ Len(s) = Len(unread) + Len(wire)
          /\ \A i \in 1 .. Len(unread) + Len(wire) :
                s[i] = IF i <= Len(unread) THEN unread[i] ELSE wire[i - Len(unread)]
      BY <1>1, ConcatProperties
    <2>2. Len(wire) \in Nat
      BY <1>1
    <2> HIDE DEF s
    <2>3. \A i \in 1 .. Len(unread) : i \in 1 .. Len(unread) + Len(wire) /\ i <= Len(unread)
      BY <1>1, <2>2
    <2> QED BY <2>1, <2>2, <2>3
  <1>3. Framed(s) /\ s # <<>>
    BY <1>1, <1>2
  <1> HIDE DEF s
  <1>4. PICK p \in Packets : /\ s[1].packet = p /\ s[1].at = 1
                             /\ \A j \in 1 .. Size[p] : s[j] = Byte(p, j)
    BY <1>2, <1>3, FramedFirst
  <1>5. \A j \in 1 .. Size[p] : j <= Len(unread) => j \in 1 .. Len(unread)
    BY <1>1, ContentsFacts
  <1> QED BY <1>1, <1>2, <1>4, <1>5

(* The parts of the invariant say what UnreadIsKept does. *)
LEMMA KeptIsUnread == Kept => UnreadIsKept
  <1> SUFFICES ASSUME Kept PROVE UnreadIsKept
    OBVIOUS
  <1>1. unread # <<>> => unread[1].at = 1
    BY FirstUnread DEF Kept, Bounded
  <1>2. pc = "receive" /\ unread # <<>> => Len(unread) < Size[unread[1].packet]
    BY DEF Kept, Incomplete
  <1> QED BY <1>1, <1>2 DEF Kept, Placed, UnreadIsKept

LEMMA InitKept == Init => Kept
  <1> SUFFICES ASSUME Init PROVE Kept
    OBVIOUS
  <1>1. Len(unread) = 0 /\ unread \o wire = <<>> /\ Len(unread \o wire) = 0
    BY DEF Init
  <1>2. Placed
    BY <1>1, BufferAssumption DEF Init, Placed, DataSize, Next0
  <1>3. Framed(unread \o wire)
    BY <1>1 DEF Framed
  <1>4. Incomplete /\ WholePackets
    BY DEF Init, Incomplete, WholePackets
  <1> QED BY <1>2, <1>3, <1>4, InitBounded DEF Kept

(* The peer's packet goes to the end of the stream. *)
LEMMA SendKept ==
    ASSUME Kept, NEW p \in Packets, PeerSends(p)
    PROVE  Placed' /\ Framed(unread \o wire)' /\ Incomplete' /\ WholePackets'
  <1>1. unread \in Seq(Bytes) /\ wire \in Seq(Bytes) /\ Contents(p) \in Seq(Bytes)
    BY ContentsFacts DEF Kept, Bounded, TypeOK
  <1>2. UNCHANGED <<buffer, readPos, writePos, processLen, pc, unread, handed>>
        /\ wire' = wire \o Contents(p)
    BY DEF PeerSends
  <1>3. Placed' /\ Incomplete' /\ WholePackets'
    BY <1>2 DEF Kept, Placed, Incomplete, WholePackets, DataSize, Next0
  <1>4. unread \o wire \in Seq(Bytes) /\ unread' \o wire' = (unread \o wire) \o Contents(p)
    BY <1>1, <1>2, ConcatProperties, ConcatAssociative
  <1>5. Framed((unread \o wire) \o Contents(p))
    BY <1>4, FramedConcat DEF Kept
  <1>6. Framed(unread' \o wire')
    BY <1>4, <1>5
  <1> QED BY <1>3, <1>6 DEF Framed, PacketAt

(* What is received goes from the wire to the end of the unread bytes. *)
LEMMA ReceiveKept ==
    ASSUME Kept, NEW n \in 1 .. MaxWire, ProcessRecv(n)
    PROVE  Placed' /\ Framed(unread \o wire)' /\ Incomplete' /\ WholePackets'
  <1> DEFINE got == SubSeq(wire, 1, n)
  <1>1. /\ unread \in Seq(Bytes) /\ wire \in Seq(Bytes) /\ n \in 1 .. Len(wire) /\ Len(wire) \in Nat
        /\ n <= FreeSize /\ processLen = 0 /\ pc = "receive"
        /\ Len(unread) = writePos - readPos /\ Len(unread) \in Nat
        /\ writePos \in 0 .. Capacity /\ readPos \in 0 .. writePos
        /\ buffer \in [0 .. Capacity - 1 -> Bytes \cup {Zero}]
    BY DEF ProcessRecv, Kept, Bounded, TypeOK, Placed, DataSize
  <1>2. /\ writePos' = writePos + n /\ readPos' = readPos /\ processLen' = 0 /\ pc' = "parse"
        /\ handed' = handed /\ unread' = unread \o got /\ wire' = SubSeq(wire, n + 1, Len(wire))
        /\ buffer' = [i \in DOMAIN buffer |->
                         IF i \in writePos .. writePos + n - 1 THEN wire[i - writePos + 1]
                                                               ELSE buffer[i]]
    BY DEF ProcessRecv
  <1>3. /\ got \in Seq(Bytes) /\ Len(got) = n /\ \A i \in 1 .. n : got[i] = wire[i]
        /\ got \o SubSeq(wire, n + 1, Len(wire)) = wire
        /\ SubSeq(wire, n + 1, Len(wire)) \in Seq(Bytes)
    <2>1. \A i \in 1 .. Len(wire) : wire[i] \in Bytes
      BY <1>1, ElementOfSeq
    <2>2. got \in Seq(Bytes) /\ Len(got) = n /\ \A i \in 1 .. n - 1 + 1 : got[i] = wire[1 + i - 1]
      BY <1>1, <2>1, SubSeqProperties
    <2>3. \A i \in 1 .. n : i \in 1 .. n - 1 + 1 /\ 1 + i - 1 = i
      BY <1>1
    <2>4. SubSeq(wire, n + 1, Len(wire)) \in Seq(Bytes)
      BY <1>1, <2>1, SubSeqProperties
    <2>5. got \o SubSeq(wire, n + 1, Len(wire)) = SubSeq(wire, 1, Len(wire))
      BY <1>1, ConcatAdjacentSubSeq
    <2>6. SubSeq(wire, 1, Len(wire)) = wire
      BY <1>1, SubSeqFull
    <2> HIDE DEF got
    <2> QED BY <2>2, <2>3, <2>4, <2>5, <2>6
  <1> HIDE DEF got
  <1>4. unread' \o wire' = unread \o wire
    <2> DEFINE rest == SubSeq(wire, n + 1, Len(wire))
    <2>1. unread \in Seq(Bytes) /\ got \in Seq(Bytes) /\ rest \in Seq(Bytes) /\ got \o rest = wire
      BY <1>1, <1>3
    <2>2. unread' = unread \o got /\ wire' = rest
      BY <1>2
    <2> HIDE DEF rest
    <2>3. \A a, b, c \in Seq(Bytes) : (a \o b) \o c = a \o (b \o c)
      BY ConcatAssociative
    <2>4. (unread \o got) \o rest = unread \o (got \o rest)
      BY <2>1, <2>3, Zenon
    <2> QED BY <2>1, <2>2, <2>4
  <1>5. Framed(unread \o wire)'
    BY <1>4 DEF Kept, Framed, PacketAt
  <1>6. /\ Len(unread') = Len(unread) + n
        /\ \A i \in 1 .. Len(unread) + n :
              unread'[i] = IF i <= Len(unread) THEN unread[i] ELSE got[i - Len(unread)]
    <2>1. unread \in Seq(Bytes) /\ got \in Seq(Bytes)
      BY <1>1, <1>3
    <2>2. /\ Len(unread \o got) = Len(unread) + Len(got)
          /\ \A i \in 1 .. Len(unread) + Len(got) :
                (unread \o got)[i] = IF i <= Len(unread) THEN unread[i] ELSE got[i - Len(unread)]
      BY <2>1, ConcatProperties
    <2>3. unread' = unread \o got /\ Len(got) = n
      BY <1>2, <1>3
    <2> QED BY <2>2, <2>3
  <1>7. ASSUME NEW i \in 1 .. Len(unread') PROVE buffer'[(readPos + 0) + i - 1] = unread'[i]
    <2> DEFINE k == (readPos + 0) + i - 1
    <2>1. k \in 0 .. Capacity - 1 /\ k \in DOMAIN buffer /\ i \in 1 .. Len(unread) + n
      BY <1>1, <1>6, CapacityIsLarge DEF FreeSize
    <2>2. CASE i <= Len(unread)
      <3>1. i \in 1 .. Len(unread) /\ k \notin writePos .. writePos + n - 1
        BY <1>1, <2>1, <2>2
      <3>2. buffer[k] = unread[i]
        BY <1>1, <3>1 DEF Kept, Placed, Next0
      <3> QED BY <1>2, <1>6, <2>1, <2>2, <3>1, <3>2
    <2>3. CASE ~(i <= Len(unread))
      <3>1. k \in writePos .. writePos + n - 1 /\ k - writePos + 1 = i - Len(unread)
            /\ i - Len(unread) \in 1 .. n
        BY <1>1, <2>1, <2>3
      <3> QED BY <1>2, <1>3, <1>6, <2>1, <2>3, <3>1
    <2> QED BY <2>2, <2>3
  <1>8. Placed'
    <2>1. Len(unread') = writePos' - readPos' - processLen'
      BY <1>1, <1>2, <1>6
    <2> QED BY <1>2, <1>7, <2>1 DEF Placed, DataSize, Next0
  <1>9. Incomplete' /\ WholePackets'
    BY <1>2 DEF Kept, Incomplete, WholePackets
  <1> QED BY <1>5, <1>8, <1>9

(* While a header is there, it is that of the packet that begins there. *)
LEMMA HeaderIsFirst ==
    ASSUME Kept, HeaderThere
    PROVE  /\ unread # <<>> /\ Len(unread) = DataSize - processLen
           /\ Size[unread[1].packet] \in Nat /\ Size[unread[1].packet] >= 1
           /\ HeaderSizes = {Size[unread[1].packet]}
  <1>1. unread \in Seq(Bytes) /\ Len(unread) = DataSize - processLen /\ Len(unread) >= HeaderSize
    BY DEF Kept, Bounded, TypeOK, Placed, HeaderThere
  <1>2. unread # <<>> /\ 1 \in 1 .. Len(unread)
    BY <1>1, BufferAssumption, EmptySeq
  <1>3. unread[1].at = 1 /\ unread[1].packet \in Packets
    BY <1>2, FirstUnread DEF Kept, Bounded
  <1>4. buffer[Next0] = unread[1]
    <2>1. buffer[Next0 + 1 - 1] = unread[1]
      BY <1>2 DEF Kept, Placed
    <2>2. Next0 + 1 - 1 = Next0
      BY DEF Kept, Bounded, TypeOK, Next0
    <2> QED BY <2>1, <2>2
  <1>5. Size[unread[1].packet] \in Nat /\ Size[unread[1].packet] >= 1
    BY <1>3, ContentsFacts
  <1> QED BY <1>1, <1>2, <1>3, <1>4, <1>5 DEF HeaderSizes

(* OnRecvPacket is given the first packet of the stream. *)
LEMMA PacketKept ==
    ASSUME Kept, OnRecvPacket
    PROVE  Placed' /\ Framed(unread \o wire)' /\ Incomplete' /\ WholePackets'
  <1> DEFINE p == unread[1].packet
             n == Size[p]
  <1>1. /\ unread # <<>> /\ Len(unread) = DataSize - processLen
        /\ n \in Nat /\ n >= 1 /\ HeaderSizes = {n}
    BY HeaderIsFirst DEF OnRecvPacket
  <1>2. /\ n <= DataSize - processLen
        /\ handed' = [i \in 1 .. n |-> buffer[Next0 + i - 1]]
        /\ processLen' = processLen + n
        /\ unread' = SubSeq(unread, n + 1, Len(unread))
        /\ UNCHANGED <<buffer, readPos, writePos, pc, wire>> /\ pc = "parse"
    BY <1>1 DEF OnRecvPacket, Whole
  <1>3. /\ unread \in Seq(Bytes) /\ wire \in Seq(Bytes) /\ Len(unread) \in Nat
        /\ Next0 \in Nat /\ processLen \in Nat /\ DataSize \in Nat
    BY DEF Kept, Bounded, TypeOK, Next0, DataSize
  <1>4. /\ p \in Packets /\ \A j \in 1 .. n : j <= Len(unread) => unread[j] = Byte(p, j)
    BY <1>1, FirstUnread DEF Kept, Bounded
  <1> HIDE DEF n, p
  <1>5. handed' = Contents(p)
    <2>1. \A i \in 1 .. n : i \in 1 .. Len(unread) /\ i <= Len(unread)
      BY <1>1, <1>2, <1>3
    <2>2. \A i \in 1 .. n : buffer[Next0 + i - 1] = Byte(p, i)
      BY <1>4, <2>1 DEF Kept, Placed
    <2> QED BY <1>2, <2>2 DEF Contents, n
  <1>6. WholePackets'
    BY <1>4, <1>5 DEF WholePackets, Contents
  <1>7. /\ Len(unread') = Len(unread) - n
        /\ \A i \in 1 .. Len(unread) - n : unread'[i] = unread[n + i]
    <2>1. \A i \in n + 1 .. Len(unread) : unread[i] \in Bytes
      BY <1>1, <1>3, ElementOfSeq
    <2>2. /\ Len(unread') = IF n + 1 <= Len(unread) THEN Len(unread) - (n + 1) + 1 ELSE 0
          /\ \A i \in 1 .. Len(unread) - (n + 1) + 1 : unread'[i] = unread[(n + 1) + i - 1]
      BY <1>1, <1>2, <1>3, <2>1, SubSeqProperties
    <2>3. \A i \in 1 .. Len(unread) - n :
             i \in 1 .. Len(unread) - (n + 1) + 1 /\ (n + 1) + i - 1 = n + i
      BY <1>1, <1>3
    <2>4. \A i \in 1 .. Len(unread) - n : unread'[i] = unread[n + i]
      BY <2>2, <2>3
    <2>5. Len(unread') = Len(unread) - n
      BY <1>1, <1>2, <1>3, <2>2
    <2> QED BY <2>4, <2>5
  <1>8. Placed'
    <2>1. Len(unread') = DataSize - processLen'
      BY <1>1, <1>2, <1>3, <1>7
    <2>2. ASSUME NEW i \in 1 .. Len(unread')
          PROVE  buffer[(Next0 + n) + i - 1] = unread'[i]
      <3>1. n + i \in 1 .. Len(unread) /\ (Next0 + n) + i - 1 = Next0 + (n + i) - 1
            /\ i \in 1 .. Len(unread) - n
        BY <1>1, <1>3, <1>7
      <3>2. buffer[Next0 + (n + i) - 1] = unread[n + i]
        BY <3>1 DEF Kept, Placed
      <3> QED BY <1>7, <3>1, <3>2
    <2>3. readPos + (processLen + n) = Next0 + n
      BY <1>1, <1>3 DEF Next0, Kept, Bounded, TypeOK
    <2> QED BY <1>2, <2>1, <2>2, <2>3 DEF Placed, DataSize, Next0
  <1>9. Framed(unread \o wire)'
    <2> DEFINE s == unread \o wire
    <2>1. s \in Seq(Bytes) /\ s # <<>> /\ s[1] = unread[1] /\ Framed(s)
      <3>1. s \in Seq(Bytes) /\ Len(s) = Len(unread) + Len(wire)
            /\ \A i \in 1 .. Len(unread) + Len(wire) :
                  s[i] = IF i <= Len(unread) THEN unread[i] ELSE wire[i - Len(unread)]
        BY <1>3, ConcatProperties
      <3>2. Framed(s) /\ Len(wire) \in Nat /\ Len(unread) >= 1
        BY <1>1, <1>2, <1>3 DEF Kept
      <3> HIDE DEF s
      <3>3. 1 \in 1 .. Len(unread) + Len(wire) /\ Len(s) >= 1
        BY <1>3, <3>1, <3>2
      <3> QED BY <3>1, <3>2, <3>3
    <2>2. Framed(SubSeq(s, n + 1, Len(s)))
      <3> HIDE DEF s
      <3>1. s[1].packet = p
        BY <2>1 DEF p
      <3> QED BY <1>4, <2>1, <3>1, FramedRest DEF n
    <2>3. SubSeq(s, n + 1, Len(s)) = unread' \o wire'
      <3>1. n \in 0 .. Len(unread)
        BY <1>1, <1>2, <1>3
      <3>2. SubSeq(s, n + 1, Len(s)) = SubSeq(unread, n + 1, Len(unread)) \o wire
        BY <1>3, <3>1, RestOfConcat
      <3> QED BY <1>2, <3>2
    <2>4. Framed(unread' \o wire')
      BY <2>2, <2>3
    <2> QED BY <2>4 DEF Framed, PacketAt
  <1>10. Incomplete'
    BY <1>2 DEF Incomplete
  <1> QED BY <1>6, <1>8, <1>9, <1>10

(* OnRecv leaves less than the packet it stops at. *)
LEMMA ReadKept ==
    ASSUME Kept, OnRead
    PROVE  Placed' /\ Framed(unread \o wire)' /\ Incomplete' /\ WholePackets'
  <1>1. /\ writePos \in Nat /\ readPos \in Nat /\ processLen \in 0 .. writePos - readPos
        /\ unread \in Seq(Bytes)
    BY DEF Kept, Bounded, TypeOK
  <1>2. /\ readPos' = Next0 /\ pc' = "clean" /\ processLen' = 0 /\ handed' = <<>>
        /\ UNCHANGED <<buffer, writePos, wire, unread>>
    BY <1>1 DEF OnRead, DataSize
  <1>3. Len(unread') = writePos' - readPos' - processLen' /\ readPos' + processLen' = Next0
    BY <1>1, <1>2 DEF Kept, Placed, DataSize, Next0
  <1>4. Placed'
    BY <1>2, <1>3 DEF Kept, Placed, DataSize, Next0
  <1>5. ASSUME unread # <<>> PROVE Len(unread) < Size[unread[1].packet]
    <2> DEFINE n == Size[unread[1].packet]
    <2>1. Len(unread) = DataSize - processLen
      BY DEF Kept, Placed
    <2>2. CASE HeaderThere
      <3>1. HeaderSizes = {n} /\ n \in Nat
        BY <2>2, HeaderIsFirst
      <3>2. ~Whole(n)
        BY <2>2, <3>1 DEF OnRead
      <3> QED BY <1>1, <2>1, <3>1, <3>2 DEF Whole, DataSize
    <2>3. CASE ~HeaderThere
      <3>1. PICK p \in Packets : unread[1].packet = p
        BY <1>5, FirstUnread DEF Kept, Bounded
      <3>2. n \in HeaderSize .. BufferSize
        BY <3>1, SizeAssumption
      <3> QED BY <1>1, <2>1, <2>3, <3>2, BufferAssumption DEF HeaderThere, DataSize
    <2> QED BY <2>2, <2>3
  <1>6. Incomplete'
    BY <1>2, <1>5 DEF Incomplete
  <1>7. Framed(unread \o wire)' /\ WholePackets'
    BY <1>2 DEF Kept, Framed, PacketAt, WholePackets
  <1> QED BY <1>4, <1>6, <1>7

(* Clean moves the bytes together with the cursors, or only cursors between
   which there is nothing. *)
LEMMA CleanKept ==
    ASSUME Kept, Clean
    PROVE  Placed' /\ Framed(unread \o wire)' /\ Incomplete' /\ WholePackets'
  <1>1. /\ pc = "clean" /\ pc' = "receive" /\ UNCHANGED <<processLen, wire, unread, handed>>
        /\ processLen = 0
    BY DEF Clean, Kept, Placed
  <1>2. Framed(unread \o wire)' /\ Incomplete' /\ WholePackets'
    BY <1>1 DEF Kept, Framed, PacketAt, Incomplete, WholePackets
  <1> SUFFICES Placed'
    BY <1>2
  <1>3. /\ writePos \in 0 .. Capacity /\ readPos \in 0 .. writePos /\ Capacity \in Nat
        /\ unread \in Seq(Bytes) /\ buffer \in [0 .. Capacity - 1 -> Bytes \cup {Zero}]
        /\ Len(unread) = writePos - readPos
    BY <1>1, CapacityIsLarge DEF Kept, Bounded, TypeOK, Placed, DataSize
  <1>4. \A i \in 1 .. Len(unread) : buffer[readPos + 0 + i - 1] = unread[i]
    BY <1>1 DEF Kept, Placed, Next0
  <1>5. CASE DataSize = 0 /\ Reset
    <2>1. Len(unread) = 0 /\ readPos' = 0 /\ writePos' = 0
      BY <1>3, <1>5 DEF DataSize, Reset
    <2>2. Len(unread') = writePos' - readPos' - processLen' /\ 1 .. Len(unread') = {}
      BY <1>1, <2>1
    <2>3. processLen' = 0
      BY <1>1
    <2> QED BY <2>2, <2>3 DEF Placed, DataSize
  <1>6. CASE Crowded /\ Move
    <2>1. /\ readPos' = 0 /\ writePos' = writePos - readPos
          /\ buffer' = [i \in DOMAIN buffer |->
                           IF i < DataSize THEN buffer[readPos + i] ELSE buffer[i]]
      BY <1>6 DEF Move, DataSize
    <2>2. ASSUME NEW i \in 1 .. Len(unread) PROVE buffer'[0 + 0 + i - 1] = unread[i]
      <3>1. 0 + 0 + i - 1 \in 0 .. Capacity - 1 /\ 0 + 0 + i - 1 < DataSize
            /\ readPos + (0 + 0 + i - 1) = readPos + 0 + i - 1
        BY <1>3 DEF DataSize
      <3> QED BY <1>3, <1>4, <2>1, <3>1
    <2>3. Len(unread') = writePos' - readPos' - processLen'
      BY <1>1, <1>3, <2>1
    <2>4. \A i \in 1 .. Len(unread') : buffer'[readPos' + processLen' + i - 1] = unread'[i]
      BY <1>1, <2>1, <2>2
    <2>5. processLen' = 0
      BY <1>1
    <2> QED BY <2>3, <2>4, <2>5 DEF Placed, DataSize, Next0
  <1>7. CASE UNCHANGED <<buffer, readPos, writePos>>
    <2>1. \A i \in 1 .. Len(unread') : buffer'[readPos' + processLen' + i - 1] = unread'[i]
      BY <1>1, <1>4, <1>7
    <2>2. Len(unread') = writePos' - readPos' - processLen'
      BY <1>1, <1>3, <1>7
    <2>3. processLen' = 0
      BY <1>1
    <2> QED BY <2>1, <2>2, <2>3 DEF Placed, DataSize, Next0
  <1> QED BY <1>5, <1>6, <1>7 DEF Clean

LEMMA StepKept == Kept /\ [Next]_vars => Kept'
  <1> SUFFICES ASSUME Kept, [Next]_vars PROVE Kept'
    OBVIOUS
  <1>1. Bounded'
    BY StepBounded DEF Kept
  <1>2. CASE UNCHANGED vars
    <2>1. Placed' /\ Framed(unread \o wire)' /\ Incomplete' /\ WholePackets'
      BY <1>2 DEF vars, Kept, Placed, Framed, PacketAt, Incomplete, WholePackets, DataSize, Next0
    <2> QED BY <1>1, <2>1 DEF Kept
  <1>3. CASE Next
    <2>1. Placed' /\ Framed(unread \o wire)' /\ Incomplete' /\ WholePackets'
      BY <1>3, SendKept, ReceiveKept, PacketKept, ReadKept, CleanKept DEF Next
    <2> QED BY <1>1, <2>1 DEF Kept
  <1> QED BY <1>2, <1>3

LEMMA AlwaysKept == Spec => []Kept
  BY InitKept, StepKept, PTL DEF Spec

(* What is received and not handed over stays in the buffer in its order, and
   more is waited for only while the first packet is incomplete. *)
THEOREM NothingLeftBehind == Spec => []UnreadIsKept
  <1> QED BY AlwaysKept, KeptIsUnread, PTL

(* However TCP cuts the stream, OnRecvPacket is given whole packets. *)
THEOREM PacketsAreWhole == Spec => []WholePackets
  <1>1. Kept => WholePackets
    BY DEF Kept
  <1> QED BY <1>1, AlwaysKept, PTL
==============================================================================
