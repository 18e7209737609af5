----------------------------- MODULE Serializer -----------------------------
(***************************************************************************)
(* How values travel in a packet: MakeSendBuffer measures a collection     *)
(* (GetDataSize) and writes it (Serialization), the handler of a received  *)
(* packet reads it back (Deserialization).  Each value is a tag and its    *)
(* words, lowest byte first; a string ends with a zero, an array with the  *)
(* largest word there is.                                                  *)
(*                                                                         *)
(* The decoder is started at the packet's body but with the length that    *)
(* includes the header, and its loop includes the last index: it goes on   *)
(* with what lies behind the packet in the receive buffer.  That is        *)
(* another packet, the rest of an older one, or the zeros of an unused     *)
(* buffer.                                                                 *)
(*                                                                         *)
(* Packets longer than a SendBufferChunk are not modelled.                 *)
(***************************************************************************)
EXTENDS Integers, SequencesExt

CONSTANTS Base,         (* the values of a BYTE: 256                         *)
          WideBytes,    (* sizeof(uint64_t); fewer than 8 in TLC's integers  *)
          Collections,  (* the collections that are sent                     *)
          Others,       (* those of the packets that may lie behind          *)
          Ids           (* the packets' ids                                  *)

HeaderSize == 4

(* InsertMemory: the value's bytes, shifted down one after the other. *)
Shifted(n, w) == LET s[i \in 0 .. w] == IF i = 0 THEN n ELSE s[i - 1] \div Base IN s
ToBytes(n, w) == [i \in 1 .. w |-> Shifted(n, w)[i - 1] % Base]

(* ConvertMemory: the sum of the bytes, each shifted up to its place. *)
Joined(s) ==
    LET n[i \in 1 .. Len(s) + 1] == IF i > Len(s) THEN 0 ELSE s[i] + Base * n[i + 1] IN n
FromBytes(s) == Joined(s)[1]

(* The tags, which the alternatives of PacketVariant are known by, the size of
   their words and the largest of these, of which every bit is set. *)
Byte == 1
Word == 2
String == 3
Wide == 4
Words == 5
Wides == 6
Types == Byte .. Wides
Width == <<1, 2, 1, WideBytes, 2, WideBytes>>
LargestOf(w) == FromBytes([i \in 1 .. w |-> Base - 1])
Largest(type) == LargestOf(Width[type])

DataOf(type) ==
    CASE type = String -> Seq(0 .. Base - 1)
      [] type \in {Words, Wides} ->
            {s \in Seq(0 .. Largest(type)) : Contains(s, Largest(type))}
      [] OTHER -> 0 .. Largest(type)
PacketVariant(v) == \E t \in Types : v \in [type : {t}, data : DataOf(t)]

First(s, x) == CHOOSE i \in DOMAIN s : s[i] = x /\ \A k \in 1 .. i - 1 : s[k] # x

(* What of a value's memory is the value: a string ends before its first
   zero, an array with its first largest word. *)
CString(s) == SubSeq(s, 1, First(Append(s, 0), 0) - 1)
Terminated(s, type) == SubSeq(s, 1, First(s, Largest(type)))
Meaning(v) ==
    [v EXCEPT !.data = IF v.type = String THEN CString(@)
                       ELSE IF v.type \in {Words, Wides} THEN Terminated(@, v.type)
                       ELSE @]

(* A value's words, the bytes of words in memory, and what Serialization
   writes for a value. *)
WordsOf(v) ==
    CASE v.type = String -> Append(CString(v.data), 0)
      [] v.type \in {Words, Wides} -> Terminated(v.data, v.type)
      [] OTHER -> <<v.data>>
InMemory(s, w) ==
    [j \in 1 .. w * Len(s) |-> ToBytes(s[(j - 1) \div w + 1], w)[((j - 1) % w) + 1]]
Encoded(v) ==
    <<v.type>>
    \o (IF v.type = String THEN ToBytes(Len(CString(v.data)), 2) ELSE <<>>)
    \o InMemory(WordsOf(v), Width[v.type])

(* Mistake: the string's zero is not counted. *)
SizeShort(v) ==
    CASE v.type = String -> 1 + 2 + Len(CString(v.data))
      [] v.type \in {Words, Wides} -> 1 + Width[v.type] * First(v.data, Largest(v.type))
      [] OTHER -> 1 + Width[v.type]

(* What GetDataSize counts for a value, for the first i of a collection, and
   what MakeSendBuffer keeps of the result. *)
Size(v) ==
    CASE v.type = String -> 1 + 2 + Len(CString(v.data)) + 1
      [] v.type \in {Words, Wides} -> 1 + Width[v.type] * First(v.data, Largest(v.type))
      [] OTHER -> 1 + Width[v.type]
Sizes(c) == LET n[i \in 0 .. Len(c)] == IF i = 0 THEN 0 ELSE n[i - 1] + Size(c[i]) IN n
GetDataSize(c) == Sizes(c)[Len(c)] % (Base * Base)

Header(size, id) == ToBytes(size, 2) \o ToBytes(id, 2)
Packet(c, id) ==
    Header(GetDataSize(c) + HeaderSize, id) \o FlattenSeq([i \in DOMAIN c |-> Encoded(c[i])])

(* A byte has room for every tag, and two bytes for an id and a size: a packet
   that fits in a chunk (6000 bytes) is no longer than a uint16_t can say. *)
ASSUME BaseAssumption == Base \in Nat /\ Base > Wides
ASSUME WideAssumption == WideBytes \in Nat /\ WideBytes > 2
ASSUME IdsAssumption == Ids \subseteq 0 .. Base * Base - 1
ASSUME CollectionsAssumption ==
    \A c \in Collections \cup Others :
        /\ c \in Seq(Range(c)) /\ \A v \in Range(c) : PacketVariant(v)
        /\ Sizes(c)[Len(c)] + HeaderSize < Base * Base
------------------------------------------------------------------------------
VARIABLES
    pc,           (* "write", then "read", then "done" or "astray"           *)
    sent,         (* the collection                                          *)
    dataSize,     (* MakeSendBuffer's dataSize                               *)
    body,         (* the bytes written behind the header                     *)
    memory,       (* the receive buffer from the packet on                   *)
    len,          (* Deserialization's argument                              *)
    currentByte,  (* its local                                               *)
    result        (* the values it has read                                  *)

vars == <<pc, sent, dataSize, body, memory, len, currentByte, result>>

Init ==
    /\ pc = "write"
    /\ sent \in Collections
    /\ dataSize = GetDataSize(sent)
    /\ body = <<>> /\ memory = <<>> /\ len = 0 /\ currentByte = 0 /\ result = <<>>
------------------------------------------------------------------------------
(* `result' counts the values written while pc = "write". *)
Serialization ==
    /\ pc = "write" /\ Len(result) < Len(sent)
    /\ LET v == sent[Len(result) + 1] IN
          /\ body' = body \o Encoded(v)
          /\ result' = Append(result, v)
    /\ UNCHANGED <<pc, sent, dataSize, memory, len, currentByte>>

(* The packet is sent and received; a packet lies, in full or from its k-th
   byte on, behind it.  Were the sizes not equal, MakeSendBuffer would return
   nullptr; SizesAgree says that they are. *)
OnRecvPacket ==
    /\ pc = "write" /\ Len(result) = Len(sent)
    /\ Len(body) = dataSize
    /\ \E id \in Ids, c \in Others : \E k \in 1 .. HeaderSize + GetDataSize(c) + 1 :
          LET next == Packet(c, id) IN
          memory' = Header(dataSize + HeaderSize, id) \o body \o SubSeq(next, k, Len(next))
    /\ len' = FromBytes(SubSeq(memory', 1, 2))
    /\ pc' = "read" /\ result' = <<>>
    /\ UNCHANGED <<sent, dataSize, body, currentByte>>

At(i) == IF HeaderSize + i < Len(memory) THEN memory[HeaderSize + i + 1] ELSE 0
WordAt(i, w) == FromBytes([k \in 1 .. w |-> At(i + k - 1)])
Tag == At(currentByte)
More == pc = "read" /\ currentByte <= len

Yields(type, data, end) ==
    /\ result' = Append(result, [type |-> type, data |-> data])
    /\ currentByte' = end
    /\ UNCHANGED <<pc, sent, dataSize, body, memory, len>>

ReadScalar ==
    /\ More /\ Tag \in {Byte, Word, Wide}
    /\ Yields(Tag, WordAt(currentByte + 1, Width[Tag]), currentByte + 1 + Width[Tag])

(* The length in front of a string is skipped; its zero is left for the
   loop, which steps over what is no tag. *)
ReadString ==
    /\ More /\ Tag = String
    /\ LET start == currentByte + 3
           n == CHOOSE n \in 0 .. Len(memory) :
                    At(start + n) = 0 /\ \A k \in 0 .. n - 1 : At(start + k) # 0
       IN  Yields(String, [k \in 1 .. n |-> At(start + k - 1)], start + n)

(* The k-th word of the array at the decoder's place, and its lengths. *)
Element(k) == WordAt(currentByte + 1 + (k - 1) * Width[Tag], Width[Tag])
Lengths ==
    {n \in 1 .. Len(memory) :
        Element(n) = Largest(Tag) /\ \A k \in 1 .. n - 1 : Element(k) # Largest(Tag)}

(* Mistake: the last word is not kept. *)
ReadArrayOpen ==
    /\ More /\ Tag \in {Words, Wides}
    /\ \E n \in Lengths :
          Yields(Tag, [k \in 1 .. n - 1 |-> Element(k)], currentByte + 1 + n * Width[Tag])

(* An array is read up to its end, which is kept. *)
ReadArray ==
    /\ More /\ Tag \in {Words, Wides}
    /\ \E n \in Lengths :
          Yields(Tag, [k \in 1 .. n |-> Element(k)], currentByte + 1 + n * Width[Tag])

(* An array without an end: the loop leaves the buffer. *)
RunAway ==
    /\ More /\ Tag \in {Words, Wides}
    /\ Lengths = {}
    /\ pc' = "astray"
    /\ UNCHANGED <<sent, dataSize, body, memory, len, currentByte, result>>

SkipByte ==
    /\ More /\ Tag \notin Types
    /\ currentByte' = currentByte + 1
    /\ UNCHANGED <<pc, sent, dataSize, body, memory, len, result>>

Return ==
    /\ pc = "read" /\ currentByte > len
    /\ pc' = "done"
    /\ UNCHANGED <<sent, dataSize, body, memory, len, currentByte, result>>

Deserialization ==
    ReadScalar \/ ReadString \/ ReadArray \/ RunAway \/ SkipByte \/ Return

Next == Serialization \/ OnRecvPacket \/ Deserialization

Spec == Init /\ [][Next]_vars
------------------------------------------------------------------------------
Meanings == [i \in DOMAIN sent |-> Meaning(sent[i])]

(* Serialization writes exactly the bytes GetDataSize counted, which are the
   bytes reserved for it; it never fails and never writes behind them. *)
SizesAgree ==
    pc = "write" => /\ Len(body) <= dataSize
                    /\ Len(result) = Len(sent) => Len(body) = dataSize

(* While the decoder is in the packet it has read the first of the values
   that were sent and nothing else, and when it leaves the packet all of
   them, whatever lies behind. *)
RoundTrip ==
    pc # "write" =>
        IF currentByte < dataSize THEN pc = "read" /\ IsPrefix(result, Meanings)
                                  ELSE IsPrefix(Meanings, result)

(* The values that were sent are all that the decoder finds: "the data in the
   packet are parsed" (DeSerializer.h). *)
OnlyThePacket == pc = "done" => result = Meanings
==============================================================================
