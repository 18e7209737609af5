----------------------------- MODULE RecvBuffer -----------------------------
(***************************************************************************)
(* How a session receives packets: ProcessRecv, the cursors of its         *)
(* RecvBuffer and PacketSession::OnRecv, which cuts the byte stream into   *)
(* packets by the size in their headers.                                   *)
(*                                                                         *)
(* TCP hands over the stream in pieces of any length up to the room        *)
(* WSARecv was given, so a piece may end inside a packet or a header.      *)
(* What is left over stays in the buffer, which moves it to its front when *)
(* it runs out of room.  A byte is modelled as its place in its packet.    *)
(* Only one thread is ever in these functions (Session!EventsNotShared).   *)
(***************************************************************************)
EXTENDS Integers, Sequences

CONSTANTS Packets,      (* the packets of the peer                            *)
          Size,         (* Size[p]: the size in p's header, and of p          *)
          HeaderSize,   (* sizeof(PacketHeader)                               *)
          BufferSize,   (* Session's BUFFER_SIZE; a header's size is 16 bits  *)
          BufferCount,  (* RecvBuffer's BUFFER_COUNT                          *)
          MaxWire       (* bound: the bytes on their way at once              *)

ASSUME BufferAssumption ==
    /\ BufferSize \in Nat /\ HeaderSize \in 1 .. BufferSize
    /\ BufferCount \in Nat /\ BufferCount >= 3
ASSUME SizeAssumption == Size \in [Packets -> HeaderSize .. BufferSize]
ASSUME WireAssumption == MaxWire \in Nat

Capacity == BufferSize * BufferCount

VARIABLES
    buffer,      (* _buffer                                               *)
    readPos,     (* _readPos                                              *)
    writePos,    (* _writePos                                             *)
    processLen,  (* OnRecv's local                                        *)
    pc,          (* where ProcessRecv is; "receive" while WSARecv pends   *)
    wire,        (* the bytes sent that WSARecv has not delivered         *)
    unread,      (* history, the bytes received but not handed over       *)
    handed       (* the bytes OnRecvPacket is called with                 *)

vars == <<buffer, readPos, writePos, processLen, pc, wire, unread, handed>>

Byte(p, i) == [packet |-> p, at |-> i]
Bytes == {Byte(p, i) : p \in Packets, i \in 1 .. BufferSize}
Zero == [packet |-> 0, at |-> 0]

Contents(p) == [i \in 1 .. Size[p] |-> Byte(p, i)]

DataSize == writePos - readPos
FreeSize == Capacity - writePos

Init ==
    /\ buffer = [i \in 0 .. Capacity - 1 |-> Zero]
    /\ readPos = 0 /\ writePos = 0 /\ processLen = 0
    /\ pc = "receive"
    /\ wire = <<>> /\ unread = <<>> /\ handed = <<>>

------------------------------------------------------------------------------
(* The peer sends a packet. *)
PeerSends(p) ==
    /\ Len(wire) + Size[p] <= MaxWire
    /\ wire' = wire \o Contents(p)
    /\ UNCHANGED <<buffer, readPos, writePos, processLen, pc, unread, handed>>

(* Mistake: WSARecv is told of more room than there is. *)
ProcessRecvBeyond(n) ==
    /\ pc = "receive"
    /\ n \in 1 .. Len(wire)
    /\ buffer' = [i \in DOMAIN buffer |->
                     IF i \in writePos .. writePos + n - 1 THEN wire[i - writePos + 1]
                                                           ELSE buffer[i]]
    /\ writePos' = writePos + n
    /\ unread' = unread \o SubSeq(wire, 1, n)
    /\ wire' = SubSeq(wire, n + 1, Len(wire))
    /\ processLen' = 0
    /\ pc' = "parse"
    /\ UNCHANGED <<readPos, handed>>

(* WSARecv completes with n bytes at WritePos, and OnWrite counts them. *)
ProcessRecv(n) ==
    /\ pc = "receive"
    /\ n \in 1 .. Len(wire) /\ n <= FreeSize
    /\ buffer' = [i \in DOMAIN buffer |->
                     IF i \in writePos .. writePos + n - 1 THEN wire[i - writePos + 1]
                                                           ELSE buffer[i]]
    /\ writePos' = writePos + n
    /\ unread' = unread \o SubSeq(wire, 1, n)
    /\ wire' = SubSeq(wire, n + 1, Len(wire))
    /\ processLen' = 0
    /\ pc' = "parse"
    /\ UNCHANGED <<readPos, handed>>

Next0 == readPos + processLen

(* The header at the parser's place: its size, or whatever the bytes there
   happen to be if no packet begins there. *)
HeaderSizes ==
    IF buffer[Next0].at = 1 THEN {Size[buffer[Next0].packet]} ELSE 0 .. BufferSize - 1

HeaderThere == DataSize - processLen >= HeaderSize
(* Mistake: the header is enough. *)
WholeHeader(size) == DataSize - processLen >= HeaderSize
Whole(size) == DataSize - processLen >= size

(* A turn of OnRecv's loop: a whole packet is there and is handed over. *)
OnRecvPacket ==
    /\ pc = "parse" /\ HeaderThere
    /\ \E size \in HeaderSizes :
          /\ Whole(size)
          /\ handed' = [i \in 1 .. size |-> buffer[Next0 + i - 1]]
          /\ processLen' = processLen + size
          /\ unread' = SubSeq(unread, size + 1, Len(unread))
    /\ UNCHANGED <<buffer, readPos, writePos, pc, wire>>

(* OnRecv returns; OnRead refuses more than there is and ends the session. *)
OnRead ==
    /\ pc = "parse"
    /\ HeaderThere => \E size \in HeaderSizes : ~Whole(size)
    /\ IF processLen > DataSize
         THEN pc' = "overflow" /\ UNCHANGED readPos
         ELSE pc' = "clean" /\ readPos' = Next0
    /\ processLen' = 0 /\ handed' = <<>>
    /\ UNCHANGED <<buffer, writePos, wire, unread>>

(* Mistakes: the data is moved only when there is no room; it always is. *)
CrowdedFull == DataSize # 0 /\ FreeSize = 0
CrowdedAlways == DataSize # 0

(* Clean, which moves the data to the front when there is less than a
   BufferSize of room behind it; then WSARecv gets the room behind it. *)
Crowded == DataSize # 0 /\ FreeSize < BufferSize

Reset == readPos' = 0 /\ writePos' = 0 /\ UNCHANGED buffer

(* Mistake: only the cursors move. *)
MoveCursors ==
    /\ readPos' = 0
    /\ writePos' = DataSize
    /\ UNCHANGED buffer

Move ==
    /\ buffer' = [i \in DOMAIN buffer |->
                     IF i < DataSize THEN buffer[readPos + i] ELSE buffer[i]]
    /\ readPos' = 0
    /\ writePos' = DataSize

Clean ==
    /\ pc = "clean"
    /\ \/ DataSize = 0 /\ Reset
       \/ Crowded /\ Move
       \/ DataSize # 0 /\ ~Crowded /\ UNCHANGED <<buffer, readPos, writePos>>
    /\ pc' = "receive"
    /\ UNCHANGED <<processLen, wire, unread, handed>>

Next ==
    \/ \E p \in Packets : PeerSends(p)
    \/ \E n \in 1 .. MaxWire : ProcessRecv(n)
    \/ OnRecvPacket \/ OnRead \/ Clean

Spec == Init /\ [][Next]_vars
------------------------------------------------------------------------------
(* Every variable has the type its declaration gives it; the cursors stay in
   the buffer, in their order, and "OnRead Overflow" is never reached. *)
TypeOK ==
    /\ buffer \in [0 .. Capacity - 1 -> Bytes \cup {Zero}]
    /\ writePos \in 0 .. Capacity /\ readPos \in 0 .. writePos
    /\ processLen \in 0 .. writePos - readPos
    /\ pc \in {"receive", "parse", "clean"}
    /\ wire \in Seq(Bytes) /\ unread \in Seq(Bytes) /\ handed \in Seq(Bytes \cup {Zero})

(* WSARecv always gets room for a whole buffer more: never for 0 bytes, which
   would complete with 0 and end the session as if the peer had left. *)
RoomToReceive == pc = "receive" => FreeSize >= BufferSize

(* Clean's memcpy never has overlapping operands, which would be undefined. *)
CopyNeverOverlaps == pc = "clean" /\ Crowded => DataSize <= readPos

(* Between the cursors are the bytes received and not handed over, in their
   order; they begin with a packet, and when more is waited for that packet is
   not there in full: none is left behind. *)
UnreadIsKept ==
    /\ pc = "parse" \/ processLen = 0
    /\ Len(unread) = DataSize - processLen
    /\ \A i \in 1 .. Len(unread) : buffer[Next0 + i - 1] = unread[i]
    /\ unread # <<>> =>
          /\ unread[1].at = 1
          /\ pc = "receive" => Len(unread) < Size[unread[1].packet]

(* OnRecvPacket gets a whole packet, however the stream was cut. *)
WholePackets == handed # <<>> => \E p \in Packets : handed = Contents(p)
==============================================================================
