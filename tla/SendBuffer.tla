----------------------------- MODULE SendBuffer -----------------------------
(***************************************************************************)
(* Where packets are written before they are sent (SendBuffer.cpp).  Each  *)
(* thread has a chunk and cuts a region off its free end for every packet; *)
(* a chunk that lacks room is replaced.  A finished packet is read by      *)
(* Windows, at any time until its last reference goes, while the thread    *)
(* writes the next ones behind it.                                         *)
(*                                                                         *)
(* MakeSendBuffer counts the bytes of a collection in 16 bits, opens a     *)
(* region of that size, writes, and closes the region if as many bytes     *)
(* were written as counted.  An array is read through a pointer both       *)
(* times, and may have changed between.                                    *)
(*                                                                         *)
(* The pool of the manager stays empty, because no chunk is made with      *)
(* PushGlobal as its deleter: Pop always makes a chunk.                    *)
(***************************************************************************)
EXTENDS Integers

CONSTANTS Threads,     (* the threads that make packets                     *)
          Chunks,      (* bound: the chunks there is memory for             *)
          Packets,     (* bound: the calls of MakeSendBuffer                *)
          Sizes,       (* the numbers of bytes a collection may need        *)
          ChunkSize,   (* SEND_BUFFER_CHUNK_SIZE: 6000                      *)
          HeaderSize,  (* sizeof(PacketHeader): 4                           *)
          Word,        (* the values of a uint16_t: 65536                   *)
          None         (* no chunk, no packet, nullptr                      *)

ASSUME SizesAssumption == Sizes \subseteq Nat
ASSUME ChunkAssumption ==
    /\ ChunkSize \in Nat /\ HeaderSize \in Nat \ {0} /\ Word \in Nat
    /\ HeaderSize <= ChunkSize /\ ChunkSize < Word
ASSUME NoneAssumption == None \notin Chunks \cup Packets

VARIABLES
    chunk,     (* chunk[t]: LSendBufferChunk                                *)
    usedSize,  (* usedSize[c]: _usedSize                                    *)
    open,      (* the chunks whose _open is true                            *)
    memory,    (* memory[c][i]: the packet that byte i was written for      *)
    making,    (* making[t]: the locals of t's MakeSendBuffer               *)
    buffer,    (* buffer[p]: the finished SendBuffer, while it is referenced *)
    unmade,    (* the calls not made yet                                    *)
    fault      (* the call that left defined behaviour, and how             *)

vars == <<chunk, usedSize, open, memory, making, buffer, unmade, fault>>

Bytes == 0 .. ChunkSize - 1
Blank == [i \in Bytes |-> None]

Init ==
    /\ chunk = [t \in Threads |-> None]
    /\ usedSize = [c \in Chunks |-> 0]
    /\ open = {}
    /\ memory = [c \in Chunks |-> Blank]
    /\ making = [t \in Threads |-> None]
    /\ buffer = [p \in Packets |-> None]
    /\ unmade = Packets
    /\ fault = None

------------------------------------------------------------------------------
DataSize(n) == n % Word
PacketSize(n) == (DataSize(n) + HeaderSize) % Word

FreeSize(c) == ChunkSize - usedSize[c]

(* A chunk lives while a thread or a buffer refers to it; then its memory
   may become a new one. *)
Unused(c) ==
    /\ \A t \in Threads : chunk[t] # c
    /\ \A p \in Packets : buffer[p] # None => buffer[p].chunk # c

(* Mistake: any room is room enough. *)
HasSomeRoom(t, size) == chunk[t] # None /\ FreeSize(chunk[t]) > 0

(* Open keeps the thread's chunk ... *)
HasRoom(t, size) == chunk[t] # None /\ FreeSize(chunk[t]) >= size

(* Mistake: the used up chunk is reset. *)
ReplaceInPlace(t) ==
    \E c \in Chunks :
        /\ IF chunk[t] = None THEN Unused(c) ELSE c = chunk[t]
        /\ chunk' = [chunk EXCEPT ![t] = c]
        /\ usedSize' = [usedSize EXCEPT ![c] = 0]
        /\ memory' = memory

(* ... or makes a new one: Pop and Reset. *)
Replace(t) ==
    \E c \in Chunks :
        /\ Unused(c)
        /\ chunk' = [chunk EXCEPT ![t] = c]
        /\ usedSize' = [usedSize EXCEPT ![c] = 0]
        /\ memory' = [memory EXCEPT ![c] = Blank]

(* The chunk, used up as far as `used', opens a region, or returns nullptr. *)
Opened(size, used) == size <= ChunkSize - used

(* MakeSendBuffer as far as Open; a nullptr is dereferenced. *)
Open(t, p, n) ==
    /\ fault = None /\ making[t] = None
    /\ p \in unmade /\ unmade' = unmade \ {p}
    /\ IF HasRoom(t, PacketSize(n)) THEN UNCHANGED <<chunk, usedSize, memory>> ELSE Replace(t)
    /\ LET c == chunk'[t]
           opened == Opened(PacketSize(n), usedSize'[c]) IN
          /\ open' = IF opened THEN open \cup {c} ELSE open \ {c}
          /\ fault' = IF opened THEN None ELSE [why |-> "null", count |-> n, written |-> n]
          /\ making' = [making EXCEPT ![t] =
                          [at |-> "header", packet |-> p, chunk |-> c, from |-> usedSize'[c],
                           count |-> n, written |-> 0]]
    /\ UNCHANGED buffer

------------------------------------------------------------------------------
Making(t, at) == fault = None /\ making[t] # None /\ making[t].at = at

(* Write len bytes for the packet from its position pos on, unless they leave
   the chunk. *)
Write(t, pos, len, n) ==
    LET m == making[t]
        first == m.from + pos IN
    IF first + len <= ChunkSize
      THEN /\ memory' = [memory EXCEPT ![m.chunk] =
                           [i \in Bytes |-> IF first <= i /\ i < first + len THEN m.packet
                                            ELSE @[i]]]
           /\ UNCHANGED fault
      ELSE /\ fault' = [why |-> "overrun", count |-> m.count, written |-> n]
           /\ UNCHANGED memory

WriteHeader(t) ==
    /\ Making(t, "header")
    /\ Write(t, 0, HeaderSize, making[t].count)
    /\ making' = [making EXCEPT ![t].at = "body"]
    /\ UNCHANGED <<chunk, usedSize, open, buffer, unmade>>

(* Serialization writes the n bytes the collection needs by now. *)
Serialization(t, n) ==
    /\ Making(t, "body")
    /\ Write(t, HeaderSize, n, n)
    /\ making' = [making EXCEPT ![t].at = "close", ![t].written = n]
    /\ UNCHANGED <<chunk, usedSize, open, buffer, unmade>>

(* Mistake: MakeSendBuffer and the buffer both take the region off. *)
TakenTwice(n) == 2 * PacketSize(n)

(* What Close takes off the chunk. *)
Taken(n) == PacketSize(n)

(* If as much was written as counted, Close takes the region off the chunk;
   if not, nullptr is returned and the region left open to the next packet. *)
Close(t) ==
    /\ Making(t, "close")
    /\ making' = [making EXCEPT ![t] = None]
    /\ LET m == making[t] IN
       IF m.written = DataSize(m.count)
         THEN /\ usedSize' = [usedSize EXCEPT ![m.chunk] = @ + Taken(m.count)]
              /\ open' = open \ {m.chunk}
              /\ buffer' = [buffer EXCEPT ![m.packet] =
                              [chunk |-> m.chunk, from |-> m.from, size |-> PacketSize(m.count)]]
         ELSE UNCHANGED <<usedSize, open, buffer>>
    /\ UNCHANGED <<chunk, memory, unmade, fault>>

(* The packet was sent to everybody: the last reference goes. *)
Drop(p) ==
    /\ fault = None
    /\ buffer[p] # None /\ buffer' = [buffer EXCEPT ![p] = None]
    /\ UNCHANGED <<chunk, usedSize, open, memory, making, unmade, fault>>

Next ==
    \/ \E t \in Threads :
          \/ \E p \in Packets, n \in Sizes : Open(t, p, n)
          \/ WriteHeader(t)
          \/ \E n \in Sizes : Serialization(t, n)
          \/ Close(t)
    \/ \E p \in Packets : Drop(p)

Spec == Init /\ [][Next]_vars
------------------------------------------------------------------------------
Locals == [at : {"header", "body", "close"}, packet : Packets, chunk : Chunks, from : Nat,
           count : Sizes, written : Nat]
Buffers == [chunk : Chunks, from : Nat, size : Nat]
Faults == [why : {"null", "overrun"}, count : Sizes, written : Nat]

ASSUME NoFaultAssumption == None \notin Faults

(* Every variable has the type its declaration gives it; _usedSize never
   passes the end of the chunk, so that FreeSize, which is unsigned, does not
   wrap. *)
TypeOK ==
    /\ chunk \in [Threads -> Chunks \cup {None}]
    /\ usedSize \in [Chunks -> 0 .. ChunkSize]
    /\ open \subseteq Chunks
    /\ memory \in [Chunks -> [Bytes -> Packets \cup {None}]]
    /\ making \in [Threads -> Locals \cup {None}]
    /\ buffer \in [Packets -> Buffers \cup {None}]
    /\ unmade \subseteq Packets
    /\ fault \in Faults \cup {None}

(* A finished packet stays as it was written until nobody refers to it: not
   the next packets of the thread, nor one that was given up, nor a chunk
   that is used again writes over it. *)
SentIntact ==
    \A p \in Packets :
        buffer[p] # None =>
            \A i \in Bytes :
                buffer[p].from <= i /\ i < buffer[p].from + buffer[p].size
                    => memory[buffer[p].chunk][i] = p

(* nullptr is dereferenced only for a packet that no chunk can hold, and
   bytes are written outside of the chunk only if the size does not fit in
   16 bits or the collection grew after it was counted. *)
FaultJustified ==
    fault # None =>
        \/ fault.why = "null" /\ fault.count + HeaderSize > ChunkSize
        \/ fault.why = "overrun" /\ (\/ fault.count + HeaderSize >= Word
                                     \/ fault.written > fault.count)
==============================================================================
