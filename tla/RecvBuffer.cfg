\* Capacity 9: the wire may fill it at once, and several packets and a cut
\* one may be in it when it has to be moved.
CONSTANTS
    Packets <- MCPackets
    Size <- MCSize
    HeaderSize = 2
    BufferSize = 3
    BufferCount = 3
    MaxWire = 7
SPECIFICATION Spec
INVARIANTS TypeOK RoomToReceive CopyNeverOverlaps UnreadIsKept WholePackets
