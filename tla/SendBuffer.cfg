\* Chunks of 6 bytes, headers of 1 byte, 3-bit sizes: packets that fill a chunk,
\* exceed it, and wrap.
CONSTANTS
    Threads = {t1, t2}
    Chunks = {c1, c2, c3, c4}
    Packets = {p1, p2, p3, p4}
    Sizes = {0, 2, 5, 6, 7, 8}
    ChunkSize = 6
    HeaderSize = 1
    Word = 8
    None = None
SYMMETRY Symmetry
SPECIFICATION Spec
INVARIANTS TypeOK SentIntact FaultJustified
CHECK_DEADLOCK FALSE
