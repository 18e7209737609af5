\* One slot that serves two clients, so that the second one joins while
\* broadcasts and a close traverse the first; three broadcasts, so that one
\* meets the session's lock, held to send another one's buffer.
CONSTANTS
    Threads = {t1, t2}
    Sessions = {s1, s2, s3}
    Buffers = {b1, b2, b3}
    Events = {"abort"}
    Slots = {e1}
    None = None
    MaxCloses = 1
SPECIFICATION InTurnSpec
PROPERTY AcceptsGoOn
CHECK_DEADLOCK FALSE
