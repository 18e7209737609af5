\* One session that a refusal, the peer or one of two closes may end, racing
\* with two broadcasts.
CONSTANTS
    Threads = {t1, t2}
    Sessions = {s1}
    Buffers = {b1, b2}
    Events = {"zero", "refused"}
    None = None
    MaxCloses = 2
SPECIFICATION FairServiceSpec
INVARIANTS ServiceTypeOK CountDrift ReleasedOnce
PROPERTIES DisconnectedLeaves QueueIsSent
CHECK_DEADLOCK FALSE
