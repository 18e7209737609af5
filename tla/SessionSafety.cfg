\* Three threads use one session: two handlers and a sender, or two senders
\* and the completion of the send they race with.
CONSTANTS
    Threads = {t1, t2, t3}
    Sessions = {s1}
    Buffers = {b1, b2, b3}
    Events = {"data", "overflow", "zero", "reset", "refused", "send", "disconnect"}
    None = None
SYMMETRY Symmetry
SPECIFICATION Spec
INVARIANTS EventsNotShared KeptWhileInUse SendsInOrder NothingStranded StaysArmed
CHECK_DEADLOCK FALSE
