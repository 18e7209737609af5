\* Two clients, accepted by two slots, race with two broadcasts and a close.
CONSTANTS
    Threads = {t1, t2}
    Sessions = {s1, s2, s3, s4}
    Buffers = {b1, b2}
    Events = {"abort"}
    Slots = {e1, e2}
    None = None
    MaxCloses = 1
SYMMETRY Symmetry
SPECIFICATION ListenerSpec
INVARIANTS ConnectedInService BroadcastsInOneOrder SlotsStayArmed
CHECK_DEADLOCK FALSE
