\* Three contenders; three nested guards reach write-read-write, the one
\* nesting whose unlock is refused.  A crash ends the process.
CONSTANTS
    Threads = {t1, t2, t3}
    Nobody = Nobody
    MaxNest = 3
SPECIFICATION FairSpec
INVARIANTS MutualExclusion CountersExact CrashJustified
PROPERTIES ImplementsRWLock FreeIsTaken
CHECK_DEADLOCK FALSE
