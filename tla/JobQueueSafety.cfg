\* Two queues and three jobs: a job may push to its own queue and to another,
\* a batch may be overtaken by two pushes, and ClearJobs may strike once.
CONSTANTS
    Threads = {t1, t2, t3}
    Queues = {q1, q2}
    Jobs = {j1, j2, j3, j4}
    None = None
    MaxClears = 1
SYMMETRY Symmetry
SPECIFICATION Spec
INVARIANTS TypeOK SoleOwner OwnedWhileCounted CountAccounts CurrentIsExecuted
PROPERTY ImplementsMailbox
