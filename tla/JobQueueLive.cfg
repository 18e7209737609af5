CONSTANTS
    Threads = {t1, t2}
    Queues = {q1}
    Jobs = {j1, j2, j3}
    None = None
    MaxClears = 1
SPECIFICATION FairSpec
PROPERTIES EveryJobLeaves QueueDrains
