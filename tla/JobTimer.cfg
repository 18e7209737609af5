\* Two workers race for _distributing; three jobs make a batch of two and one
\* that comes later; deadlines of two ticks cross with reservations.
CONSTANTS
    Workers = {w1, w2}
    Jobs = {j1, j2, j3}
    q1 = q1
    Owners = {q1}
    Owner <- MCOwner
    MemberJobs = {j1}
    MaxTick = 1
SPECIFICATION FairSpec
INVARIANTS TypeOK PushedInOrder
PROPERTY ReservedIsPushed
