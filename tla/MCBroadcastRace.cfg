\* Two tasks register at the same time.
CONSTANTS
    Clients = {c1, c2}
    q1 = q1
    q2 = q2
    Queues = {q1, q2}
    Kinds = {1, 2}
    Invalid = 0
    Wanted <- AllPairs
    Null = Null
    Slots = 2
    QueueMax = 1
    BoxMax = 1
    SemMax = 1
    MaxCalls = 3
    MaxUnregs = 0
    MaxSends = 1
SPECIFICATION Spec
INVARIANT RegisteredIsKept
CHECK_DEADLOCK FALSE
