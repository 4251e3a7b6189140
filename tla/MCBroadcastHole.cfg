\* A receiver unregisters and leaves a hole in the table.
CONSTANTS
    Clients = {c1}
    q1 = q1
    q2 = q2
    Queues = {q1, q2}
    Kinds = {1, 2}
    Invalid = 0
    Wanted <- AllPairs
    Null = Null
    Slots = 3
    QueueMax = 1
    BoxMax = 1
    SemMax = 1
    MaxCalls = 3
    MaxUnregs = 1
    MaxSends = 1
SPECIFICATION Spec
INVARIANT RegisteredReceives
CHECK_DEADLOCK FALSE
