\* Two tasks register for two kinds, one of them
\* unregisters, and two of their calls overlap; receivers' queues hold one message;
\* the token of a second message in the service's queue is lost.
CONSTANTS
    Clients = {c1, c2}
    q1 = q1
    q2 = q2
    Queues = {q1, q2}
    Kinds = {1, 2}
    Invalid = 0
    Wanted <- SomePairs
    Null = Null
    Slots = 2
    QueueMax = 2
    BoxMax = 1
    SemMax = 1
    MaxCalls = 3
    MaxUnregs = 1
    MaxSends = 2
SPECIFICATION LiveSpec
INVARIANTS TypeOK EveryReceiver RegistrationKept OrderedOnce
PROPERTY EveryMessageDispatched
CHECK_DEADLOCK FALSE
