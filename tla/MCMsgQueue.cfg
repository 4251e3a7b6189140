\* Two senders and two receivers; the list and the semaphore both fill up.
SPECIFICATION LiveSpec
CONSTANTS
    Producers = {p1, p2}
    Consumers = {c1, c2}
    MaxNumber = 2
    SemMax = 1
    MaxSends = 2
INVARIANTS
    NeverNull
    OvershootBounded
    InOrder
PROPERTY AcceptedArrives
