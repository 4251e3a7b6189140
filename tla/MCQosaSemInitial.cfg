\* A semaphore created with one token.
SPECIFICATION Spec
CONSTANTS
    Waiters = {w1}
    Releasers = {r1}
    Isr = FALSE
    Quiet = {}
    InitialCount = 1
    SemMax = 2
    MaxCount = 7
INVARIANT CountAtRest
