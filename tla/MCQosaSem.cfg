\* Three tasks that all wait and release; the semaphore fills up at 2 tokens; an
\* interrupt releases too, but not between the load and the store of the count.
SPECIFICATION Spec
CONSTANTS
    Waiters = {t1, t2, t3}
    Releasers = {t1, t2, t3}
    Isr = TRUE
    Quiet = {"store wait", "store release"}
    InitialCount = 0
    SemMax = 2
    MaxCount = 7
INVARIANT CountExact
PROPERTY ImplementsSemaphore
