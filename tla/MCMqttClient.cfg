\* Two tasks, three calls, two handles one after the other, a module that does or does
\* not report the end of a session, a semaphore of two tokens.
CONSTANTS
    t1 = t1
    t2 = t2
    Tasks = {t1, t2}
    Tokens = 2
    MaxCalls = 3
    MaxHandles = 2
    MaxTroubles = 2
SYMMETRY TaskSymmetry
SPECIFICATION Spec
CONSTRAINT Explored
INVARIANTS TypeOK AckIsOwn ConnectIsReal
CHECK_DEADLOCK FALSE
