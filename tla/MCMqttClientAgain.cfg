\* One task that connects again.
CONSTANTS
    t1 = t1
    t2 = t2
    Tasks = {t1}
    Tokens = 2
    MaxCalls = 2
    MaxHandles = 1
    MaxTroubles = 1
SPECIFICATION Spec
INVARIANT ErrorIsReal
CHECK_DEADLOCK FALSE
