\* A message is printed while the service stops.
CONSTANTS
    Tasks = {t1, t2}
    Texts = {1, 2}
    RingSize = 4
    BuffLen = 2
    SemTokens = 1
    MaxRecords = 2
    MaxStarts = 2
    MaxFaults = 1
SPECIFICATION LogSpec
INVARIANT NoWildPut
CHECK_DEADLOCK FALSE
