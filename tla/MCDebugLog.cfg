\* Two tasks print two records into a ring of four cells; the service is
\* started twice and the card fails once.
CONSTANTS
    Tasks = {t1, t2}
    Texts = {1, 2}
    RingSize = 4
    BuffLen = 2
    SemTokens = 1
    MaxRecords = 2
    MaxStarts = 2
    MaxFaults = 1
SPECIFICATION LogLiveSpec
INVARIANTS LogTypeOK LogMatches CaughtUp
PROPERTIES EveryRecordSaved StopEnds
CHECK_DEADLOCK FALSE
