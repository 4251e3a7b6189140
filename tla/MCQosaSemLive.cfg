\* client->rx_notice under fairness: the parser waits, the interrupt releases.
SPECIFICATION LiveSpec
CONSTANTS
    Waiters = {parser}
    Releasers = {}
    Isr = TRUE
    Quiet = {}
    InitialCount = 0
    SemMax = 5
    MaxCount = 7
PROPERTY WakesAgain
