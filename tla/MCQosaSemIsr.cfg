\* client->rx_notice: the parser task waits, the UART interrupt releases.
SPECIFICATION Spec
CONSTANTS
    Waiters = {parser}
    Releasers = {}
    Isr = TRUE
    Quiet = {}
    InitialCount = 0
    SemMax = 5
    MaxCount = 7
INVARIANT ReleaseOpen
