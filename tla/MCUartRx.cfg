\* Interrupts are served a byte late, the ring overflows and the module obeys
\* RTS at once; a UART error.
CONSTANTS
    DmaSize = 4
    RingSize = 6
    ReadMax = 1
    NoticeMax = 2
    CountMax = 4
    Latency = 1
    InFlight = 0
    SlowIsr = FALSE
    Quiet = {"store_count", "low", "copy", "store_tail", "store_add", "store_sub", "flow"}
    MaxErrors = 1
    MaxBytes = 8
SPECIFICATION LiveSpec
INVARIANTS Conserved NoWildCopy WokenForData
CHECK_DEADLOCK FALSE
PROPERTY EveryByteArrives
