\* A UART error restarts the DMA.
CONSTANTS
    DmaSize = 4
    RingSize = 6
    ReadMax = 1
    NoticeMax = 2
    CountMax = 4
    Latency = 0
    InFlight = 0
    SlowIsr = FALSE
    Quiet = {"store_count", "low", "copy", "store_tail", "store_add", "store_sub", "flow"}
    MaxErrors = 1
    MaxBytes = 6
SPECIFICATION Spec
INVARIANT TailRightOfHead
CHECK_DEADLOCK FALSE
