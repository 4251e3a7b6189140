\* A byte waits in the DMA buffer while the ring is full and gets room later.
CONSTANTS
    DmaSize = 4
    RingSize = 6
    ReadMax = 1
    NoticeMax = 2
    CountMax = 4
    Latency = 1
    InFlight = 0
    SlowIsr = FALSE
    Quiet = {"store_count", "low", "copy", "store_tail", "store_add", "store_sub", "flow"}
    MaxErrors = 0
    MaxBytes = 9
SPECIFICATION Spec
INVARIANT ReceivedAsSent
CHECK_DEADLOCK FALSE
