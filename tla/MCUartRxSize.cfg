\* An interrupt between the load and the store of size -= read_len.
CONSTANTS
    DmaSize = 4
    RingSize = 6
    ReadMax = 1
    NoticeMax = 2
    CountMax = 4
    Latency = 0
    InFlight = 0
    SlowIsr = FALSE
    Quiet = {"store_count", "low", "copy", "store_tail", "store_add", "flow"}
    MaxErrors = 0
    MaxBytes = 14
SPECIFICATION Spec
INVARIANT ReceivedAsSent
CHECK_DEADLOCK FALSE
