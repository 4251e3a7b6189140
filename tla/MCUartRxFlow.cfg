\* Interrupts between the reset of RTS and of g_flow_control.
CONSTANTS
    DmaSize = 4
    RingSize = 6
    ReadMax = 1
    NoticeMax = 2
    CountMax = 4
    Latency = 0
    InFlight = 0
    SlowIsr = FALSE
    Quiet = {"store_count", "low", "copy", "store_tail", "store_add", "store_sub"}
    MaxErrors = 0
    MaxBytes = 20
SPECIFICATION Spec
INVARIANT ReceivedAsSent
CHECK_DEADLOCK FALSE
