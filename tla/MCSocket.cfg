\* Two sockets, one after the other, packets of one or two bytes and reads of one
\* or three; one command or connection times out.
CONSTANTS
    PktLens = {1, 2}
    Wants = {1, 3}
    Tokens = 2
    MaxBytes = 4
    MaxSockets = 2
    MaxLate = 1
SPECIFICATION LiveSpec
INVARIANTS TypeOK StreamKept NoUseAfterFree ConnectionMatches
PROPERTY RecvWakes
CHECK_DEADLOCK FALSE
