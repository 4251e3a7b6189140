\* Data and the end of the connection come between two tests of ql_recvfrom.
CONSTANTS
    PktLens = {1, 2}
    Wants = {1, 3}
    Tokens = 2
    MaxBytes = 4
    MaxSockets = 2
    MaxLate = 0
SPECIFICATION Spec
INVARIANT EofIsLast
CHECK_DEADLOCK FALSE
