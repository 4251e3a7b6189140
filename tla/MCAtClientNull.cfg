\* A plain command next to one with a self_func whose caller owns no lock
\* (ql_file_list).  With "null" among the kinds, NullResponseAccepted fails too.
SPECIFICATION Spec
CONSTANTS
    Tasks = {t1, t2}
    MaxCmds = 2
    Kinds = {"plain", "unlocked"}
    Chunks = 1
    MaxTokens = 5
    ByLines = 2
SYMMETRY TaskSymmetry
CHECK_DEADLOCK FALSE
INVARIANT CallbackGiven
