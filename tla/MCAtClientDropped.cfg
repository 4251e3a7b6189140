\* A plain command next to one with a self_func.
SPECIFICATION Spec
CONSTANTS
    Tasks = {t1, t2}
    MaxCmds = 2
    Kinds = {"plain", "locked"}
    Chunks = 1
    MaxTokens = 5
    ByLines = 2
SYMMETRY TaskSymmetry
CHECK_DEADLOCK FALSE
INVARIANT AnswerNotDropped
