\* Plain commands, one of which times out before its answer comes.
SPECIFICATION Spec
CONSTANTS
    Tasks = {t1, t2}
    MaxCmds = 2
    Kinds = {"plain"}
    Chunks = 1
    MaxTokens = 5
    ByLines = 2
SYMMETRY TaskSymmetry
INVARIANT SuccessIsAnswered
