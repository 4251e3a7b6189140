\* A response buffer too small for a line of the answer.
SPECIFICATION Spec
CONSTANTS
    Tasks = {t1, t2}
    MaxCmds = 1
    Kinds = {"plain"}
    Chunks = 1
    MaxTokens = 5
    ByLines = 2
SYMMETRY TaskSymmetry
INVARIANT TruncationReported
