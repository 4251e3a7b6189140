\* Plain, lined, data and HTTP commands of two tasks, and ql_fwrite, which waits
\* for its self_func with the lock held.  That wait has no timeout: a stale
\* notice lets a behaviour end there.
SPECIFICATION Spec
CONSTANTS
    Tasks = {t1, t2}
    MaxCmds = 2
    Kinds = {"plain", "lined", "data", "http", "locked", "unlocked"}
    Chunks = 2
    MaxTokens = 3
    ByLines = 2
SYMMETRY TaskSymmetry
CHECK_DEADLOCK FALSE
INVARIANTS
    RespOwned
    WireIsCurrent
    ResultIsOwnAnswer
    NoticeMeansComplete
    NoFaults
    EndSignOwned
PROPERTY VerdictReachesCaller
