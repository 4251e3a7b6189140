\* Data and HTTP commands under the fairness of the scheduler.
SPECIFICATION FairSpec
CONSTANTS
    Tasks = {t1, t2}
    MaxCmds = 2
    Kinds = {"data", "http"}
    Chunks = 1
    MaxTokens = 5
    ByLines = 2
PROPERTY EveryCallReturns
