SPECIFICATION FairLoopSpec
CONSTANTS
    c1 = c1
    c2 = c2
    Conns <- TwoConns
    NoConn = NoConn
    NTids = 2
    MaxThreads = 2
    MinThreads = 1
    PromptWakeups = TRUE
    AllocFails = TRUE
    MaxSends = 2
INVARIANT ConnectionsOwned
PROPERTIES DataRead HangupNoticed
