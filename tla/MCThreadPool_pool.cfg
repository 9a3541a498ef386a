SPECIFICATION FairSpec
CONSTANTS
    c1 = c1
    c2 = c2
    Conns <- TwoConns
    NoConn = NoConn
    NTids = 4
    MaxThreads = 2
    MinThreads = 1
    PromptWakeups = TRUE
INVARIANTS TypeOK NoNullDequeue CountExact NoLostWakeup DestroyJoinsAll
PROPERTIES JobServed DestroyReturns
