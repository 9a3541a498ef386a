SPECIFICATION Spec
CONSTANTS
    Peers = {c1, c2, c3}
    NFd = 2
    RingCap = 1
    MaxItems = 4
    MaxLost = 2
    DefaultLimit = 2
    MaxLimit = 3
    MaxList = 3
    Limits = {0, 1, 2, 4}
    MaxId = 5
    Entries = {e1, e2, e3}
    MaxChanges = 5
SYMMETRY Symmetry
INVARIANTS NothingMissed OnlyLateStrangers
           PagesFit ListComplete
CHECK_DEADLOCK FALSE
