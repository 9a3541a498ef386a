SPECIFICATION Spec
CONSTANTS
    Typists = {u1, u2}
    Workers = {w1, w2}
    MAX_TYPING_USERS = 1
    TYPING_RATE_LIMIT_SEC = 2
    TYPING_DEBOUNCE_SEC = 3
    SweepEvery = 5
    LoopLate = 1
    Lag = 1
    Start = 1
    Horizon = 14
    Clients = {c1}
    RATE_BUCKET_MAX = 5
    RATE_REFILL_RATE = 1
    RATE_MSG_COST = 1
    Scale = 2
    MaxClock = 8
    People = {p1, p2}
    Threads = {t1, t2}
    MaxCommands = 5
    MayFail = TRUE
SYMMETRY Symmetry
INVARIANTS TypingTableSound StaleBound TypingSpaced
           PaysExactly
           ModerationTypeOK OwnerRemains InvitedOnce
PROPERTIES SuppressedForCause NeverRaised
