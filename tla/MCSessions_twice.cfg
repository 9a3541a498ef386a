SPECIFICATION Spec
CONSTANTS
    Conns = {c1, c2}
    Users = {u1, u2}
    Nobody = Nobody
    MaxClients = 2
    Ttl = 1
    MaxNow = 2
    MaxTokens = 3
    MaxBusy = 2
    DbFails = FALSE
    Restarts = FALSE
SYMMETRY Symmetry
INVARIANT TokenUsedOnce
CHECK_DEADLOCK FALSE
