SPECIFICATION Spec
CONSTANTS
    Conns = {c1, c2, c3}
    Users = {u1, u2}
    Nobody = Nobody
    MaxClients = 2
    Ttl = 0
    MaxNow = 1
    MaxTokens = 2
    MaxBusy = 2
    DbFails = TRUE
    Restarts = TRUE
SYMMETRY Symmetry
INVARIANT TokensSound
PROPERTY RefusedAfterEnd
CHECK_DEADLOCK FALSE
