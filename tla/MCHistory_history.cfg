SPECIFICATION Spec
CONSTANTS
    w1 = w1
    w2 = w2
    u1 = u1
    Writers <- TwoWriters
    Users = {u1}
    UserOf <- Twice
    Admins = {}
    Texts = {hi, ho}
    DeletedText = gone
    Cap = 2
    WrapAt = 3
    MaxMsgs = 4
    MaxBusy = 2
    FailsUntil = 1
SYMMETRY Symmetry
INVARIANTS StoreAgrees DeletionsShown WindowSurvives
PROPERTY ImplementsLog
