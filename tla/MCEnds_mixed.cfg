SPECIFICATION Spec
CONSTANTS
    Conns = {c1, c2}
    Lines <- MCLines
    MaxLines = 2
    MaxTotal = 2
    BufSize = 4
    Names = {"r1"}
    MaxFromServer = 2
    MaxTyped = 2
INVARIANT OwnArguments
CHECK_DEADLOCK FALSE
