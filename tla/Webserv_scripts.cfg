SPECIFICATION Spec
CONSTANTS
    c1 = c1
    c2 = c2
    Clients = {c1, c2}
    NoClient = NoClient
    MaxFd = 9
    Kinds = {"cgi", "cgiBody"}
    BodyLen = 2
    PipeCap = 1
    OutLen = 1
    BatchMax = 3
    Finning = {}
    Resetting = {}
    Slow = {}
    ForkFails = TRUE
    Dutiful = FALSE
    EarlyClose = TRUE
    AcceptFails = TRUE
    MaySigint = TRUE
\* The clients stop asking, and a server that nobody asks waits for ever.
CHECK_DEADLOCK FALSE
INVARIANT ShutdownIsClean
PROPERTIES CgiAnswerIsComplete WholeResponse
SYMMETRY Symmetry
