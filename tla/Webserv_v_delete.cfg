SPECIFICATION Spec
CONSTANTS
    c1 = c1
    c2 = c2
    Clients = {c1, c2}
    NoClient = NoClient
    MaxFd = 7
    Kinds = {"cgi"}
    BodyLen = 2
    PipeCap = 1
    OutLen = 1
    BatchMax = 8
    Finning = {}
    Resetting = {c1}
    Slow = {}
    ForkFails = FALSE
    Dutiful = TRUE
    EarlyClose = FALSE
    AcceptFails = FALSE
    MaySigint = FALSE
\* The clients stop asking, and a server that nobody asks waits for ever.
CHECK_DEADLOCK FALSE
INVARIANT OwnerOutlivesCgi
