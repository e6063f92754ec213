SPECIFICATION Spec
CONSTANTS
    c1 = c1
    c2 = c2
    Clients = {c1, c2}
    NoClient = NoClient
    MaxFd = 9
    Kinds = {"static", "bad", "cgiBody"}
    BodyLen = 2
    PipeCap = 1
    OutLen = 1
    BatchMax = 8
    Finning = {c2}
    Resetting = {c2}
    Slow = {c2}
    ForkFails = FALSE
    Dutiful = TRUE
    EarlyClose = FALSE
    AcceptFails = TRUE
    MaySigint = FALSE
\* The clients stop asking, and a server that nobody asks waits for ever.
CHECK_DEADLOCK FALSE
INVARIANTS TypeOK EpollNeverFails FdMapIsWatched ConnectionIsWatched
    NoDescriptorLeak ConnectionNeverDangles CgiNeverDangles WaiterIsWoken
    OrphanNeedsReset
PROPERTIES OneResponse ForeignWakeNeedsOrphan ExchangeSpec
