SPECIFICATION Spec
CONSTANTS
    Char <- MCChar
    Sites <- OddSites
    Requests <- StrayRequests
    Broken <- MCBroken
    Outputs <- MCOutputs
    SiteFiles <- MCFiles
    Dirs <- MCDirs
    Locked <- MCLocked
    MaxRequests = 1
CHECK_DEADLOCK FALSE
INVARIANT NoMatchUsesServer
