SPECIFICATION Spec
CONSTANTS
    Char <- MCChar
    Sites <- AnySites
    Requests <- MCRequests
    Broken <- MCBroken
    Outputs <- MCOutputs
    SiteFiles <- MCFiles
    Dirs <- MCDirs
    Locked <- MCLocked
    MaxRequests = 2
\* The visitors stop asking, or the program ends.
CHECK_DEADLOCK FALSE
INVARIANTS TypeOK LongestPrefixWins CoveredUrisAreSafe OneStatusLine
PROPERTIES RefusalChangesNothing UploadIsStored DeleteRemovesWhatIsRead
