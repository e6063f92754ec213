SPECIFICATION Spec
CONSTANTS
    Messages <- ChunkMessages
    AllowedMethods = {"GET", "POST"}
    Limits = {3}
    TenMb = 2
INVARIANT AcceptsEveryRequest
\* A request that is answered is over.
CHECK_DEADLOCK FALSE
