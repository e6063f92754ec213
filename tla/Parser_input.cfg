SPECIFICATION Spec
CONSTANTS
    Messages <- AllMessages
    AllowedMethods = {"GET", "POST"}
    Limits = {1, 3}
    TenMb = 2
INVARIANTS TypeOK AcceptsHeaderSent BodyIsAsSent AcceptsPlainRequests InputIsKept
    EveryTurnConsumes RefusesForAReason AnnouncedLimitIsRespected
\* A request that is answered is over.
CHECK_DEADLOCK FALSE
