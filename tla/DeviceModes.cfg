CONSTANTS
    Requests = {r1}
    NoRequest = NoRequest
    QueueCap = 1
    FailCap = 1
    SeqCap = 0
    PersistModes = {TRUE, FALSE}
    NowaitModes = {FALSE}
    BackoffTicks = 1
    RequiresSessionKey = TRUE
SPECIFICATION FairSpec
CHECK_DEADLOCK FALSE
INVARIANTS
    HandshakeUsesLocalKey
    NoHotReconnect
    ConnectionIsWatched
PROPERTIES
    ImplementsService
    CallsReturn
    CancelTerminates
    BackoffEnds
