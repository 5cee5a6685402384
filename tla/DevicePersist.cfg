CONSTANTS
    Requests = {r1, r2}
    NoRequest = NoRequest
    QueueCap = 1
    FailCap = 1
    SeqCap = 0
    PersistModes = {TRUE}
    NowaitModes = {TRUE, FALSE}
    BackoffTicks = 1
    RequiresSessionKey = TRUE
SPECIFICATION Spec
CHECK_DEADLOCK FALSE
SYMMETRY CallSymmetry
INVARIANTS
    NoStrandedCaller
    EventsMatchConnection
