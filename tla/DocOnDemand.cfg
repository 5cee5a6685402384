CONSTANTS
    Requests = {r1}
    NoRequest = NoRequest
    QueueCap = 2
    FailCap = 1
    SeqCap = 1
    PersistModes = {TRUE, FALSE}
    NowaitModes = {TRUE, FALSE}
    BackoffTicks = 0
    RequiresSessionKey = TRUE
SPECIFICATION Spec
CHECK_DEADLOCK FALSE
INVARIANT
    OnDemandResponseIsRead
