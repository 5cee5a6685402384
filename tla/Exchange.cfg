SPECIFICATION Spec
CONSTANTS
    r1 = r1
    r2 = r2
    c1 = c1
    Requests = {r1, r2}
    NoRequest = NoRequest
    Cids = {c1}
    NoCid = NoCid
    RequestCmd <- MCRequestCmd
    RequestCid <- MCRequestCid
    BroadcastCap = 2
    SyncCap = 1
    MaxMessages = 3
CHECK_DEADLOCK FALSE
INVARIANT NoCrossTalk
INVARIANT MessageAnswersOnce
INVARIANT ListenerComplete
INVARIANT InOrder
