SPECIFICATION Spec
CONSTANTS
    Threads = {p1, p2, r1}
    Python = {p1, p2}
    Main = p1
    QueueCap = 2
    MaxCalls = 2
INVARIANT GilReleased
CHECK_DEADLOCK FALSE
