SPECIFICATION FairSpec
CONSTANTS
    c1 = c1
    c2 = c2
    p1 = p1
    p2 = p2
    Ports = {p1, p2}
    DefaultPorts = {p1}
    Callers = {c1, c2}
    Wanted <- MCWanted
    MayStop = TRUE
CHECK_DEADLOCK FALSE
INVARIANT OneListener
INVARIANT StartedMeansRunning
 
