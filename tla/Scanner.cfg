SPECIFICATION FairSpec
CONSTANTS
    d1 = d1
    f1 = f1
    f2 = f2
    s1 = s1
    Devices = {d1}
    Finders = {f1, f2}
    Streams = {s1}
    Forced = {f2}
    Target <- MCTarget
    Mixes <- MCMixes
CHECK_DEADLOCK FALSE
INVARIANTS FlagBacked SingleScan GivesUpAfterScan
PROPERTIES StreamsYieldEach CallsEnd
