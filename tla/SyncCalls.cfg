SPECIFICATION FairSpec
CONSTANTS
    Threads = {p1, p2, r1}
    Python = {p1, p2}
    Main = p1
    QueueCap = 2
    MaxCalls = 2
INVARIANTS OwnAnswer NobodyForgotten
PROPERTIES RunsInOrder CallsReturn CommandsRun WorkerReleased ImplementsService
CHECK_DEADLOCK FALSE
