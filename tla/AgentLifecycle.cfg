SPECIFICATION Spec
CONSTANTS
    Pool = 3
    Pages = {p1, p2, p3}
    Etypes = {"mqtt", "websocket"}
    MaxRuns = 2
INVARIANTS
    TypeOK
    PoolIsUsed
    NothingOutlivesMain
PROPERTIES
    StartsOrEnds
    AgentStops
    PushesResume
CHECK_DEADLOCK FALSE
