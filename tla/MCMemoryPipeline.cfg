CONSTANTS
    p1 = p1
    p2 = p2
    k1 = k1
    k2 = k2
    NoCandidate = NoCandidate
    Pipelines = {p1, p2}
    Keys = {k1, k2}
    Limit = 2
    MaxEvents = 3
    MaxFailures = 2
SPECIFICATION FairSpec
INVARIANTS
    NoneSkipped
    RememberedOnce
    OneChain
PROPERTIES
    CursorSettles
