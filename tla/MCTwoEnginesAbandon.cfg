CONSTANTS
    e1 = e1
    e2 = e2
    p1 = p1
    p2 = p2
    p3 = p3
    None = None
    Engines = {e1, e2}
    Ops = {p1, p2}
    MaxOperations = 1
    Installations <- PairInstalled
    MaxCrashes = 0
SPECIFICATION Spec
INVARIANTS
    WriteAhead
