CONSTANTS
    d1 = d1
    d2 = d2
    Engines = {d1, d2}
    OldRows = 1
    Limit = 2
    MaxRows = 5
    MaxFailures = 2
SPECIFICATION FairSpec
INVARIANTS
    OnceInOrder
PROPERTIES
    AppendOnly
    Delivered
