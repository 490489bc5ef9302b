CONSTANTS
    o1 = o1
    o2 = o2
    NoOwner = NoOwner
    Tasks <- TwoTasks
    Owners <- MCOwners
    Interactive <- SecondOnly
    Priority <- EqualPriority
    LeaseSeconds = {1, 2}
    Delay = 1
    MaxTime = 3
    MaxGeneration = 2
SPECIFICATION Spec
INVARIANTS
    OneValidHandle
    LeaseHistory
PROPERTIES
    ImplementsFencedLease
SYMMETRY OwnerSymmetry
