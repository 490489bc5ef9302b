CONSTANTS
    o1 = o1
    o2 = o2
    NoOwner = NoOwner
    Tasks <- FourTasks
    Owners = {o1}
    Interactive = {4}
    Priority <- MixedPriority
    LeaseSeconds = {1}
    Delay = 1
    MaxTime = 2
    MaxGeneration = 1
SPECIFICATION Spec
PROPERTIES
    ClaimTakesFirst
