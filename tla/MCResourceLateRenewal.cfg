CONSTANTS
    t1 = t1
    t2 = t2
    t3 = t3
    o1 = o1
    o2 = o2
    NoOwner = NoOwner
    Tasks = {t1, t2, t3}
    Owners = {o1}
    Labels = {"screen"}
    Requests <- MCRequests
    Capacity <- MCCapacity
    LeaseSeconds = {1, 2}
    Delay = 1
    MaxTime = 3
    MaxLeases = 4
SYMMETRY Symmetry
SPECIFICATION BrokerSpec
INVARIANTS
    NoOvercommit
