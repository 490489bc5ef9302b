CONSTANTS
    e1 = e1
    e2 = e2
    p1 = p1
    p2 = p2
    p3 = p3
    None = None
    Engines = {e1}
    Ops = {p1, p2, p3}
    MaxOperations = 2
    Installations <- SomeMissing
    MaxCrashes = 2
SPECIFICATION FairSpec
INVARIANTS
    WriteAhead
    EffectAtMostOnce
    VerifiedHappened
    EventTellsState
    BudgetRespected
PROPERTIES
    OutcomeIsFinal
    RecoveredMeansSettled
    RecoverEnds
