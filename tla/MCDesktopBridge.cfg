CONSTANTS
    Ops = {"open", "type"}
    Methods = {"desktop.act"}
    NoAnswer = NoAnswer
    MaxRequests = 4
    MaxGeneration = 2
SPECIFICATION Spec
INVARIANTS
    OwnAnswer
PROPERTIES
    GivenUpBlocks
