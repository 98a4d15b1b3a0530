SPECIFICATION Spec
CONSTANTS
    Prompts <- SomePrompts
    Decoded <- SomeDecoded
    Images <- SomeImages
    NB = 4
    MaxRanks = 3
    Plans <- SomePlans
    MaxSeq = 4
    Cap = 2
    BatchMin <- SomeMins
    Shared = 1
    Swa = {1, 2, 4}
    Window = 2
    Gdn = {1, 3}
    Deepstack = 2
    MaxCalls = 3
    Configs <- Deployments
INVARIANT EveryLayerOnce RowsStayLocal
PROPERTY ImplementsCompletion
CHECK_DEADLOCK FALSE
