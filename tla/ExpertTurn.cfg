SPECIFICATION FairSpec
CONSTANTS
    MaxSteps = 3
    MaxCalls = 2
    Continuations = 1
    Retries = 1
    Permits = 2
    MaxWrites = 2
INVARIANTS
    TypeOK
    
    EndsInTheProtocol
    UnsavedWorkIsExplained
PROPERTIES
    TurnEnds
CHECK_DEADLOCK FALSE
