SPECIFICATION FairSpec
CONSTANTS
    Experts = {a, b}
    UserMessages = {m1, m2}
    MaxTurns = 2
    MaxChanges = 1
    Host = Host
    NoOne = NoOne
INVARIANTS
    TypeOK
    ExpertIsTheVisibleTarget
    StreamIsClosed
    FailedRunLeavesNoRoute
PROPERTIES
    BindingsAreTheirOwners
    RunEnds
