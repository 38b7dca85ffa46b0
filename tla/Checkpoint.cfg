SPECIFICATION Spec
CONSTANTS
    Sessions = {s1, s2}
    FirstSession = s1
    Titles = {plain}
    FirstTitle = plain
    ForkTitle = plain
    ForkOf <- MCForkOf
    Scenarios = {noScenario}
    NoScenario = noScenario
    Messages = {m1, m2, m3}
    Paths = {p1}
    Contents = {a}
    Absent = Absent
    Torn = Torn
    Missing = Missing
    Ids = {c1, c2, c3}
    NoId = NoId
    HardLinks = FALSE
    TornWrites = FALSE
    ReadErrors = FALSE
    PairBound = 2
    MixedBound = 1
SYMMETRY Symmetry
CONSTRAINT Explored
INVARIANTS
    TypeOK
    HeadIsPublished
    ChainIsWellFormed
    MessageTargetNotLater
PROPERTIES
    LogSpec
    ChainOnlyGrows
