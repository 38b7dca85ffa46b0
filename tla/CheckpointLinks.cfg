SPECIFICATION Spec
CONSTANTS
    Sessions = {s1, s2}
    FirstSession = s1
    Titles = {plain}
    FirstTitle = plain
    ForkTitle = plain
    ForkOf <- MCForkOf
    Scenarios = {noScenario}
    NoScenario = noScenario
    Messages = {m1}
    Paths = {p1}
    Contents = {a, b}
    Absent = Absent
    Torn = Torn
    Missing = Missing
    Ids = {c1, c2, c3}
    NoId = NoId
    HardLinks = TRUE
    TornWrites = FALSE
    ReadErrors = FALSE
    PairBound = 2
    MixedBound = 1
SYMMETRY Symmetry
PROPERTY CheckpointsAreImmutable
