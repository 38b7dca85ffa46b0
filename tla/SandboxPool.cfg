SPECIFICATION Spec
CONSTANTS
    Calls = {c1, c2}
    NoCall = NoCall
    Keys = {user, script}
    UserKey = user
    Policies = {p}
    Requirements = {pkg, url}
    Skipped = {url}
    Texts = {{pkg}, {url}}
    Images = {{}}
    Sandboxes = {s1, s2}
    None = None
SYMMETRY Symmetry
INVARIANTS
    TypeOK
    SetUpAlone
    RetryIsElsewhere
    NothingIsForgotten
PROPERTIES
    HandedOverReady
