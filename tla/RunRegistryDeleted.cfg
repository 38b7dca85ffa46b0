SPECIFICATION Spec
CONSTANTS
    Runs = {r1, r2}
    Requests = {q1}
    NoRun = NoRun
PROPERTY DeletedStaysDeleted
