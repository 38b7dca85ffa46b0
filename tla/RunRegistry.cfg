SPECIFICATION FairSpec
CONSTANTS
    Runs = {r1, r2, r3}
    Requests = {q1, q2}
    NoRun = NoRun
INVARIANTS
    TypeOK
    RunningIsRegistered
    MirrorNamesTheWriter
PROPERTIES
    StopSparesTheSuccessor
    LeaseSpec
    StopReleasesTheRun
    StaleMirrorIsCleared
