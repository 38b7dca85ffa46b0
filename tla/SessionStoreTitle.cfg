SPECIFICATION Spec
CONSTANTS
    Sessions = {s1, s2}
    FirstSession = s1
    Runs = {r1, r2}
    NoRun = NoRun
    UserMessages = {u1, u2}
    Replies = {m1, m2}
    Names = {n}
    NoFile = NoFile
    NoSession = NoSession
    MaxStamps = 4
SYMMETRY Symmetry
PROPERTY ManualTitleStaysManual
