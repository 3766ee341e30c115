SPECIFICATION Spec
CONSTANTS
    Clients = {ann, bob}
    Owner = ruben
    Ids = {i1}
    Keys = {k1}
    Requests = {r1, r2}
    Priorities = {"medium"}
    Ops = {"upload", "advance", "decline", "withdraw", "flag", "comment"}
    MaxMishaps = 0
    Overlap = TRUE
SYMMETRY Symmetry
INVARIANTS
    NoStepSkipped
    TrailNeverInvents
    EveryMoveIsToldAndRecorded
PROPERTY FailsOnlyIfWithdrawn
