SPECIFICATION Spec
CONSTANTS
    Clients = {ann}
    Owner = ruben
    Ids = {i1}
    Keys = {k1}
    Requests = {r1, r2}
    Priorities = {"medium", "high"}
    Ops = {"upload", "advance", "decline", "withdraw", "priority", "flag", "clear"}
    MaxMishaps = 2
    Overlap = FALSE
SYMMETRY Symmetry
INVARIANT TrailClaimsWhatHappened
PROPERTY ImplementsLifecycle
