SPECIFICATION Spec
CONSTANTS
    Clients = {ann}
    Owner = ruben
    Ids = {i1}
    Keys = {k1}
    Requests = {r1, r2}
    Priorities = {"medium"}
    Ops = {"upload", "advance", "decline"}
    MaxMishaps = 0
    Overlap = TRUE
SYMMETRY Symmetry
PROPERTY OnlyForwardsOneStep
