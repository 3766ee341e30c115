SPECIFICATION Spec
CONSTANTS
    Clients = {ann}
    Owner = ruben
    Ids = {i1, i2, i3}
    Keys = {k1, k2, k3}
    Requests = {r1, r2}
    Priorities = {"medium"}
    Ops = {"upload", "requeue", "withdraw"}
    MaxMishaps = 2
    Overlap = TRUE
SYMMETRY Symmetry
INVARIANTS
    EveryTicketHasItsFile
    FilesAccountedFor
