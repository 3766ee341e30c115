SPECIFICATION StorageSpec
CONSTANTS
    Requests = {q1, q2}
    MaxMishaps = 2
    Keys = {k1, k2, k3, k4}
    Filed = {k1, k2}
    StoppedAtSync = TRUE
SYMMETRY Symmetry
CHECK_DEADLOCK FALSE
INVARIANTS
    EveryRowOpens
