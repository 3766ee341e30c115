SPECIFICATION FairGateSpec
CONSTANTS
    Uploads = {r1, r2, r3, r4, r5, r6}
    MaxActive = 2
    MaxWaiting = 3
INVARIANTS
    BoundedMemory
PROPERTIES
    NoOvertaking
    WaiterGetsIn
