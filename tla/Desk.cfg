SPECIFICATION DeskSpec
CONSTANTS
    Requests = {q1, q2}
    MaxMishaps = 2
    Members = {c1, c2, owner}
    PrinterOwner = owner
    FeatureIds = {f1}
    SETTING_KEYS = {"importSources", "mailFromName"}
    Given = {"theirs"}
    MaxSaves = 2
    Materials = 3
    Colours = 0
    Spare = 1
    Names = 4
    Toggled = {1, 2}
    Named = {1, 4}
    BenefitIds = {b1, b2}
    Labels = {l1, l2}
    Readers = {r1, owner}
    Printer = owner
    About = {s1}
    NoticeIds = {n1}
    Keys = {k1, k2, k3, k4}
    Filed = {k1, k2}
    StoppedAtSync = FALSE
    Line = 2
    DiskFiles = {d1, d2}
    Links = {u1, u2}
    Calls = {a1, a2}
    Parts = {"root", "leaf"}
    ObjectIds = {1, 2}
    Objects <- InspectedObjects
    Referred <- InspectedReferred
    Built <- InspectedBuilt
    MaxDepth = 2
    Transforms <- InspectedTransforms
    Coordinates = {1}
    MaxVertices = 1
    MaxParts = 1
    MaxItems = 2
    StackNames = {"ppp-app", "ppp-db"}
    App = "ppp-app"
    AtOnce = FALSE
SYMMETRY Symmetry
CHECK_DEADLOCK FALSE
INVARIANTS
    DeskTypeOK
    FeatureChangesToldAndRecorded
    TrailIsAnUnbrokenChain
    OrderIsTheLastMoves
    AvailabilityIsOnTheTrail
    NoPatchUndoesAnother
    NoMailToTheShutOut
    EveryRowHasItsModel
    NoReleaseGoesUnread
    OneFailureIsUndone
    WhatWasThereComesBack
    OneModelPerTicket
    MeasuredAsBuilt
PROPERTIES
    ImplementsModelStore
