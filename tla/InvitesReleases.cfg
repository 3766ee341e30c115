SPECIFICATION SidesSpec
CONSTANTS
    Emails = {e1}
    Invites = {i1, i2}
    Tokens = {t1, t2, t3}
    Requests = {r1, r2}
    OidcSignup = "invite"
    MaxMishaps = 1
    Clones = {r1, r2}
    Versions = {1, 2}
    MaxMain = 4
    MaxBegun = 2
SYMMETRY Symmetry
CHECK_DEADLOCK FALSE
INVARIANTS
    OneOpenPerAddress
    InviteOnly
    ClosingIsOnTheTrail
    ReleasedAsMerged
PROPERTIES
    ClosedForGood
